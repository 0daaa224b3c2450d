----------------------------- MODULE MCRetryTiming -----------------------------
(***************************************************************************)
(* Durations of six bits, four nanoseconds to the second.                  *)
(***************************************************************************)
EXTENDS RetryTiming

\* Seconds up to where their product with Second has wrapped past zero again,
\* and dates that are past, near, and about the edge where jitter overflows.
MCHeaders == [form : {"seconds"}, value : (-1..9) \cup {11, 12, 15, 16, 17, 20}]
             \cup [form : {"date"}, value : {-32, -1, 0, 1, 2, 3, 24, 25, 26, 31}]

\* Bounds that are no bounds, that are small, and on both sides of the largest
\* that may be doubled (15) and jittered (25).
MCBounds == {-1, 0, 1, 2, 3, 7, 15, 16, 25, 26, 31}
=============================================================================
