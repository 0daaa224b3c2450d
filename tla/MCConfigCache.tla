--------------------------- MODULE MCConfigCache ---------------------------
(* Instances of ConfigCache for TLC. *)
EXTENDS ConfigCache

CONSTANTS c1, c2

TwoCallers == {c1, c2}

\* A cache that is switched off and one whose ttl is a second and a third.
SomeTTLs == {0, 4}

\* None, zero, less than the ttl, more, and two whose durations wrap: 3
\* seconds to a negative one, 6 to one shorter than the ttl.
SomeMaxAges == {-1, 0, 1, 2, 3, 6}
=============================================================================
