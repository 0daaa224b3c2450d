------------------------------ MODULE RetryTiming ------------------------------
(***************************************************************************)
(* How long the push driver and the poller wait before they try again.     *)
(* The two other modules about them leave time out; this one keeps nothing *)
(* but it: a duration is an integer of a fixed width that wraps when it is *)
(* doubled or multiplied, a Retry-After header comes from the peer, and    *)
(* jitter goes through a float whose conversion back, when the result does *)
(* not fit, is the least integer on amd64 and the greatest on arm64.       *)
(***************************************************************************)
EXTENDS Integers

CONSTANTS
    MaxDuration,    \* the greatest time.Duration, 2^63 - 1 in the program
    Second,         \* time.Second: nanoseconds in a second
    DefaultMax,     \* defaultMaxBackoff, or defaultErrorBackoffMax of the poller
    Headers,        \* the Retry-After headers peers send
    Bounds          \* the durations a program passes to the options

Durations == (-MaxDuration - 1)..MaxDuration

NotYet == -1

(***************************************************************************)
(* A header is delta-seconds, or a date given by what is left until it,    *)
(* which Sub saturates; everything else parses to no hint, as a date of    *)
(* the past does.                                                          *)
(***************************************************************************)
NoHeader == [form |-> "seconds", value |-> 0]

ASSUME TimingAssumption ==
    /\ MaxDuration \in Nat /\ Second \in 1..MaxDuration
    /\ DefaultMax \in Second..MaxDuration
    /\ Bounds \subseteq Durations
    /\ NoHeader \in Headers
    /\ Headers \subseteq [form : {"seconds"}, value : Int] \cup [form : {"date"}, value : Durations]

VARIABLES
    waiter,     \* who waits: a "push" driver or a "poller"
    started,    \* whether its options have been applied
    backoff,    \* the backoff of poller.go:598; the driver's two bounds and Deliver's local
    asked,      \* how long the last failure asked for, before any wrap; 0 if it did not
    waited      \* how long was slept after it; NotYet before the first failure

vars == <<waiter, started, backoff, asked, waited>>

Backoffs == [initial : 1..MaxDuration, max : 1..MaxDuration, current : Durations]

-----------------------------------------------------------------------------
(* Arithmetic of time.Duration *)

\* Signed integers wrap.
Wrap(n) == ((n + MaxDuration + 1) % (2 * MaxDuration + 2)) - MaxDuration - 1

\* Multiplying by two leaves the range at most once.
Double(d) == IF 2 * d > MaxDuration THEN 2 * d - 2 * MaxDuration - 2
             ELSE IF 2 * d < -MaxDuration - 1 THEN 2 * d + 2 * MaxDuration + 2
             ELSE 2 * d

\* A fifth more or less of d, truncated. A result out of range converts to
\* either end of it, depending on the machine.
Jittered(d) == {j \in 0..MaxDuration : 5 * j <= 6 * d /\ 5 * j + 5 > 4 * d}
                \cup (IF 6 * d > 5 * MaxDuration THEN {MaxDuration, -MaxDuration - 1} ELSE {})

\* applyJitter: nothing that is not positive is perturbed.
ApplyJitter(d) == IF d <= 0 THEN {d} ELSE Jittered(d)

\* capDuration.
CapDuration(d, maximum) == IF d < 0 THEN 0 ELSE IF d > maximum THEN maximum ELSE d

\* Mutant: the seconds are taken for nanoseconds.
ParseBareSeconds(header) == IF header.value <= 0 THEN 0 ELSE Wrap(header.value)

\* parseRetryAfter of both sides: 0 is no hint.
ParseRetryAfter(header) ==
    IF header.value <= 0 THEN 0
    ELSE IF header.form = "seconds" THEN Wrap(header.value * Second)
    ELSE header.value

\* What the header asks for, were durations unbounded.
Asked(header) == IF header.value <= 0 THEN 0
                 ELSE IF header.form = "seconds" THEN header.value * Second
                 ELSE header.value

-----------------------------------------------------------------------------
(* Options *)

\* Mutant: the maximum is compared with the argument, not with the bound in force.
PushBoundsOfArguments(initial, maximum) ==
    LET first == IF initial > 0 THEN initial ELSE backoff.initial
    IN  [initial |-> first, current |-> first,
         max |-> IF maximum < initial THEN first ELSE IF maximum < 1 THEN 1 ELSE maximum]

\* The driver's WithBackoff: an initial that is not positive keeps the one
\* before it, a maximum below it is raised to it.
PushBounds(initial, maximum) ==
    LET first == IF initial > 0 THEN initial ELSE backoff.initial
    IN  [initial |-> first, current |-> first,
         max |-> IF maximum < first THEN first ELSE maximum]

WithBackoff(initial, maximum) ==
    /\ waiter = "push" /\ ~started
    /\ backoff' = PushBounds(initial, maximum)
    /\ UNCHANGED <<waiter, started, asked, waited>>

\* The poller's WithErrorBackoff ignores bounds that are not in order.
WithErrorBackoff(initial, maximum) ==
    /\ waiter = "poller" /\ ~started
    /\ initial > 0 /\ maximum >= initial
    /\ backoff' = [initial |-> initial, max |-> maximum, current |-> initial]
    /\ UNCHANGED <<waiter, started, asked, waited>>

\* The constructor returns: Deliver or Run may be called.
Start ==
    /\ ~started
    /\ started' = TRUE
    /\ UNCHANGED <<waiter, backoff, asked, waited>>

-----------------------------------------------------------------------------
(* The push driver *)

\* Mutant: the cap is applied before the jitter.
PushWaitsCappedFirst(current, hint, maximum) ==
    ApplyJitter(CapDuration(IF hint > 0 THEN hint ELSE current, maximum))

\* What the driver may sleep: the hint, or else the backoff, after jitter.
PushWaits(current, hint, maximum) ==
    {CapDuration(d, maximum) : d \in ApplyJitter(IF hint > 0 THEN hint ELSE current)}

\* Mutant: the backoff is not cut to the maximum.
PushDoubleUncapped(b) == Double(b.current)

\* Doubling after the sleep; the cap looks only at what is too large.
PushDouble(b) == IF Double(b.current) > b.max THEN b.max ELSE Double(b.current)

\* Deliver after an attempt that failed for a while and was not the last.
PushRetry(header) ==
    /\ waiter = "push" /\ started
    /\ waited' \in PushWaits(backoff.current, ParseRetryAfter(header), backoff.max)
    /\ asked' = Asked(header)
    /\ backoff' = [backoff EXCEPT !.current = PushDouble(backoff)]
    /\ UNCHANGED <<waiter, started>>

\* The next call of Deliver starts from the initial backoff.
Deliver ==
    /\ waiter = "push" /\ started
    /\ backoff' = [backoff EXCEPT !.current = backoff.initial]
    /\ asked' = 0 /\ waited' = NotYet
    /\ UNCHANGED <<waiter, started>>

-----------------------------------------------------------------------------
(* The poller *)

\* Mutant: without the guard against overflow.
NextBackoffUnguarded(b) == IF Double(b.current) > b.max THEN b.max ELSE Double(b.current)

\* backoff.Next: what it stores for the call after this one ...
NextBackoff(b) == IF Double(b.current) > b.max \/ Double(b.current) < b.current
                  THEN b.max ELSE Double(b.current)

\* ... and what it returns, jittered, never negative.
NextWaits(b) == {IF d < 0 THEN 0 ELSE d : d \in ApplyJitter(b.current)}

\* Mutant: Run takes every hint but zero.
PollWaitsHint(hint, b) == IF hint = 0 THEN NextWaits(b) ELSE {IF hint < 0 THEN 0 ELSE hint}

\* Run sleeps for the hint if there is one, and else for the error backoff,
\* which only then moves on.
PollWaits(hint, b) == IF hint <= 0 THEN NextWaits(b) ELSE {hint}

\* Run after a round that failed: on 429 and 503 with the header, else without.
PollFails(header) ==
    LET hint == ParseRetryAfter(header) IN
    /\ waiter = "poller" /\ started
    /\ waited' \in PollWaits(hint, backoff)
    /\ asked' = Asked(header)
    /\ backoff' = IF hint <= 0 THEN [backoff EXCEPT !.current = NextBackoff(backoff)] ELSE backoff
    /\ UNCHANGED <<waiter, started>>

\* Run after a round that succeeded: errorBackoff.Reset.
PollSucceeds ==
    /\ waiter = "poller" /\ started
    /\ backoff' = [backoff EXCEPT !.current = backoff.initial]
    /\ asked' = 0 /\ waited' = NotYet
    /\ UNCHANGED <<waiter, started>>

-----------------------------------------------------------------------------

Init ==
    /\ waiter \in {"push", "poller"}
    /\ started = FALSE
    /\ backoff = [initial |-> Second, max |-> DefaultMax, current |-> Second]
    /\ asked = 0 /\ waited = NotYet

Next ==
    \/ \E initial, maximum \in Bounds : WithBackoff(initial, maximum) \/ WithErrorBackoff(initial, maximum)
    \/ Start \/ Deliver \/ PollSucceeds
    \/ \E header \in Headers : PushRetry(header) \/ PollFails(header)

Spec == Init /\ [][Next]_vars

-----------------------------------------------------------------------------
(* Properties *)

\* A hint fits when neither its seconds nor its jitter leave the range.
HintFits == 6 * asked <= 5 * MaxDuration

\* A maximum the driver may double, and one the poller may jitter.
MaxFits == IF waiter = "push" THEN 2 * backoff.max <= MaxDuration
                              ELSE 6 * backoff.max <= 5 * MaxDuration

\* Nobody ever waits a negative time, and time is counted in whole nanoseconds
\* (PushDriver and Poller: what is handed to the two sleeps).
TypeOK ==
    /\ waiter \in {"push", "poller"}
    /\ started \in BOOLEAN
    /\ backoff \in Backoffs
    /\ asked \in Nat
    /\ waited \in {NotYet} \cup 0..MaxDuration

\* The backoff stays between its bounds however options are repeated and
\* however many failures follow each other: in the poller whatever the bounds
\* (poller.go:614), in the driver when the maximum may be doubled
\* (pushdriver.go:279).
BackoffInBounds ==
    /\ backoff.initial <= backoff.max
    /\ waiter = "poller" \/ MaxFits => backoff.current \in backoff.initial..backoff.max

\* The driver never sleeps past its maximum, whatever a Receiver's Retry-After
\* asks for (pushdriver.go:270); the poller passes its own by a fifth at most,
\* and only a Transmitter that asks for it makes it wait longer (poller.go:331).
WaitWithinCeiling ==
    /\ waiter = "push" => waited <= backoff.max
    /\ waiter = "poller" /\ asked = 0 => 5 * waited <= 6 * backoff.max

\* A retry does not come back at once: after a step that failed there is a
\* sleep, in the poller even if the product of Retry-After and time.Second is
\* negative (poller.go:653, 332), in the driver as long as the hint fits
\* (pushdriver.go:270).
NeverSpins ==
    /\ MaxFits
    /\ backoff.initial > 1
    /\ waiter = "push" => HintFits /\ asked # 1
    => waited # 0

\* A retry comes at most a fifth, and what truncation takes, before the time
\* the peer asked for, unless the driver's maximum is shorter (pushdriver.go:270);
\* the poller waits that time exactly (poller.go:331).
HintHonoured ==
    asked > 0 /\ HintFits =>
      IF waiter = "push" THEN waited = backoff.max \/ 5 * waited + 5 > 4 * asked
                         ELSE waited = asked

\* As long as a step goes on failing and nobody asks for a time, it is not
\* tried more and more often: no wait is shorter than the one before it by more
\* than jitter explains (pushdriver.go:279, poller.go:614).
WaitsKeepUp ==
    [][ MaxFits /\ asked = 0 /\ asked' = 0
          /\ waited # NotYet /\ waited' # NotYet
          => IF waiter = "push" THEN waited' = backoff.max \/ 5 * waited' + 5 > 4 * waited
                                ELSE 3 * waited' + 3 > 2 * waited ]_vars
=============================================================================
