--------------------------- MODULE RetryTimingProofs ---------------------------
(***************************************************************************)
(* Proofs about the waits of the push driver and the poller, for every     *)
(* width of the integers, every length of a second and every header.       *)
(***************************************************************************)
EXTENDS RetryTiming, TLAPS

-----------------------------------------------------------------------------
(* Arithmetic *)

\* A product that has wrapped is a duration again.
LEMMA WrapIsDuration ==
    ASSUME NEW n \in Int PROVE Wrap(n) \in Durations
<1> DEFINE m == 2 * MaxDuration + 2
<1>1. m \in Nat \ {0} BY TimingAssumption
<1>2. n + MaxDuration + 1 \in Int BY TimingAssumption
<1>3. (n + MaxDuration + 1) % m \in 0..(m - 1)
  <2> HIDE DEF m
  <2> QED BY <1>1, <1>2
<1> QED BY <1>3, TimingAssumption DEF Wrap, Durations

\* A product that fits does not wrap.
LEMMA WrapKeepsWhatFits ==
    ASSUME NEW n \in Nat, n <= MaxDuration PROVE Wrap(n) = n
<1> DEFINE m == 2 * MaxDuration + 2
<1>1. m \in Nat \ {0} /\ n + MaxDuration + 1 \in 0..(m - 1) BY TimingAssumption
<1>2. (n + MaxDuration + 1) % m = n + MaxDuration + 1
  <2> HIDE DEF m
  <2> QED BY <1>1
<1> QED BY <1>2, TimingAssumption DEF Wrap

\* A double is a duration, positive as long as it fits, and never larger than
\* its half twice taken.
LEMMA DoubleIsDuration ==
    ASSUME NEW d \in Durations
    PROVE  /\ Double(d) \in Durations
           /\ 2 * d <= MaxDuration /\ d >= 0 => Double(d) = 2 * d
           /\ 2 * d > MaxDuration => Double(d) < d
BY TimingAssumption DEF Double, Durations

\* Comparisons the steps below come down to: a longer backoff still explains a
\* wait, and a wait explained by the backoff is not much longer than the next.
LEMMA LongerExplains ==
    ASSUME NEW w \in Int, NEW c \in Int, NEW n \in Int, 5 * w <= 6 * c, n >= c
    PROVE  5 * w <= 6 * n
OBVIOUS

\* The driver's next wait is not much shorter than the last.
LEMMA PushKeepsUp ==
    ASSUME NEW w \in Int, NEW c \in Int, NEW v \in Int, w <= c, 5 * v + 5 > 4 * c
    PROVE  5 * v + 5 > 4 * w
OBVIOUS

\* Nor is the poller's, whose jitter works in both directions.
LEMMA PollKeepsUp ==
    ASSUME NEW w \in Int, NEW c \in Int, NEW v \in Int, 5 * w <= 6 * c, 5 * v + 5 > 4 * c
    PROVE  3 * v + 3 > 2 * w
OBVIOUS

\* What a header asks for, and what is made of it: a duration that is not
\* larger, and the same one when it fits.
LEMMA HintOfHeader ==
    ASSUME NEW header \in Headers
    PROVE  /\ Asked(header) \in Nat
           /\ ParseRetryAfter(header) \in Durations
           /\ Asked(header) <= MaxDuration => ParseRetryAfter(header) = Asked(header)
<1>1. header.value \in Int /\ (header.form # "seconds" => header.value \in Durations)
  BY TimingAssumption DEF Durations
<1>2. header.value > 0 => header.value * Second \in Nat
  BY <1>1, TimingAssumption
<1>3. header.value > 0 => Wrap(header.value * Second) \in Durations
  BY <1>2, WrapIsDuration
<1>4. header.value > 0 /\ header.value * Second <= MaxDuration
        => Wrap(header.value * Second) = header.value * Second
  BY <1>2, WrapKeepsWhatFits
<1>5. 0 \in Durations BY TimingAssumption DEF Durations
<1>6. CASE header.value <= 0 BY <1>5, <1>6 DEF Asked, ParseRetryAfter
<1>7. CASE header.value > 0 /\ header.form = "seconds"
  BY <1>1, <1>2, <1>3, <1>4, <1>7 DEF Asked, ParseRetryAfter
<1>8. CASE header.value > 0 /\ header.form # "seconds"
  BY <1>1, <1>8 DEF Asked, ParseRetryAfter, Durations
<1> QED BY <1>1, <1>6, <1>7, <1>8

\* What jitter makes of a positive duration.
LEMMA JitterBounds ==
    ASSUME NEW d \in Durations, NEW j \in ApplyJitter(d)
    PROVE  /\ j \in Durations
           /\ d <= 0 => j = d
           /\ d > 0 /\ 6 * d <= 5 * MaxDuration => j >= 0 /\ 5 * j <= 6 * d /\ 5 * j + 5 > 4 * d
<1>1. CASE d <= 0 BY <1>1, TimingAssumption DEF ApplyJitter, Durations
<1>2. CASE d > 0
  BY <1>2, TimingAssumption DEF ApplyJitter, Jittered, Durations
<1> QED BY <1>1, <1>2, TimingAssumption DEF Durations

-----------------------------------------------------------------------------
(* Backoffs *)

\* A backoff is between its first delay and its maximum.
InBounds(b) == b.current \in b.initial..b.max

\* The poller's guard keeps the backoff between its bounds whatever they are.
LEMMA NextBackoffInBounds ==
    ASSUME NEW b \in Backoffs, InBounds(b)
    PROVE  /\ NextBackoff(b) \in b.initial..b.max
           /\ NextBackoff(b) >= b.current
           /\ NextBackoff(b) \in Durations
<1>1. /\ b.initial \in 1..MaxDuration /\ b.max \in 1..MaxDuration
      /\ b.current \in Durations /\ b.current >= b.initial /\ b.current <= b.max
  BY TimingAssumption DEF Backoffs, InBounds, Durations
<1>2. /\ Double(b.current) \in Durations
      /\ 2 * b.current <= MaxDuration /\ b.current >= 0 => Double(b.current) = 2 * b.current
      /\ 2 * b.current > MaxDuration => Double(b.current) < b.current
  BY <1>1, DoubleIsDuration
<1> QED BY <1>1, <1>2, TimingAssumption DEF NextBackoff, Durations

\* The driver's has no such guard: it is a duration, and stays between the
\* bounds when the maximum may be doubled. It then is at least one and a half
\* times what it was, or the maximum.
LEMMA PushDoubleInBounds ==
    ASSUME NEW b \in Backoffs
    PROVE  /\ PushDouble(b) \in Durations
           /\ InBounds(b) /\ 2 * b.max <= MaxDuration
                => /\ PushDouble(b) \in b.initial..b.max
                   /\ PushDouble(b) = b.max \/ PushDouble(b) = 2 * b.current
<1>1. /\ b.initial \in 1..MaxDuration /\ b.max \in 1..MaxDuration
      /\ b.current \in Durations
  BY DEF Backoffs
<1>2. /\ Double(b.current) \in Durations
      /\ 2 * b.current <= MaxDuration /\ b.current >= 0 => Double(b.current) = 2 * b.current
  BY <1>1, DoubleIsDuration
<1>3. b.max \in Durations BY <1>1, TimingAssumption DEF Durations
<1> QED BY <1>1, <1>2, <1>3, TimingAssumption DEF PushDouble, InBounds, Durations

\* What the driver sleeps is between zero and the maximum. If jitter cannot
\* overflow it is the maximum or at most a fifth off.
LEMMA PushWaitsBounds ==
    ASSUME NEW current \in Durations, NEW hint \in Durations, NEW maximum \in 1..MaxDuration,
           NEW w \in PushWaits(current, hint, maximum)
    PROVE  /\ w \in 0..maximum
           /\ hint > 0 /\ 6 * hint <= 5 * MaxDuration
                => w = maximum \/ 5 * w + 5 > 4 * hint
           /\ hint <= 0 /\ current > 0 /\ 6 * current <= 5 * MaxDuration
                => /\ w = maximum \/ 5 * w + 5 > 4 * current
                   /\ 5 * w <= 6 * current
<1> DEFINE base == IF hint > 0 THEN hint ELSE current
<1>1. base \in Durations OBVIOUS
<1>2. PICK d \in ApplyJitter(base) : w = CapDuration(d, maximum)
  BY DEF PushWaits
<1>3. /\ d \in Durations
      /\ base > 0 /\ 6 * base <= 5 * MaxDuration => d >= 0 /\ 5 * d <= 6 * base /\ 5 * d + 5 > 4 * base
  <2> HIDE DEF base
  <2> QED BY <1>1, <1>2, JitterBounds
<1> QED BY <1>1, <1>2, <1>3, TimingAssumption DEF CapDuration, Durations

\* What the poller sleeps: the hint itself, or its backoff, a fifth more or
\* less. If jitter overflows the sleep is none or the longest there is.
LEMMA PollWaitsBounds ==
    ASSUME NEW b \in Backoffs, InBounds(b), NEW hint \in Durations, NEW w \in PollWaits(hint, b)
    PROVE  /\ w \in 0..MaxDuration
           /\ hint > 0 => w = hint
           /\ hint <= 0 => 5 * w <= 6 * b.max
           /\ hint <= 0 /\ 6 * b.current <= 5 * MaxDuration
                => 5 * w <= 6 * b.current /\ 5 * w + 5 > 4 * b.current
<1>1. /\ b.initial \in 1..MaxDuration /\ b.max \in 1..MaxDuration
      /\ b.current \in Durations /\ b.current >= b.initial /\ b.current <= b.max
  BY TimingAssumption DEF Backoffs, InBounds, Durations
<1>2. CASE hint > 0 BY <1>2, TimingAssumption DEF PollWaits, Durations
<1>3. CASE hint <= 0
  <2>1. PICK d \in ApplyJitter(b.current) : w = IF d < 0 THEN 0 ELSE d
    BY <1>3 DEF PollWaits, NextWaits
  <2>2. /\ d \in Durations
        /\ b.current > 0 /\ 6 * b.current <= 5 * MaxDuration
             => d >= 0 /\ 5 * d <= 6 * b.current /\ 5 * d + 5 > 4 * b.current
    BY <1>1, <2>1, JitterBounds
  <2> QED BY <1>1, <1>3, <2>1, <2>2, TimingAssumption DEF Durations
<1> QED BY <1>2, <1>3, TimingAssumption DEF Durations

-----------------------------------------------------------------------------
(* The inductive invariant *)

\* Nothing has been waited for before Deliver or Run is called.
FreshUntilStarted == ~started => asked = 0 /\ waited = NotYet

\* The backoff in force explains the last sleep nobody asked for: the driver's
\* is not shorter, the poller's only by what jitter added.
Sustained ==
    MaxFits /\ asked = 0 /\ waited # NotYet =>
      IF waiter = "push" THEN waited <= backoff.current
                         ELSE 5 * waited <= 6 * backoff.current

\* The inductive invariant.
IInv ==
    /\ TypeOK /\ FreshUntilStarted /\ Sustained
    /\ BackoffInBounds /\ WaitWithinCeiling /\ NeverSpins /\ HintHonoured

\* The defaults are in bounds and nothing was waited for.
LEMMA InitIInv == Init => IInv
<1> SUFFICES ASSUME Init PROVE IInv OBVIOUS
<1>1. TypeOK
  <2>1. Second \in 1..MaxDuration /\ DefaultMax \in 1..MaxDuration /\ Second \in Durations
    BY TimingAssumption DEF Durations
  <2>2. backoff \in Backoffs BY <2>1 DEF Init, Backoffs
  <2> QED BY <2>2 DEF Init, TypeOK
<1>2. backoff.initial = Second /\ backoff.max = DefaultMax /\ backoff.current = Second
  BY DEF Init
<1>3. BackoffInBounds BY <1>2, TimingAssumption DEF Init, BackoffInBounds
<1>4. FreshUntilStarted /\ Sustained BY DEF Init, FreshUntilStarted, Sustained
<1>5. WaitWithinCeiling BY <1>2, TimingAssumption DEF Init, WaitWithinCeiling, NotYet
<1>6. NeverSpins BY DEF Init, NeverSpins, NotYet
<1>7. HintHonoured BY DEF Init, HintHonoured
<1> QED BY <1>1, <1>3, <1>4, <1>5, <1>6, <1>7 DEF IInv

\* A step that leaves nothing waited for: options, the start, a new call, a
\* round that succeeded. Only the backoff has to be looked at.
LEMMA QuietStep ==
    ASSUME IInv, waited' = NotYet, asked' = 0, waiter' = waiter, started' \in BOOLEAN,
           backoff' \in Backoffs, backoff'.initial <= backoff'.max,
           InBounds(backoff')
    PROVE  IInv'
<1>1. TypeOK' BY DEF IInv, TypeOK
<1>2. FreshUntilStarted' /\ Sustained' BY DEF FreshUntilStarted, Sustained
<1>3. BackoffInBounds' BY DEF BackoffInBounds, InBounds
<1>4. backoff'.max \in 1..MaxDuration BY DEF Backoffs
<1>5. WaitWithinCeiling' BY <1>4, TimingAssumption DEF WaitWithinCeiling, NotYet
<1>6. NeverSpins' BY DEF NeverSpins, NotYet
<1>7. HintHonoured' BY DEF HintHonoured
<1> QED BY <1>1, <1>2, <1>3, <1>5, <1>6, <1>7 DEF IInv

\* Options, the start and the steps that forget the last failure.
LEMMA QuietSteps ==
    ASSUME IInv,
           \/ \E initial, maximum \in Bounds :
                WithBackoff(initial, maximum) \/ WithErrorBackoff(initial, maximum)
           \/ Start \/ Deliver \/ PollSucceeds
    PROVE  IInv'
<1>0. /\ backoff.initial \in 1..MaxDuration /\ backoff.max \in 1..MaxDuration
      /\ backoff.initial <= backoff.max /\ backoff \in Backoffs
      /\ backoff = [initial |-> backoff.initial, max |-> backoff.max, current |-> backoff.current]
  BY DEF IInv, TypeOK, Backoffs, BackoffInBounds
<1>1. ASSUME NEW initial \in Bounds, NEW maximum \in Bounds, WithBackoff(initial, maximum)
      PROVE  IInv'
  <2>1. initial \in Durations /\ maximum \in Durations BY TimingAssumption
  <2>2. PICK first \in 1..MaxDuration, last \in 1..MaxDuration :
          /\ first <= last
          /\ backoff' = [initial |-> first, current |-> first, max |-> last]
    <3> DEFINE first == IF initial > 0 THEN initial ELSE backoff.initial
               last == IF maximum < first THEN first ELSE maximum
    <3>1. first \in 1..MaxDuration /\ last \in 1..MaxDuration /\ first <= last
      BY <1>0, <2>1, TimingAssumption DEF Durations
    <3>2. backoff' = [initial |-> first, current |-> first, max |-> last]
      BY <1>1 DEF WithBackoff, PushBounds
    <3> QED BY <3>1, <3>2
  <2>3. backoff' \in Backoffs /\ backoff'.initial <= backoff'.max /\ InBounds(backoff')
    BY <2>2, TimingAssumption DEF Backoffs, InBounds, Durations
  <2> QED BY <1>1, <2>3, QuietStep DEF WithBackoff, IInv, FreshUntilStarted, TypeOK
<1>2. ASSUME NEW initial \in Bounds, NEW maximum \in Bounds, WithErrorBackoff(initial, maximum)
      PROVE  IInv'
  <2>1. initial \in 1..MaxDuration /\ maximum \in 1..MaxDuration /\ initial <= maximum
    BY <1>2, TimingAssumption DEF WithErrorBackoff, Durations
  <2>2. backoff' \in Backoffs /\ backoff'.initial <= backoff'.max /\ InBounds(backoff')
    BY <1>2, <2>1, TimingAssumption DEF WithErrorBackoff, Backoffs, InBounds, Durations
  <2> QED BY <1>2, <2>2, QuietStep DEF WithErrorBackoff, IInv, FreshUntilStarted, TypeOK
<1>3. CASE Start
  <2>1. UNCHANGED <<waiter, backoff, asked, waited>> /\ started' = TRUE /\ waited = NotYet /\ asked = 0
    BY <1>3 DEF Start, IInv, FreshUntilStarted
  <2> QED BY <2>1 DEF IInv, TypeOK, FreshUntilStarted, Sustained, BackoffInBounds, MaxFits,
                      WaitWithinCeiling, NeverSpins, HintHonoured, HintFits
<1>4. CASE Deliver \/ PollSucceeds
  <2>1. /\ backoff' = [backoff EXCEPT !.current = backoff.initial]
        /\ waited' = NotYet /\ asked' = 0 /\ waiter' = waiter /\ started' = started
    BY <1>4 DEF Deliver, PollSucceeds
  <2>2. backoff' = [initial |-> backoff.initial, max |-> backoff.max, current |-> backoff.initial]
    BY <1>0, <2>1 DEF Backoffs
  <2>3. backoff' \in Backoffs /\ backoff'.initial <= backoff'.max /\ InBounds(backoff')
    BY <1>0, <2>2, TimingAssumption DEF Backoffs, InBounds, Durations
  <2> QED BY <2>1, <2>3, QuietStep DEF IInv, TypeOK
<1> QED BY <1>1, <1>2, <1>3, <1>4

\* A failure in the driver.
LEMMA PushRetryStep ==
    ASSUME IInv, NEW header \in Headers, PushRetry(header)
    PROVE  IInv'
<1> DEFINE hint == ParseRetryAfter(header)
<1>0. /\ backoff.initial \in 1..MaxDuration /\ backoff.max \in 1..MaxDuration
      /\ backoff.current \in Durations /\ backoff.initial <= backoff.max /\ backoff \in Backoffs
      /\ waiter = "push" /\ waiter' = "push" /\ started /\ started' = started
  BY DEF IInv, TypeOK, Backoffs, BackoffInBounds, PushRetry
<1>1. backoff' = [initial |-> backoff.initial, max |-> backoff.max, current |-> PushDouble(backoff)]
  BY <1>0 DEF PushRetry, Backoffs
<1>2. /\ PushDouble(backoff) \in Durations
      /\ InBounds(backoff) /\ 2 * backoff.max <= MaxDuration
           => /\ PushDouble(backoff) \in backoff.initial..backoff.max
              /\ PushDouble(backoff) = backoff.max \/ PushDouble(backoff) = 2 * backoff.current
  BY <1>0, PushDoubleInBounds
<1>3. /\ backoff'.initial = backoff.initial /\ backoff'.max = backoff.max
      /\ backoff'.current = PushDouble(backoff)
  BY <1>1
<1>4. MaxFits' = MaxFits /\ (MaxFits => 2 * backoff.max <= MaxDuration /\ InBounds(backoff))
  BY <1>0, <1>3 DEF MaxFits, IInv, BackoffInBounds, InBounds
<1>5. /\ asked' = Asked(header) /\ asked' \in Nat /\ hint \in Durations
      /\ asked' <= MaxDuration => hint = asked'
  BY HintOfHeader DEF PushRetry
<1>6. /\ waited' \in 0..backoff.max
      /\ hint > 0 /\ 6 * hint <= 5 * MaxDuration
           => waited' = backoff.max \/ 5 * waited' + 5 > 4 * hint
      /\ hint <= 0 /\ backoff.current > 0 /\ 6 * backoff.current <= 5 * MaxDuration
           => /\ waited' = backoff.max \/ 5 * waited' + 5 > 4 * backoff.current
              /\ 5 * waited' <= 6 * backoff.current
  <2>1. waited' \in PushWaits(backoff.current, hint, backoff.max) BY DEF PushRetry
  <2> HIDE DEF hint
  <2> QED BY <1>0, <1>5, <2>1, PushWaitsBounds
<1>7. TypeOK'
  <2>1. backoff' \in Backoffs BY <1>0, <1>1, <1>2 DEF Backoffs
  <2>2. waited' \in 0..MaxDuration BY <1>0, <1>6, TimingAssumption
  <2> QED BY <1>0, <1>5, <2>1, <2>2 DEF IInv, TypeOK
<1>8. FreshUntilStarted' BY <1>0 DEF FreshUntilStarted
<1>9. BackoffInBounds' BY <1>0, <1>2, <1>3, <1>4 DEF BackoffInBounds
<1> HIDE DEF hint
<1>10. Sustained'
  <2> SUFFICES ASSUME MaxFits, asked' = 0 PROVE waited' <= backoff'.current
    BY <1>0, <1>4 DEF Sustained
  <2>1. hint = 0 BY <1>5, TimingAssumption
  <2>2. 2 * backoff.max <= MaxDuration /\ backoff.current \in backoff.initial..backoff.max
    BY <1>4 DEF InBounds
  <2>3. 5 * waited' <= 6 * backoff.current /\ waited' <= backoff.max
    BY <1>0, <1>6, <2>1, <2>2, TimingAssumption DEF Durations
  <2> QED BY <1>0, <1>2, <1>3, <1>4, <1>6, <2>2, <2>3, TimingAssumption DEF Durations
<1>11. WaitWithinCeiling' BY <1>0, <1>3, <1>6 DEF WaitWithinCeiling
<1>12. NeverSpins'
  <2> SUFFICES ASSUME MaxFits, backoff.initial > 1, 6 * asked' <= 5 * MaxDuration, asked' # 1
               PROVE  waited' # 0
    BY <1>0, <1>3, <1>4 DEF NeverSpins, HintFits
  <2>1. hint = asked' BY <1>5, TimingAssumption
  <2>2. 2 * backoff.max <= MaxDuration /\ backoff.current \in backoff.initial..backoff.max
    BY <1>4 DEF InBounds
  <2> QED BY <1>0, <1>5, <1>6, <2>1, <2>2, TimingAssumption DEF Durations
<1>13. HintHonoured'
  <2> SUFFICES ASSUME asked' > 0, 6 * asked' <= 5 * MaxDuration
               PROVE  waited' = backoff.max \/ 5 * waited' + 5 > 4 * asked'
    BY <1>0, <1>3 DEF HintHonoured, HintFits
  <2>1. hint = asked' BY <1>5, TimingAssumption
  <2> QED BY <1>6, <2>1
<1> QED BY <1>7, <1>8, <1>9, <1>10, <1>11, <1>12, <1>13 DEF IInv

\* A failure in the poller.
LEMMA PollFailsStep ==
    ASSUME IInv, NEW header \in Headers, PollFails(header)
    PROVE  IInv'
<1> DEFINE hint == ParseRetryAfter(header)
<1>0. /\ backoff.initial \in 1..MaxDuration /\ backoff.max \in 1..MaxDuration
      /\ backoff.current \in Durations /\ backoff.initial <= backoff.max /\ backoff \in Backoffs
      /\ waiter = "poller" /\ waiter' = "poller" /\ started /\ started' = started
      /\ InBounds(backoff) /\ backoff.current >= backoff.initial /\ backoff.current <= backoff.max
  BY TimingAssumption DEF IInv, TypeOK, Backoffs, BackoffInBounds, PollFails, InBounds, Durations
<1>1. PICK next \in backoff.initial..backoff.max :
        /\ backoff' = [initial |-> backoff.initial, max |-> backoff.max, current |-> next]
        /\ next >= backoff.current
  <2>1. CASE hint <= 0
    <3>1. backoff' = [initial |-> backoff.initial, max |-> backoff.max, current |-> NextBackoff(backoff)]
      BY <1>0, <2>1 DEF PollFails, Backoffs
    <3> QED BY <1>0, <3>1, NextBackoffInBounds
  <2>2. CASE ~ (hint <= 0)
    <3>1. backoff' = [initial |-> backoff.initial, max |-> backoff.max, current |-> backoff.current]
      BY <1>0, <2>2 DEF PollFails, Backoffs
    <3> QED BY <1>0, <3>1, TimingAssumption DEF InBounds, Durations
  <2> QED BY <2>1, <2>2
<1>2. /\ backoff'.initial = backoff.initial /\ backoff'.max = backoff.max
      /\ backoff'.current = next
  BY <1>1
<1>3. MaxFits' = MaxFits /\ (MaxFits => 6 * backoff.max <= 5 * MaxDuration)
  BY <1>0, <1>2 DEF MaxFits
<1>4. /\ asked' = Asked(header) /\ asked' \in Nat /\ hint \in Durations
      /\ asked' <= MaxDuration => hint = asked'
  BY HintOfHeader DEF PollFails
<1>5. /\ waited' \in 0..MaxDuration
      /\ hint > 0 => waited' = hint
      /\ hint <= 0 => 5 * waited' <= 6 * backoff.max
      /\ hint <= 0 /\ 6 * backoff.current <= 5 * MaxDuration
           => 5 * waited' <= 6 * backoff.current /\ 5 * waited' + 5 > 4 * backoff.current
  <2>1. waited' \in PollWaits(hint, backoff) BY DEF PollFails
  <2> HIDE DEF hint
  <2> QED BY <1>0, <1>4, <2>1, PollWaitsBounds
<1>6. TypeOK'
  <2>1. next \in Durations BY <1>0, <1>1, TimingAssumption DEF Durations
  <2>2. backoff' \in Backoffs BY <1>0, <1>1, <2>1 DEF Backoffs
  <2> QED BY <1>0, <1>4, <1>5, <2>2 DEF IInv, TypeOK
<1>7. FreshUntilStarted' BY <1>0 DEF FreshUntilStarted
<1>8. BackoffInBounds' BY <1>0, <1>1, <1>2 DEF BackoffInBounds
<1> HIDE DEF hint
<1>9. Sustained'
  <2> SUFFICES ASSUME MaxFits, asked' = 0 PROVE 5 * waited' <= 6 * next
    BY <1>0, <1>2, <1>3 DEF Sustained
  <2>1. hint = 0 BY <1>4, TimingAssumption
  <2>2. 6 * backoff.current <= 5 * MaxDuration
    BY <1>0, <1>3, TimingAssumption DEF Durations
  <2>3. 5 * waited' <= 6 * backoff.current BY <1>5, <2>1, <2>2
  <2>4. next \in Int /\ next >= backoff.current BY <1>0, <1>1
  <2>5. backoff.current \in Int /\ waited' \in Int
    BY <1>0, <1>5, TimingAssumption DEF Durations
  <2> QED BY <2>3, <2>4, <2>5, LongerExplains
<1>10. WaitWithinCeiling'
  <2> SUFFICES ASSUME asked' = 0 PROVE 5 * waited' <= 6 * backoff.max
    BY <1>0, <1>2 DEF WaitWithinCeiling
  <2>1. hint = 0 BY <1>4, TimingAssumption
  <2> QED BY <1>5, <2>1
<1>11. NeverSpins'
  <2> SUFFICES ASSUME MaxFits, backoff.initial > 1 PROVE waited' # 0
    BY <1>0, <1>2, <1>3 DEF NeverSpins
  <2> QED BY <1>0, <1>3, <1>4, <1>5, TimingAssumption DEF Durations
<1>12. HintHonoured'
  <2> SUFFICES ASSUME asked' > 0, 6 * asked' <= 5 * MaxDuration PROVE waited' = asked'
    BY <1>0 DEF HintHonoured, HintFits
  <2>1. hint = asked' BY <1>4, TimingAssumption
  <2> QED BY <1>5, <2>1
<1> QED BY <1>6, <1>7, <1>8, <1>9, <1>10, <1>11, <1>12 DEF IInv

\* Every option, failure and success keeps the invariant.
LEMMA NextIInv == IInv /\ [Next]_vars => IInv'
<1> SUFFICES ASSUME IInv, [Next]_vars PROVE IInv' OBVIOUS
<1>1. ASSUME NEW header \in Headers, PushRetry(header) \/ PollFails(header) PROVE IInv'
  BY <1>1, PushRetryStep, PollFailsStep
<1>2. CASE UNCHANGED vars
  BY <1>2 DEF vars, IInv, TypeOK, FreshUntilStarted, Sustained, BackoffInBounds, MaxFits,
              WaitWithinCeiling, NeverSpins, HintHonoured, HintFits
<1> QED BY <1>1, <1>2, QuietSteps DEF Next

-----------------------------------------------------------------------------
(* Theorems *)

\* The invariant holds in every behaviour of driver and poller.
THEOREM IInvIsInvariant == Spec => []IInv
<1> QED BY InitIInv, NextIInv, PTL DEF Spec

\* TypeOK: no sleep is negative, whatever wrapped (pushdriver.go:412).
THEOREM RetryTypeOK == Spec => []TypeOK
<1>1. IInv => TypeOK BY DEF IInv
<1> QED BY <1>1, IInvIsInvariant, PTL

\* BackoffInBounds: options in any order, failures without end
\* (pushdriver.go:136, 279, poller.go:614).
THEOREM BackoffStaysInBounds == Spec => []BackoffInBounds
<1>1. IInv => BackoffInBounds BY DEF IInv
<1> QED BY <1>1, IInvIsInvariant, PTL

\* WaitWithinCeiling: no Retry-After makes the driver sleep past its maximum
\* (pushdriver.go:270).
THEOREM WaitsEnd == Spec => []WaitWithinCeiling
<1>1. IInv => WaitWithinCeiling BY DEF IInv
<1> QED BY <1>1, IInvIsInvariant, PTL

\* NeverSpins: a step that failed is not repeated at once (poller.go:332,
\* pushdriver.go:270).
THEOREM NobodySpins == Spec => []NeverSpins
<1>1. IInv => NeverSpins BY DEF IInv
<1> QED BY <1>1, IInvIsInvariant, PTL

\* HintHonoured: a Retry-After that fits is waited for (pushdriver.go:266,
\* poller.go:331).
THEOREM HintsAreHonoured == Spec => []HintHonoured
<1>1. IInv => HintHonoured BY DEF IInv
<1> QED BY <1>1, IInvIsInvariant, PTL

\* The step property WaitsKeepUp states.
KeepsUp ==
    MaxFits /\ asked = 0 /\ asked' = 0 /\ waited # NotYet /\ waited' # NotYet
      => IF waiter = "push" THEN waited' = backoff.max \/ 5 * waited' + 5 > 4 * waited
                            ELSE 3 * waited' + 3 > 2 * waited

\* WaitsKeepUp: the waits of a step that goes on failing do not shrink by more
\* than jitter (pushdriver.go:279, poller.go:614).
THEOREM WaitsDoNotShrink == Spec => WaitsKeepUp
<1>1. ASSUME IInv, [Next]_vars PROVE [KeepsUp]_vars
  <2> SUFFICES ASSUME MaxFits, asked = 0, asked' = 0, waited # NotYet, waited' # NotYet,
                      ~ UNCHANGED vars
               PROVE  IF waiter = "push"
                      THEN waited' = backoff.max \/ 5 * waited' + 5 > 4 * waited
                      ELSE 3 * waited' + 3 > 2 * waited
    BY DEF KeepsUp
  <2>1. started BY <1>1 DEF IInv, FreshUntilStarted
  <2>2. PICK header \in Headers : PushRetry(header) \/ PollFails(header)
    BY <1>1, <2>1 DEF Next, WithBackoff, WithErrorBackoff, Start, Deliver, PollSucceeds
  <2> DEFINE hint == ParseRetryAfter(header)
  <2>3. asked' = Asked(header) /\ hint \in Durations
    BY <2>2, HintOfHeader DEF PushRetry, PollFails
  <2>4. hint = 0 BY <2>3, HintOfHeader, TimingAssumption
  <2>5. /\ backoff \in Backoffs /\ backoff.initial \in 1..MaxDuration
        /\ backoff.max \in 1..MaxDuration /\ backoff.current \in Durations
        /\ InBounds(backoff) /\ backoff.current >= backoff.initial
        /\ backoff.current <= backoff.max /\ waited \in 0..MaxDuration
    BY <1>1, TimingAssumption
    DEF IInv, TypeOK, Backoffs, BackoffInBounds, InBounds, Durations, MaxFits
  <2> HIDE DEF hint
  <2>6. CASE waiter = "push"
    <3>1. waited' \in PushWaits(backoff.current, hint, backoff.max)
      BY <2>2, <2>6 DEF PushRetry, PollFails, hint
    <3>2. 2 * backoff.max <= MaxDuration /\ waited <= backoff.current
      BY <1>1, <2>6 DEF MaxFits, IInv, Sustained
    <3>3. backoff.current > 0 /\ 6 * backoff.current <= 5 * MaxDuration
      BY <2>5, <3>2, TimingAssumption DEF Durations
    <3>4. /\ waited' \in 0..backoff.max
          /\ hint <= 0 /\ backoff.current > 0 /\ 6 * backoff.current <= 5 * MaxDuration
               => /\ waited' = backoff.max \/ 5 * waited' + 5 > 4 * backoff.current
                  /\ 5 * waited' <= 6 * backoff.current
      BY <2>3, <2>5, <3>1, PushWaitsBounds
    <3>5. waited' = backoff.max \/ 5 * waited' + 5 > 4 * backoff.current
      BY <2>4, <3>3, <3>4
    <3>6. backoff.current \in Int /\ waited' \in Int /\ waited \in Int
      BY <2>5, <3>4, TimingAssumption DEF Durations
    <3> QED BY <2>6, <3>2, <3>5, <3>6, PushKeepsUp
  <2>7. CASE waiter # "push"
    <3>1. waited' \in PollWaits(hint, backoff)
      BY <2>2, <2>7 DEF PushRetry, PollFails, hint
    <3>2. 6 * backoff.max <= 5 * MaxDuration /\ 5 * waited <= 6 * backoff.current
      BY <1>1, <2>7 DEF MaxFits, IInv, Sustained
    <3>3. 6 * backoff.current <= 5 * MaxDuration
      BY <2>5, <3>2, TimingAssumption DEF Durations
    <3>4. waited' \in 0..MaxDuration /\ 5 * waited' + 5 > 4 * backoff.current
      BY <2>3, <2>4, <2>5, <3>1, <3>3, PollWaitsBounds
    <3>5. 3 * waited' + 3 > 2 * waited
      <4>1. backoff.current \in Int /\ waited' \in Int /\ waited \in Int
        BY <2>5, <3>4, TimingAssumption DEF Durations
      <4> QED BY <3>2, <3>4, <4>1, PollKeepsUp
    <3> QED BY <2>7, <3>5
  <2> QED BY <2>6, <2>7
<1> QED BY <1>1, IInvIsInvariant, PTL DEF Spec, WaitsKeepUp, KeepsUp
=============================================================================
