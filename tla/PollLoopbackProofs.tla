------------------------- MODULE PollLoopbackProofs -------------------------
(***************************************************************************)
(* Proofs about PollLoopback for every set of JTIs, every parallelism, cap *)
(* and bound, and every combination of outcomes and faults.                *)
(***************************************************************************)
EXTENDS PollLoopback, TLAPS

-----------------------------------------------------------------------------
(* What the operators of the model return.                                 *)

\* Overlay of two setErrs maps is a setErrs map.
LEMMA OverlayType ==
    ASSUME NEW old \in Reports, NEW new \in Reports
    PROVE  Overlay(old, new) \in Reports
BY DEF Overlay, Reports, Codes

\* The empty setErrs map is one.
LEMMA NoErrsType == NoErrs \in Reports
BY DEF NoErrs, Reports, Codes

\* Appending to the queue adds the SET to its elements.
LEMMA ElementsOfAppend ==
    ASSUME NEW seq \in Seq(JTI), NEW j \in JTI
    PROVE  /\ Append(seq, j) \in Seq(JTI)
           /\ Elements(Append(seq, j)) = Elements(seq) \cup {j}
<1>1. /\ Append(seq, j) \in Seq(JTI)
      /\ Len(Append(seq, j)) = Len(seq) + 1
      /\ Append(seq, j)[Len(seq) + 1] = j
      /\ \A i \in 1..Len(seq) : Append(seq, j)[i] = seq[i]
  OBVIOUS
<1>2. Len(seq) \in Nat
  OBVIOUS
<1>3. 1..(Len(seq) + 1) = 1..Len(seq) \cup {Len(seq) + 1}
  BY <1>2
<1> QED
  BY <1>1, <1>3 DEF Elements

\* PollEvents splits the queue: what it returns and what it leaves are the
\* queue, and the rest is a queue.
LEMMA DrainSplits ==
    ASSUME pending \in Seq(JTI)
    PROVE  /\ Undrained \in Seq(JTI)
           /\ Batch \subseteq JTI
           /\ Elements(pending) = Batch \cup Elements(Undrained)
<1> DEFINE n == Len(pending)
<1>1. /\ n \in Nat
      /\ BatchSize \in 0..n
  BY MaxEventsAssumption DEF BatchSize
<1>2. /\ Undrained \in Seq(JTI)
      /\ Len(Undrained) = n - BatchSize
      /\ \A i \in 1..(n - BatchSize) : Undrained[i] = pending[BatchSize + i]
  BY <1>1 DEF Undrained
<1>3. Batch \subseteq Elements(pending) /\ Elements(pending) \subseteq JTI
  BY <1>1 DEF Batch, Elements
<1>4. Elements(Undrained) \subseteq Elements(pending)
  BY <1>1, <1>2 DEF Elements
<1>5. Elements(pending) \subseteq Batch \cup Elements(Undrained)
  <2> SUFFICES ASSUME NEW i \in 1..n, i \notin 1..BatchSize
               PROVE  pending[i] \in Elements(Undrained)
    BY DEF Elements, Batch
  <2>1. /\ i - BatchSize \in 1..(n - BatchSize)
        /\ BatchSize + (i - BatchSize) = i
    BY <1>1
  <2> QED
    BY <1>2, <2>1 DEF Elements
<1> QED
  BY <1>2, <1>3, <1>4, <1>5

-----------------------------------------------------------------------------
(* Type correctness.                                                       *)

\* A response that is not a batch is a reply.
LEMMA FailureType ==
    ASSUME NEW status \in {"none", "error", "retry_after"}
    PROVE  Failure(status) \in Replies
BY DEF Failure, Replies

\* What becomes of a request on its way keeps what it carries.
LEMMA RequestUpdates ==
    ASSUME NEW r \in Requests
    PROVE  /\ Orphaned(r) \in Requests /\ Checked(r) \in Requests
           /\ Orphaned(r).ack = r.ack /\ Orphaned(r).errs = r.errs
           /\ Checked(r).ack = r.ack /\ Checked(r).errs = r.errs
           /\ ~Orphaned(r).live /\ Checked(r).live = r.live
BY DEF Orphaned, Checked, Requests

\* The levels of a backoff stay within its range.
LEMMA NextLevelType ==
    ASSUME NEW level \in 0..MaxLevel
    PROVE  NextLevel(level) \in 0..MaxLevel
BY PollerAssumption DEF NextLevel

\* The initial states are well typed.
LEMMA TypeInit == Init => TypeOK
<1> SUFFICES ASSUME Init PROVE TypeOK
  OBVIOUS
<1>1. PollerTypeOK
  <2>1. NoReply \in Replies
    BY FailureType DEF NoReply
  <2>2. answers \in [JTI -> SUBSET Answers]
    BY DEF Init, PollerInit
  <2>3. 0 \in 0..MaxLevel /\ 1 \in 1..MaxRuns
    BY PollerAssumption
  <2> QED
    BY <2>1, <2>2, <2>3, NoErrsType DEF Init, PollerInit, PollerTypeOK
<1>2. TransmitterTypeOK
  <2>1. <<>> \in Seq(JTI)
    OBVIOUS
  <2> QED
    BY <2>1, NoErrsType DEF Init, TransmitterInit, TransmitterTypeOK
<1> QED
  BY <1>1, <1>2 DEF TypeOK

\* Every step of the Poller keeps its variables well typed.
LEMMA PollerStepType ==
    ASSUME PollerTypeOK, PollerStep
    PROVE  PollerTypeOK'
<1> USE DEF PollerTypeOK, pollerVars, runVars, batchVars, backoffVars, netVars
<1>1. CASE StartPoll
  <2>1. BuildRequest \in Requests
    BY DEF BuildRequest, Requests
  <2> QED
    BY <1>1, <2>1 DEF StartPoll
<1>2. CASE StopAtTop
  BY <1>2, NoErrsType DEF StopAtTop, Return
<1>3. CASE ReceiveFailure
  <2>1. NoReply \in Replies
    BY FailureType DEF NoReply
  <2> QED
    BY <1>3, <2>1, NoErrsType, NextLevelType
    DEF ReceiveFailure, PollFailed, Return
<1>4. CASE ReceiveBatch
  <2>1. NoReply \in Replies
    BY FailureType DEF NoReply
  <2>2. reply.sets \subseteq JTI /\ Cadence(reply) \in {"more", "empty", "busy"}
    BY DEF Replies, Cadence
  <2> QED
    BY <1>4, <2>1, <2>2 DEF ReceiveBatch
<1>5. ASSUME NEW j \in JTI, Take(j) PROVE PollerTypeOK'
  BY <1>5 DEF Take
<1>6. ASSUME NEW j \in JTI, NEW answer \in Outcomes, Complete(j, answer)
      PROVE  PollerTypeOK'
  <2>1. Code(answer) \in Codes /\ answer \in Answers
    BY PollerAssumption DEF Code, Codes
  <2>2. errs' \in Reports
    BY <1>6, <2>1 DEF Complete, Reports
  <2>3. answers' \in [JTI -> SUBSET Answers]
    BY <1>6, <2>1 DEF Complete
  <2>4. ack' \subseteq JTI /\ busy' \subseteq JTI
    BY <1>6 DEF Complete
  <2> QED
    BY <1>6, <2>2, <2>3, <2>4 DEF Complete
<1>7. CASE FinishBatch
  BY <1>7, NoErrsType, NextLevelType, PollerAssumption DEF FinishBatch
<1>8. CASE Wake
  BY <1>8 DEF Wake
<1>9. CASE StopInSleep
  BY <1>9, NoErrsType DEF StopInSleep, Return
<1> QED
  BY <1>1, <1>2, <1>3, <1>4, <1>5, <1>6, <1>7, <1>8, <1>9 DEF PollerStep

\* So does every step imposed on it.
LEMMA PollerEnvStepType ==
    ASSUME PollerTypeOK, PollerEnvStep
    PROVE  PollerTypeOK'
<1> USE DEF PollerTypeOK, pollerVars, runVars, batchVars, backoffVars, netVars
<1>1. CASE TransportError
  <2>1. NoReply \in Replies
    BY FailureType DEF NoReply
  <2>2. requests' \subseteq Requests
    BY <1>1, RequestUpdates DEF TransportError, Orphans
  <2> QED
    BY <1>1, <2>1, <2>2, NoErrsType, NextLevelType
    DEF TransportError, PollFailed, Return
<1>2. CASE Cancel
  BY <1>2 DEF Cancel
<1>3. CASE RunAgain
  <2>1. runs' \in 1..MaxRuns
    BY <1>3, PollerAssumption DEF RunAgain
  <2> QED
    BY <1>3, <2>1 DEF RunAgain
<1> QED
  BY <1>1, <1>2, <1>3 DEF PollerEnvStep

\* Looking the stream up or refusing the request keeps the exchange well typed.
LEMMA ExchangeType ==
    ASSUME PollerTypeOK, NEW r \in requests,
           \/ LookUpStream(r)
           \/ \E status \in {"error", "retry_after"} : Refuse(r, status)
    PROVE  PollerTypeOK' /\ UNCHANGED transmitterVars
<1> USE DEF PollerTypeOK, runVars, batchVars, backoffVars
<1>1. r \in Requests
  OBVIOUS
<1>2. CASE LookUpStream(r)
  BY <1>1, <1>2, RequestUpdates, FailureType DEF LookUpStream, Respond
<1>3. ASSUME NEW status \in {"error", "retry_after"}, Refuse(r, status)
      PROVE  PollerTypeOK' /\ UNCHANGED transmitterVars
  BY <1>3, FailureType DEF Refuse, Respond
<1> QED
  BY <1>2, <1>3

\* Serving a poll keeps both sides well typed.
LEMMA PollEventsType ==
    ASSUME TypeOK, NEW r \in requests, PollEvents(r)
    PROVE  TypeOK'
<1> USE DEF TypeOK
<1>1. r \in Requests /\ r.ack \subseteq JTI /\ r.errs \in Reports
  BY DEF PollerTypeOK, Requests
<1>2. Undrained \in Seq(JTI) /\ Batch \subseteq JTI
  BY DrainSplits DEF TransmitterTypeOK
<1>3. BatchReply \in Replies
  BY <1>2 DEF BatchReply, Replies
<1>4. PollerTypeOK'
  BY <1>3 DEF PollEvents, Respond, PollerTypeOK, runVars, batchVars, backoffVars
<1>5. TransmitterTypeOK'
  BY <1>1, <1>2, OverlayType DEF PollEvents, Drain, TransmitterTypeOK
<1> QED
  BY <1>4, <1>5

\* Enqueuing, deleting and creating keep the Transmitter well typed.
LEMMA StreamStepType ==
    ASSUME TransmitterTypeOK, ProducerStep \/ Lifecycle
    PROVE  TransmitterTypeOK'
<1> USE DEF TransmitterTypeOK
<1>1. ASSUME NEW j \in JTI, EnqueueInStore(j) PROVE TransmitterTypeOK'
  BY <1>1 DEF EnqueueInStore
<1>2. ASSUME NEW j \in JTI, AppendPending(j) PROVE TransmitterTypeOK'
  <2>1. Append(pending, j) \in Seq(JTI)
    OBVIOUS
  <2> QED
    BY <1>2, <2>1 DEF AppendPending
<1>3. CASE ClearHarness
  <2>1. <<>> \in Seq(JTI)
    OBVIOUS
  <2> QED
    BY <1>3, <2>1, NoErrsType DEF ClearHarness
<1>4. CASE DeleteStream
  BY <1>4 DEF DeleteStream
<1>5. CASE CreateStream
  BY <1>5 DEF CreateStream
<1> QED
  BY <1>1, <1>2, <1>3, <1>4, <1>5 DEF ProducerStep, Lifecycle

\* Every step of the loopback keeps TypeOK.
LEMMA TypeStep == TypeOK /\ [Next]_vars => TypeOK'
<1> SUFFICES ASSUME TypeOK, [Next]_vars PROVE TypeOK'
  OBVIOUS
<1> USE DEF TypeOK
<1>1. UNCHANGED transmitterVars /\ TransmitterTypeOK => TransmitterTypeOK'
  BY DEF transmitterVars, TransmitterTypeOK
<1>2. UNCHANGED pollerVars /\ PollerTypeOK => PollerTypeOK'
  BY DEF pollerVars, runVars, batchVars, backoffVars, netVars, PollerTypeOK
<1>3. CASE PollerStep /\ UNCHANGED transmitterVars
  BY <1>1, <1>3, PollerStepType
<1>4. CASE PollerEnvStep /\ UNCHANGED transmitterVars
  BY <1>1, <1>4, PollerEnvStepType
<1>5. CASE ServerStep
  BY <1>1, <1>5, ExchangeType, PollEventsType DEF ServerStep
<1>6. CASE NetworkStep
  <2>1. CASE Spoil
    <3>1. PollerTypeOK' /\ UNCHANGED transmitterVars
      BY <2>1, FailureType
      DEF Spoil, PollerTypeOK, runVars, batchVars, backoffVars
    <3> QED
      BY <1>1, <3>1
  <2> QED
    BY <1>1, <1>6, <2>1, ExchangeType DEF NetworkStep
<1>7. CASE (ProducerStep \/ Lifecycle) /\ UNCHANGED pollerVars
  BY <1>2, <1>7, StreamStepType
<1>8. CASE UNCHANGED vars
  BY <1>1, <1>2, <1>8 DEF vars
<1> QED
  BY <1>3, <1>4, <1>5, <1>6, <1>7, <1>8 DEF Next

\* The variables of the loopback keep their types in every behaviour.
THEOREM TypeCorrect == Spec => []TypeOK
<1> QED
  BY TypeInit, TypeStep, PTL DEF Spec

-----------------------------------------------------------------------------
(* The bookkeeping of acknowledgements is inductive.                       *)

\* It holds at the start: nothing is offered.
LEMMA BookkeepingInit == Init => Bookkeeping
<1> SUFFICES ASSUME Init PROVE Bookkeeping
  OBVIOUS
<1>1. TypeOK
  BY TypeInit
<1>2. Held = {} /\ offered = {} /\ reply.sets = {}
  BY DEF Init, PollerInit, TransmitterInit, Held, Elements, NoReply, Failure
<1>3. AcksConsumed
  BY <1>2 DEF Init, PollerInit, AcksConsumed, SettledWasConsumed, Settled
<1>4. OnlyOffered
  BY <1>2 DEF Init, PollerInit, TransmitterInit, OnlyOffered
<1> QED
  BY <1>1, <1>3, <1>4 DEF Bookkeeping

\* While the Transmitter rests, the Poller may do what keeps its own
\* acknowledgements and SETs in order.
LEMMA PollerKeepsBookkeeping ==
    ASSUME Bookkeeping, PollerStep, UNCHANGED transmitterVars
    PROVE  AcksConsumed' /\ OnlyOffered'
<1> USE DEF Bookkeeping, AcksConsumed, OnlyOffered, runVars, batchVars,
            backoffVars, netVars, transmitterVars
<1>1. Held' = Held /\ Settled' = Settled
  BY DEF Held, Settled, Elements
<1>2. UNCHANGED answers => Consumed' = Consumed
  BY DEF Consumed
<1> USE DEF SettledWasConsumed
<1>3. CASE StartPoll
  <2>1. BuildRequest.ack = nextAck
    BY DEF BuildRequest
  <2> QED
    BY <1>1, <1>2, <1>3, <2>1 DEF StartPoll
<1>4. CASE StopAtTop
  BY <1>1, <1>2, <1>4 DEF StopAtTop, Return
<1>5. CASE ReceiveFailure
  <2>1. NoReply.sets = {}
    BY DEF NoReply, Failure
  <2> QED
    BY <1>1, <1>2, <1>5, <2>1 DEF ReceiveFailure, PollFailed, Return
<1>6. CASE ReceiveBatch
  <2>1. NoReply.sets = {}
    BY DEF NoReply, Failure
  <2> QED
    BY <1>1, <1>2, <1>6, <2>1 DEF ReceiveBatch
<1>7. ASSUME NEW j \in JTI, Take(j) PROVE AcksConsumed' /\ OnlyOffered'
  BY <1>1, <1>2, <1>7 DEF Take
<1>8. ASSUME NEW j \in JTI, NEW answer \in Outcomes, Complete(j, answer)
      PROVE  AcksConsumed' /\ OnlyOffered'
  <2>1. answers \in [JTI -> SUBSET Answers]
    BY DEF TypeOK, PollerTypeOK
  <2>2. Consumed \subseteq Consumed'
    BY <1>8, <2>1 DEF Complete, Consumed
  <2>3. Acks(answer) => j \in Consumed'
    BY <1>8, <2>1 DEF Complete, Consumed, Acks
  <2> QED
    BY <1>1, <1>8, <2>2, <2>3 DEF Complete
<1>9. CASE FinishBatch
  BY <1>1, <1>2, <1>9 DEF FinishBatch
<1>10. CASE Wake
  BY <1>1, <1>2, <1>10 DEF Wake
<1>11. CASE StopInSleep
  BY <1>1, <1>2, <1>11 DEF StopInSleep, Return
<1> QED
  BY <1>3, <1>4, <1>5, <1>6, <1>7, <1>8, <1>9, <1>10, <1>11 DEF PollerStep

\* Failing connections, cancellation and a new Run only forget.
LEMMA PollerEnvKeepsBookkeeping ==
    ASSUME Bookkeeping, PollerEnvStep, UNCHANGED transmitterVars
    PROVE  AcksConsumed' /\ OnlyOffered'
<1> USE DEF Bookkeeping, AcksConsumed, OnlyOffered, runVars, batchVars,
            backoffVars, netVars, transmitterVars
<1>1. Held' = Held /\ Settled' = Settled
  BY DEF Held, Settled, Elements
<1>2. UNCHANGED answers => Consumed' = Consumed
  BY DEF Consumed
<1> USE DEF SettledWasConsumed
<1>3. CASE TransportError
  <2>1. NoReply.sets = {}
    BY DEF NoReply, Failure
  <2>2. requests \subseteq Requests
    BY DEF TypeOK, PollerTypeOK
  <2>3. \A r \in requests' : \E q \in requests : r.ack = q.ack
    BY <1>3, <2>2, RequestUpdates DEF TransportError, Orphans
  <2>4. nextAck' \subseteq nextAck
    BY <1>3 DEF TransportError, PollFailed, Return
  <2> QED
    BY <1>1, <1>2, <1>3, <2>1, <2>3, <2>4 DEF TransportError
<1>4. CASE Cancel
  BY <1>1, <1>2, <1>4 DEF Cancel
<1>5. CASE RunAgain
  BY <1>1, <1>2, <1>5 DEF RunAgain
<1> QED
  BY <1>3, <1>4, <1>5 DEF PollerEnvStep

\* What a poll takes out of the Transmitter's hands is what it acknowledges.
LEMMA PollEventsReleases ==
    ASSUME Bookkeeping, NEW r \in requests, PollEvents(r)
    PROVE  /\ Held' \subseteq Held
           /\ Held \ Held' \subseteq r.ack
           /\ Batch \subseteq Held
<1>1. Elements(pending) = Batch \cup Elements(Undrained)
  BY DrainSplits DEF Bookkeeping, TypeOK, TransmitterTypeOK
<1>2. /\ Elements(pending)' = Elements(Undrained)
      /\ outstanding' = (outstanding \ r.ack) \cup Batch
  BY DEF PollEvents, Drain, Elements
<1> QED
  BY <1>1, <1>2 DEF Held

\* Serving a request keeps the bookkeeping.
LEMMA ServerKeepsBookkeeping ==
    ASSUME Bookkeeping, NEW r \in requests, LookUpStream(r) \/ PollEvents(r)
    PROVE  AcksConsumed' /\ OnlyOffered'
<1> USE DEF Bookkeeping
<1>1. r \in Requests
  BY DEF TypeOK, PollerTypeOK
<1>2. Consumed' = Consumed
  BY DEF LookUpStream, PollEvents, Consumed
<1>3. CASE LookUpStream(r)
  <2>1. Held' = Held /\ Settled' = Settled /\ UNCHANGED <<offered, enqueuing>>
    BY <1>3 DEF LookUpStream, transmitterVars, Held, Settled, Elements
  <2>2. \A q \in requests' : \E p \in requests : q.ack = p.ack
    BY <1>1, <1>3, RequestUpdates DEF LookUpStream, Respond
  <2>3. reply'.sets \subseteq offered
    BY <1>3 DEF LookUpStream, Respond, Failure, OnlyOffered
  <2>4. UNCHANGED <<nextAck, ack, entries, busy>>
    BY <1>3 DEF LookUpStream, runVars, batchVars
  <2>5. AcksConsumed'
    BY <1>2, <2>1, <2>2, <2>4 DEF AcksConsumed, SettledWasConsumed
  <2> QED
    BY <2>1, <2>3, <2>4, <2>5 DEF OnlyOffered
<1>4. CASE PollEvents(r)
  <2>1. /\ Held' \subseteq Held
        /\ Held \ Held' \subseteq r.ack
        /\ Batch \subseteq Held
    BY <1>4, PollEventsReleases
  <2>2. UNCHANGED <<offered, enqueuing, purged, nextAck, ack, entries, busy>>
    BY <1>4 DEF PollEvents, Drain, runVars, batchVars
  <2>3. reply'.sets \subseteq offered
    BY <1>4, <2>1 DEF PollEvents, Respond, BatchReply, OnlyOffered
  <2>4. Settled' \subseteq Settled \cup r.ack
    BY <2>1, <2>2 DEF Settled
  <2>5. requests' \subseteq requests
    BY <1>4 DEF PollEvents, Respond
  <2>6. AcksConsumed'
    BY <1>2, <2>2, <2>4, <2>5 DEF AcksConsumed, SettledWasConsumed
  <2> QED
    BY <2>1, <2>2, <2>3, <2>6 DEF OnlyOffered
<1> QED
  BY <1>3, <1>4

\* Refusing a request or spoiling a response acknowledges nothing.
LEMMA NetworkKeepsBookkeeping ==
    ASSUME Bookkeeping, NetworkStep
    PROVE  AcksConsumed' /\ OnlyOffered'
<1> USE DEF Bookkeeping
<1>1. /\ UNCHANGED <<nextAck, ack, entries, busy, answers, transmitterVars>>
      /\ requests' \subseteq requests
      /\ reply'.sets \subseteq reply.sets
  BY DEF NetworkStep, Refuse, Spoil, Respond, Failure, runVars, batchVars
<1>2. Held' = Held /\ Settled' = Settled /\ Consumed' = Consumed
  BY <1>1 DEF transmitterVars, Held, Settled, Elements, Consumed
<1> QED
  BY <1>1, <1>2
  DEF AcksConsumed, OnlyOffered, SettledWasConsumed, transmitterVars

\* Offering a SET makes it owed; deleting the stream settles nothing.
LEMMA StreamKeepsBookkeeping ==
    ASSUME Bookkeeping, ProducerStep \/ Lifecycle, UNCHANGED pollerVars
    PROVE  AcksConsumed' /\ OnlyOffered'
<1> USE DEF Bookkeeping
<1>1. /\ UNCHANGED <<nextAck, ack, requests, reply, entries, busy>>
      /\ Consumed' = Consumed
  BY DEF pollerVars, runVars, batchVars, netVars, Consumed
<1> DEFINE Goal == /\ Settled' \subseteq Settled
                   /\ Held' \subseteq offered'
                   /\ offered \subseteq offered'
                   /\ enqueuing' \cap offered' = {}
<1>2. SUFFICES Goal
  BY <1>1 DEF AcksConsumed, OnlyOffered, SettledWasConsumed
<1>3. Held \subseteq offered /\ enqueuing \cap offered = {}
  BY DEF OnlyOffered
<1>4. ASSUME UNCHANGED <<pending, outstanding>>
      PROVE  Held' = Held
  BY <1>4 DEF Held, Elements
<1>5. ASSUME NEW j \in JTI, EnqueueInStore(j)
      PROVE  Goal
  BY <1>3, <1>4, <1>5 DEF EnqueueInStore, Settled
<1>6. ASSUME NEW j \in JTI, AppendPending(j)
      PROVE  Goal
  <2>1. Elements(pending)' = Elements(pending) \cup {j}
    <3>1. Elements(pending)' = Elements(Append(pending, j))
      BY <1>6 DEF AppendPending, Elements
    <3> QED
      BY <3>1, ElementsOfAppend DEF TypeOK, TransmitterTypeOK
  <2>2. Held' = Held \cup {j}
    BY <1>6, <2>1 DEF AppendPending, Held
  <2> QED
    BY <1>3, <1>6, <2>2 DEF AppendPending, Settled
<1>7. CASE ClearHarness
  <2>1. Elements(pending)' = {}
    BY <1>7 DEF ClearHarness, Elements
  <2> QED
    BY <1>3, <1>7, <2>1 DEF ClearHarness, Held, Settled
<1>8. CASE DeleteStream \/ CreateStream
  BY <1>3, <1>4, <1>8 DEF DeleteStream, CreateStream, Settled
<1> QED
  BY <1>5, <1>6, <1>7, <1>8 DEF ProducerStep, Lifecycle

\* The bookkeeping is an invariant of the loopback.
LEMMA BookkeepingStep == Bookkeeping /\ [Next]_vars => Bookkeeping'
<1> SUFFICES ASSUME Bookkeeping, [Next]_vars PROVE Bookkeeping'
  OBVIOUS
<1>1. TypeOK'
  BY TypeStep DEF Bookkeeping
<1>2. CASE PollerStep /\ UNCHANGED transmitterVars
  BY <1>1, <1>2, PollerKeepsBookkeeping DEF Bookkeeping
<1>3. CASE PollerEnvStep /\ UNCHANGED transmitterVars
  BY <1>1, <1>3, PollerEnvKeepsBookkeeping DEF Bookkeeping
<1>4. CASE ServerStep
  BY <1>1, <1>4, ServerKeepsBookkeeping DEF Bookkeeping, ServerStep
<1>5. CASE NetworkStep
  BY <1>1, <1>5, NetworkKeepsBookkeeping DEF Bookkeeping
<1>6. CASE (ProducerStep \/ Lifecycle) /\ UNCHANGED pollerVars
  BY <1>1, <1>6, StreamKeepsBookkeeping DEF Bookkeeping
<1>7. CASE UNCHANGED vars
  <2>1. AcksConsumed' /\ OnlyOffered'
    BY <1>7
    DEF Bookkeeping, AcksConsumed, OnlyOffered, SettledWasConsumed, Settled,
        Held, Elements, Consumed, vars, pollerVars, runVars, batchVars,
        netVars, transmitterVars
  <2> QED
    BY <1>1, <2>1 DEF Bookkeeping
<1> QED
  BY <1>2, <1>3, <1>4, <1>5, <1>6, <1>7 DEF Next

\* Bookkeeping holds in every behaviour of the loopback.
LEMMA BookkeepingAlways == Spec => []Bookkeeping
<1> QED
  BY BookkeepingInit, BookkeepingStep, PTL DEF Spec

\* The Transmitter lets go of a SET by acknowledgement only after the Sink
\* has consumed it, whatever the network, the Sink and the callers do
\* (poller.go Run and deliverOne, interop.go PollEvents).
THEOREM SettledOnlyIfConsumed == Spec => []SettledWasConsumed
<1>1. Bookkeeping => SettledWasConsumed
  BY DEF Bookkeeping, AcksConsumed
<1> QED
  BY <1>1, BookkeepingAlways, PTL

-----------------------------------------------------------------------------
(* The loopback implements PollDelivery.                                   *)

\* At the start nothing is given, owed or consumed.
LEMMA DeliveryInit == Init => Delivery!Init
<1> SUFFICES ASSUME Init PROVE Delivery!Init
  OBVIOUS
<1>1. Held = {} /\ offered = {} /\ Consumed = {}
  BY DEF Init, PollerInit, TransmitterInit, Held, Elements, Consumed
<1> QED
  BY <1>1 DEF Delivery!Init

\* Every step of the loopback is a step of PollDelivery or leaves it alone.
LEMMA DeliveryStep ==
    Bookkeeping /\ [Next]_vars => [Delivery!Next]_(Delivery!vars)
<1> SUFFICES ASSUME Bookkeeping, [Next]_vars
             PROVE  Delivery!Next \/ UNCHANGED <<offered, Held, Consumed>>
  BY DEF Delivery!vars
<1> USE DEF Bookkeeping
<1>1. UNCHANGED transmitterVars => UNCHANGED <<offered, Held>>
  BY DEF transmitterVars, Held, Elements
<1>2. UNCHANGED answers => Consumed' = Consumed
  BY DEF Consumed
<1>3. CASE PollerStep /\ UNCHANGED transmitterVars
  <2>1. ASSUME NEW j \in JTI, NEW answer \in Outcomes, Complete(j, answer)
        PROVE  Delivery!Next \/ Consumed' = Consumed
    <3>1. answers \in [JTI -> SUBSET Answers]
      BY DEF TypeOK, PollerTypeOK
    <3>2. Consumed' = Consumed \/ Consumed' = Consumed \cup {j}
      BY <2>1, <3>1 DEF Complete, Consumed
    <3>3. j \in offered
      BY <2>1 DEF Complete, OnlyOffered
    <3>4. Consumed' = Consumed \cup {j} => Delivery!Consume(j)
      BY <1>1, <1>3, <3>3 DEF Delivery!Consume
    <3> QED
      BY <3>2, <3>4 DEF Delivery!Next
  <2>2. ASSUME ~ \E j \in JTI, answer \in Outcomes : Complete(j, answer)
        PROVE  UNCHANGED answers
    BY <1>3, <2>2
    DEF PollerStep, StartPoll, StopAtTop, ReceiveFailure, ReceiveBatch, Take,
        FinishBatch, Wake, StopInSleep
  <2> QED
    BY <1>1, <1>2, <1>3, <2>1, <2>2
<1>4. CASE PollerEnvStep /\ UNCHANGED transmitterVars
  BY <1>1, <1>2, <1>4 DEF PollerEnvStep, TransportError, Cancel, RunAgain
<1>5. CASE ServerStep
  <2>1. PICK r \in requests : LookUpStream(r) \/ PollEvents(r)
    BY <1>5 DEF ServerStep
  <2>2. CASE LookUpStream(r)
    BY <1>1, <1>2, <2>2 DEF LookUpStream
  <2>3. CASE PollEvents(r)
    <3> DEFINE settled == Held \ Held'
    <3>1. Held' \subseteq Held /\ settled \subseteq r.ack
      BY <2>3, PollEventsReleases
    <3>2. r.ack \subseteq Consumed
      BY DEF AcksConsumed
    <3>3. Consumed' = Consumed /\ offered' = offered
      BY <1>2, <2>3 DEF PollEvents, Drain
    <3>4. settled \in SUBSET JTI
      BY <3>1, <3>2 DEF Consumed
    <3>5. Delivery!Release(settled)
      BY <3>1, <3>2, <3>3 DEF Delivery!Release
    <3> QED
      BY <3>4, <3>5 DEF Delivery!Next
  <2> QED
    BY <2>1, <2>2, <2>3
<1>6. CASE NetworkStep
  BY <1>1, <1>2, <1>6 DEF NetworkStep, Refuse, Spoil
<1>7. CASE ProducerStep /\ UNCHANGED pollerVars
  <2>1. ASSUME NEW j \in JTI, EnqueueInStore(j)
        PROVE  UNCHANGED <<offered, Held>>
    BY <2>1 DEF EnqueueInStore, Held, Elements
  <2>2. ASSUME NEW j \in JTI, AppendPending(j)
        PROVE  Delivery!Next
    <3>1. Elements(pending)' = Elements(Append(pending, j))
      BY <2>2 DEF AppendPending, Elements
    <3>2. Held' = Held \cup {j}
      BY <2>2, <3>1, ElementsOfAppend
      DEF AppendPending, Held, TypeOK, TransmitterTypeOK
    <3>3. j \notin offered
      BY <2>2 DEF AppendPending, OnlyOffered
    <3>4. Consumed' = Consumed
      BY <1>2, <1>7 DEF pollerVars
    <3>5. Delivery!Offer(j)
      BY <2>2, <3>2, <3>3, <3>4 DEF AppendPending, Delivery!Offer
    <3> QED
      BY <3>5 DEF Delivery!Next
  <2> QED
    BY <1>2, <1>7, <2>1, <2>2 DEF ProducerStep, pollerVars
<1>8. CASE Lifecycle /\ UNCHANGED pollerVars
  <2>1. Consumed' = Consumed
    BY <1>2, <1>8 DEF pollerVars
  <2>2. CASE ClearHarness
    <3>1. Held' = {} /\ offered' = offered
      BY <2>2 DEF ClearHarness, Held, Elements
    <3> QED
      BY <2>1, <3>1 DEF Delivery!Purge, Delivery!Next
  <2>3. CASE DeleteStream \/ CreateStream
    BY <2>1, <2>3 DEF DeleteStream, CreateStream, Held, Elements
  <2> QED
    BY <1>8, <2>2, <2>3 DEF Lifecycle
<1>9. CASE UNCHANGED vars
  BY <1>1, <1>2, <1>9 DEF vars, pollerVars
<1> QED
  BY <1>3, <1>4, <1>5, <1>6, <1>7, <1>8, <1>9 DEF Next

\* The loopback keeps the promise of poll delivery: a SET is owed from the
\* moment it is offered until it has been consumed or the stream is deleted.
THEOREM LoopbackDelivers == Spec => DeliverySpec
<1> QED
  BY DeliveryInit, DeliveryStep, BookkeepingAlways, PTL
  DEF Spec, DeliverySpec, Delivery!Spec

-----------------------------------------------------------------------------
(* What the loopback does with a SET on its way: it is in one place at a  *)
(* time, it comes before the Sink once, and what the Sink says of it is    *)
(* not lost.  Parts of the inductive invariant.                            *)

\* No element twice.
Distinct(seq) == \A i, k \in 1..Len(seq) : seq[i] = seq[k] => i = k

\* A SET on its way to the Sink is in one place.
Places ==
    /\ Distinct(pending)
    /\ Elements(pending) \cap (outstanding \cup reply.sets \cup entries \cup busy) = {}
    /\ reply.sets \cap (entries \cup busy) = {}
    /\ entries \cap busy = {}

\* SETs the Sink has not been asked about yet.
Ahead == Elements(pending) \cup reply.sets \cup entries \cup busy \cup (JTI \ offered)

\* The Sink is asked once: who is still on the way has no answer.
Untouched == \A j \in Ahead : answers[j] = {}

\* The Poller waits for one answer to one request, built from nextAck.
Exchange ==
    /\ \A r \in requests : r.live => pc = "posting" /\ reply = NoReply /\ r.ack = nextAck
    /\ \A r, q \in requests : r.live /\ q.live => r = q
    /\ pc # "posting" => reply = NoReply

\* Between batches, and in an empty one, process has nothing in its hands.
BatchAtRest ==
    /\ pc # "processing" => cadence = "busy"
    /\ pc # "processing" \/ cadence = "empty" =>
          entries = {} /\ busy = {} /\ ack = {} /\ errs = NoErrs

\* A poll that was answered has delivered its acknowledgements.
AckArrived ==
    pc = "processing" \/ reply.status = "ok" => nextAck \cap outstanding = {}

\* Among the reports that go with acknowledgements are the failures.
Explained(acks, reports) ==
    \A j \in acks : "accept" \notin answers[j] => reports[j] # "none"

\* A failure travels beside its acknowledgement, in process, in Run and in
\* every request, an orphaned one too.
ReportsTravel ==
    /\ Explained(ack, errs)
    /\ Explained(nextAck, nextErrs)
    /\ \A r \in requests : Explained(r.ack, r.errs)

\* The inductive invariant behind the five invariants.
SInv ==
    /\ Places /\ Untouched /\ Exchange /\ BatchAtRest /\ AckArrived
    /\ ReportsTravel /\ DropIsReported /\ AckNotForgotten /\ IdleOwesNothing

-----------------------------------------------------------------------------
(* What the queue does *)

\* Draining a queue without repetitions parts the batch from the rest.
LEMMA DrainParts ==
    ASSUME pending \in Seq(JTI), Distinct(pending)
    PROVE  /\ Distinct(Undrained)
           /\ Batch \cap Elements(Undrained) = {}
<1> DEFINE n == Len(pending)
<1>1. n \in Nat /\ BatchSize \in 0..n
  BY MaxEventsAssumption DEF BatchSize
<1>2. /\ Len(Undrained) = n - BatchSize
      /\ \A i \in 1..(n - BatchSize) : Undrained[i] = pending[BatchSize + i]
  BY <1>1 DEF Undrained
<1>3. \A i \in 1..(n - BatchSize) : BatchSize + i \in 1..n /\ BatchSize + i \notin 1..BatchSize
  BY <1>1
<1>4. \A i \in 1..BatchSize : i \in 1..n
  BY <1>1
<1>5. Distinct(Undrained)
  <2> SUFFICES ASSUME NEW i \in 1..(n - BatchSize), NEW k \in 1..(n - BatchSize),
                      Undrained[i] = Undrained[k]
               PROVE  i = k
    BY <1>2 DEF Distinct
  <2>1. BatchSize + i = BatchSize + k BY <1>2, <1>3 DEF Distinct
  <2> QED BY <1>1, <2>1
<1>6. Batch \cap Elements(Undrained) = {}
  <2> SUFFICES ASSUME NEW i \in 1..BatchSize, NEW k \in 1..(n - BatchSize),
                      pending[i] = Undrained[k]
               PROVE  FALSE
    BY <1>2 DEF Batch, Elements
  <2>1. i = BatchSize + k BY <1>2, <1>3, <1>4 DEF Distinct
  <2> QED BY <1>3, <2>1
<1> QED BY <1>5, <1>6

\* Appending a SET that is not in the queue repeats none.
LEMMA AppendIsDistinct ==
    ASSUME pending \in Seq(JTI), Distinct(pending), NEW j \in JTI, j \notin Elements(pending)
    PROVE  Distinct(Append(pending, j))
<1> DEFINE n == Len(pending)
<1>1. /\ n \in Nat /\ Len(Append(pending, j)) = n + 1
      /\ Append(pending, j)[n + 1] = j
      /\ \A i \in 1..n : Append(pending, j)[i] = pending[i] /\ pending[i] # j
  BY DEF Elements
<1>2. \A i \in 1..(n + 1) : i \in 1..n \/ i = n + 1
  BY <1>1
<1> QED BY <1>1, <1>2 DEF Distinct

-----------------------------------------------------------------------------
(* Steps *)

\* It holds at the start.
LEMMA SInvInit == Init => SInv
<1> SUFFICES ASSUME Init PROVE SInv OBVIOUS
<1> USE DEF Init, PollerInit, TransmitterInit
<1>1. Elements(pending) = {} /\ Len(pending) = 0 /\ reply.sets = {} /\ reply.status = "none"
  BY DEF Elements, NoReply, Failure
<1>2. Places /\ Untouched BY <1>1 DEF Places, Distinct, Untouched, Ahead
<1>3. Exchange /\ BatchAtRest /\ AckArrived BY <1>1 DEF Exchange, BatchAtRest, AckArrived
<1>4. ReportsTravel BY DEF ReportsTravel, Explained
<1>5. DropIsReported /\ AckNotForgotten /\ IdleOwesNothing
  BY DEF DropIsReported, AckNotForgotten, IdleOwesNothing, Settled
<1> QED BY <1>2, <1>3, <1>4, <1>5 DEF SInv

\* While the Transmitter rests and the Sink is silent, SETs may only go on
\* from one place to the next.
LEMMA QuietStep ==
    ASSUME Bookkeeping, SInv, UNCHANGED transmitterVars, UNCHANGED answers,
           reply'.sets \cup entries' \cup busy' \subseteq reply.sets \cup entries \cup busy,
           reply'.sets \cap (entries' \cup busy') = {}, entries' \cap busy' = {}
    PROVE  /\ Places' /\ Untouched' /\ DropIsReported'
           /\ Consumed' = Consumed
           /\ \A acks, reports : Explained(acks, reports) = Explained(acks, reports)'
<1> USE DEF transmitterVars, SInv
<1>1. Elements(pending)' = Elements(pending) BY DEF Elements
<1>2. Places' BY <1>1 DEF Places, Distinct
<1>3. Untouched' BY <1>1 DEF Untouched, Ahead
<1>4. DropIsReported' BY <1>1 DEF DropIsReported, Settled, Held
<1> QED BY <1>2, <1>3, <1>4 DEF Consumed, Explained

\* A failed poll leaves nothing behind of its reply and request.
LEMMA FailedStep ==
    ASSUME Bookkeeping, SInv, UNCHANGED transmitterVars, UNCHANGED <<answers, batchVars, runs>>,
           pc = "posting", reply' = NoReply, NEW hinted \in BOOLEAN, PollFailed(hinted),
           \A r \in requests' : ~r.live /\ \E q \in requests : r.ack = q.ack /\ r.errs = q.errs
    PROVE  SInv'
<1> USE DEF batchVars
<1>1. reply'.sets = {} /\ reply'.status = "none"
  BY DEF NoReply, Failure
<1>2. /\ pc' \in {"returned", "backoff"}
      /\ \/ nextAck' = {} /\ nextErrs' = NoErrs /\ pc' = "returned"
         \/ nextAck' = nextAck /\ nextErrs' = nextErrs /\ pc' = "backoff"
  BY DEF PollFailed, Return
<1>3. /\ Places' /\ Untouched' /\ DropIsReported'
      /\ Consumed' = Consumed
      /\ \A acks, reports : Explained(acks, reports) = Explained(acks, reports)'
  <2>1. reply'.sets \cap (entries' \cup busy') = {} /\ entries' \cap busy' = {}
    BY <1>1 DEF SInv, Places
  <2> QED BY <1>1, <2>1, QuietStep
<1>4. Exchange' BY <1>2 DEF Exchange
<1>5. BatchAtRest' BY <1>2 DEF SInv, BatchAtRest
<1>6. AckArrived' BY <1>1, <1>2 DEF AckArrived
<1>7. ReportsTravel'
  <2>1. Explained(ack, errs)' BY <1>3 DEF SInv, ReportsTravel, Explained
  <2>2. Explained(nextAck, nextErrs)' BY <1>2, <1>3 DEF SInv, ReportsTravel, Explained
  <2>3. \A r \in requests' : Explained(r.ack, r.errs)' BY <1>3 DEF SInv, ReportsTravel, Explained
  <2> QED BY <2>1, <2>2, <2>3 DEF ReportsTravel, Explained
<1>8. AckNotForgotten'
  BY <1>2, <1>3 DEF SInv, AckNotForgotten, transmitterVars
<1>9. IdleOwesNothing' BY <1>2 DEF IdleOwesNothing
<1> QED BY <1>3, <1>4, <1>5, <1>6, <1>7, <1>8, <1>9 DEF SInv

\* A Run that stops, or wakes, forgets its own acknowledgements at most.
LEMMA RestStep ==
    ASSUME Bookkeeping, SInv, UNCHANGED transmitterVars, UNCHANGED <<answers, batchVars, netVars, runs>>,
           pc \in {"top", "backoff", "idle"}, pc' \in {"top", "returned"},
           \/ pc' = "returned" /\ nextAck' = {} /\ nextErrs' = NoErrs
           \/ UNCHANGED <<nextAck, nextErrs>>
    PROVE  SInv'
<1> USE DEF batchVars, netVars
<1>1. /\ Places' /\ Untouched' /\ DropIsReported'
      /\ Consumed' = Consumed
      /\ \A acks, reports : Explained(acks, reports) = Explained(acks, reports)'
  BY QuietStep DEF SInv, Places
<1>2. Exchange' BY DEF SInv, Exchange
<1>3. BatchAtRest' BY DEF SInv, BatchAtRest
<1>4. AckArrived'
  BY DEF SInv, AckArrived, Exchange, transmitterVars
<1>5. ReportsTravel' BY <1>1 DEF SInv, ReportsTravel, Explained
<1>6. AckNotForgotten' BY <1>1 DEF SInv, AckNotForgotten, transmitterVars
<1>7. IdleOwesNothing' BY DEF IdleOwesNothing
<1> QED BY <1>1, <1>2, <1>3, <1>4, <1>5, <1>6, <1>7 DEF SInv

\* A new request carries what Run collected, and is the only live one.
LEMMA StartPollStep ==
    ASSUME Bookkeeping, SInv, UNCHANGED transmitterVars, StartPoll
    PROVE  SInv'
<1> USE DEF StartPoll, batchVars
<1>1. /\ Places' /\ Untouched' /\ DropIsReported'
      /\ Consumed' = Consumed
      /\ \A acks, reports : Explained(acks, reports) = Explained(acks, reports)'
  BY QuietStep DEF SInv, Places
<1>2. /\ BuildRequest.ack = nextAck /\ BuildRequest.errs = nextErrs
      /\ requests' = requests \cup {BuildRequest}
      /\ \A r \in requests : ~r.live
  BY DEF BuildRequest, SInv, Exchange
<1>3. Exchange' BY <1>2 DEF SInv, Exchange
<1>4. BatchAtRest' BY DEF SInv, BatchAtRest
<1>5. AckArrived' BY DEF SInv, AckArrived, Exchange, NoReply, Failure
<1>6. ReportsTravel' BY <1>1, <1>2 DEF SInv, ReportsTravel, Explained
<1>7. AckNotForgotten' BY <1>1 DEF SInv, AckNotForgotten, transmitterVars
<1>8. IdleOwesNothing' BY DEF IdleOwesNothing
<1> QED BY <1>1, <1>3, <1>4, <1>5, <1>6, <1>7, <1>8 DEF SInv

\* The SETs of a reply become the entries of a batch.
LEMMA ReceiveBatchStep ==
    ASSUME Bookkeeping, SInv, UNCHANGED transmitterVars, ReceiveBatch
    PROVE  SInv'
<1> USE DEF ReceiveBatch
<1>1. reply'.sets = {} /\ reply'.status = "none"
  BY DEF NoReply, Failure
<1>2. entries = {} /\ busy = {} /\ ack = {} /\ errs = NoErrs
  BY DEF SInv, BatchAtRest
<1>3. /\ Places' /\ Untouched' /\ DropIsReported'
      /\ Consumed' = Consumed
      /\ \A acks, reports : Explained(acks, reports) = Explained(acks, reports)'
  BY <1>1, <1>2, QuietStep
<1>4. Exchange'
  <2>1. \A r \in requests : ~r.live BY DEF SInv, Exchange, NoReply, Failure
  <2> QED BY <2>1 DEF Exchange
<1>5. BatchAtRest' BY <1>2 DEF BatchAtRest, Cadence
<1>6. AckArrived' BY DEF SInv, AckArrived, transmitterVars
<1>7. ReportsTravel' BY <1>3 DEF SInv, ReportsTravel, Explained
<1>8. AckNotForgotten' BY <1>3 DEF SInv, AckNotForgotten, transmitterVars
<1>9. IdleOwesNothing' BY DEF IdleOwesNothing
<1> QED BY <1>3, <1>4, <1>5, <1>6, <1>7, <1>8, <1>9 DEF SInv

\* An entry moves to a worker.
LEMMA TakeStep ==
    ASSUME Bookkeeping, SInv, UNCHANGED transmitterVars, NEW j \in JTI, Take(j)
    PROVE  SInv'
<1> USE DEF Take, runVars, netVars
<1>1. /\ Places' /\ Untouched' /\ DropIsReported'
      /\ Consumed' = Consumed
      /\ \A acks, reports : Explained(acks, reports) = Explained(acks, reports)'
  BY QuietStep DEF SInv, Places
<1>2. Exchange' BY DEF SInv, Exchange
<1>3. BatchAtRest' BY DEF SInv, BatchAtRest
<1>4. AckArrived' BY DEF SInv, AckArrived, transmitterVars
<1>5. ReportsTravel' BY <1>1 DEF SInv, ReportsTravel, Explained
<1>6. AckNotForgotten' BY <1>1 DEF SInv, AckNotForgotten, transmitterVars
<1>7. IdleOwesNothing' BY DEF IdleOwesNothing
<1> QED BY <1>1, <1>2, <1>3, <1>4, <1>5, <1>6, <1>7 DEF SInv

\* deliverOne puts the SET into the acknowledgement if the Sink consumed it,
\* and into the reports if it did not accept it.
LEMMA CompleteStep ==
    ASSUME Bookkeeping, SInv, UNCHANGED transmitterVars,
           NEW j \in JTI, NEW answer \in Outcomes, Complete(j, answer)
    PROVE  SInv'
<1> USE DEF Complete, runVars, netVars
<1>1. /\ answers \in [JTI -> SUBSET Answers] /\ errs \in Reports
      /\ j \in offered
  BY DEF Bookkeeping, TypeOK, PollerTypeOK, OnlyOffered
<1>2. /\ Elements(pending)' = Elements(pending) /\ Settled' = Settled
      /\ Consumed \subseteq Consumed'
      /\ Consumed' \subseteq Consumed \cup {j}
      /\ answer \in {"accept", "permanent"} => j \in ack'
      /\ answer \notin {"accept", "permanent"} => Consumed' = Consumed
  BY <1>1 DEF transmitterVars, Elements, Settled, Held, Consumed, Acks
<1>3. /\ \A i \in JTI : answers[i] \subseteq answers'[i]
      /\ \A i \in JTI \ {j} : answers'[i] = answers[i]
      /\ answer \in answers'[j]
  BY <1>1
<1>4. Places' BY <1>2 DEF SInv, Places, Distinct, transmitterVars
<1>5. Untouched'
  <2>1. Ahead' \subseteq Ahead /\ j \notin Ahead'
    BY <1>1, <1>2 DEF SInv, Places, Ahead, transmitterVars
  <2>2. Ahead \subseteq JTI
    BY DEF Bookkeeping, TypeOK, PollerTypeOK, OnlyOffered, Ahead, Held, TransmitterTypeOK
  <2> QED BY <1>3, <2>1, <2>2 DEF SInv, Untouched
<1>6. Exchange' BY DEF SInv, Exchange
<1>7. BatchAtRest' BY DEF SInv, BatchAtRest
<1>8. AckArrived' BY DEF SInv, AckArrived, transmitterVars
<1>9. ReportsTravel'
  <2>1. ack \subseteq JTI /\ nextAck \subseteq JTI /\ \A r \in requests : r.ack \subseteq JTI
    BY DEF Bookkeeping, TypeOK, PollerTypeOK, Requests
  <2>2. \A r \in requests : Explained(r.ack, r.errs)' BY <1>3, <2>1 DEF SInv, ReportsTravel, Explained
  <2>3. Explained(nextAck, nextErrs)' BY <1>3, <2>1 DEF SInv, ReportsTravel, Explained
  <2>4. errs'[j] = Code(answer) /\ \A i \in JTI \ {j} : errs'[i] = errs[i]
    BY <1>1 DEF Reports
  <2>5. answer # "accept" => Code(answer) # "none" BY DEF Code
  <2>6. Explained(ack, errs)'
    BY <1>3, <2>1, <2>4, <2>5 DEF SInv, ReportsTravel, Explained
  <2> QED BY <2>2, <2>3, <2>6 DEF ReportsTravel
<1>10. DropIsReported'
  <2>1. Settled \subseteq JTI
    BY DEF Settled, Bookkeeping, TypeOK, TransmitterTypeOK
  <2> QED BY <1>2, <1>3, <2>1 DEF SInv, DropIsReported, transmitterVars
<1>11. AckNotForgotten' BY <1>2 DEF SInv, AckNotForgotten, transmitterVars
<1>12. IdleOwesNothing' BY DEF SInv, IdleOwesNothing
<1> QED BY <1>4, <1>5, <1>6, <1>7, <1>8, <1>9, <1>10, <1>11, <1>12 DEF SInv

\* What process collected replaces an acknowledgement that has arrived.
LEMMA FinishBatchStep ==
    ASSUME Bookkeeping, SInv, UNCHANGED transmitterVars, FinishBatch
    PROVE  SInv'
<1> USE DEF FinishBatch, netVars
<1>1. /\ Places' /\ Untouched' /\ DropIsReported'
      /\ Consumed' = Consumed
      /\ \A acks, reports : Explained(acks, reports) = Explained(acks, reports)'
  BY QuietStep DEF SInv, Places
<1>2. pc' \in {"idle", "top"} /\ (pc' = "idle" => cadence = "empty")
  OBVIOUS
<1>3. Exchange' BY <1>2 DEF SInv, Exchange
<1>4. BatchAtRest' BY <1>2 DEF BatchAtRest
<1>5. AckArrived' BY <1>2 DEF SInv, AckArrived, Exchange, NoReply, Failure
<1>6. ReportsTravel' BY <1>1 DEF SInv, ReportsTravel, Explained
<1>7. AckNotForgotten'
  BY <1>1, <1>2 DEF SInv, AckNotForgotten, AckArrived, transmitterVars
<1>8. IdleOwesNothing' BY <1>2 DEF SInv, IdleOwesNothing, BatchAtRest
<1> QED BY <1>1, <1>3, <1>4, <1>5, <1>6, <1>7, <1>8 DEF SInv

\* The steps the Poller takes by itself.
LEMMA PollerKeepsSInv ==
    ASSUME Bookkeeping, SInv, PollerStep, UNCHANGED transmitterVars
    PROVE  SInv'
<1>1. CASE StopAtTop \/ Wake \/ StopInSleep
  BY <1>1, RestStep DEF StopAtTop, Wake, StopInSleep, Return
<1>2. CASE ReceiveFailure
  <2>1. \A r \in requests : ~r.live
    BY <1>2 DEF ReceiveFailure, SInv, Exchange, NoReply, Failure
  <2>2. (reply.status = "retry_after") \in BOOLEAN OBVIOUS
  <2> QED BY <1>2, <2>1, <2>2, FailedStep DEF ReceiveFailure
<1>3. ASSUME NEW j \in JTI, Take(j) PROVE SInv' BY <1>3, TakeStep
<1>4. ASSUME NEW j \in JTI, NEW answer \in Outcomes, Complete(j, answer) PROVE SInv'
  BY <1>4, CompleteStep
<1> QED
  BY <1>1, <1>2, <1>3, <1>4, StartPollStep, ReceiveBatchStep, FinishBatchStep DEF PollerStep

\* A broken connection, a cancellation, another Run.
LEMMA PollerEnvKeepsSInv ==
    ASSUME Bookkeeping, SInv, PollerEnvStep, UNCHANGED transmitterVars
    PROVE  SInv'
<1>1. CASE TransportError
  <2>1. \A r \in requests : r \in Requests BY DEF Bookkeeping, TypeOK, PollerTypeOK
  <2>2. \A r \in requests' : ~r.live /\ \E q \in requests : r.ack = q.ack /\ r.errs = q.errs
    BY <1>1, <2>1, RequestUpdates DEF TransportError, Orphans
  <2> QED BY <1>1, <2>2, FailedStep DEF TransportError
<1>2. CASE Cancel \/ RunAgain
  <2>1. /\ UNCHANGED <<answers, batchVars, netVars, nextAck, nextErrs>>
        /\ \/ pc' = pc /\ runs' = runs
           \/ pc = "returned" /\ pc' = "top" /\ runs' # 1
    BY <1>2 DEF Cancel, RunAgain, Bookkeeping, TypeOK, PollerTypeOK
  <2> USE DEF batchVars, netVars
  <2>2. /\ Places' /\ Untouched' /\ DropIsReported'
        /\ Consumed' = Consumed
        /\ \A acks, reports : Explained(acks, reports) = Explained(acks, reports)'
    BY <2>1, QuietStep DEF SInv, Places
  <2>3. Exchange' BY <2>1 DEF SInv, Exchange
  <2>4. BatchAtRest' BY <2>1 DEF SInv, BatchAtRest
  <2>5. AckArrived' BY <2>1 DEF SInv, AckArrived, transmitterVars
  <2>6. ReportsTravel' BY <2>1, <2>2 DEF SInv, ReportsTravel, Explained
  <2>7. AckNotForgotten' BY <2>1, <2>2 DEF SInv, AckNotForgotten, transmitterVars
  <2>8. IdleOwesNothing' BY <2>1 DEF SInv, IdleOwesNothing
  <2> QED BY <2>2, <2>3, <2>4, <2>5, <2>6, <2>7, <2>8 DEF SInv
<1> QED BY <1>1, <1>2 DEF PollerEnvStep

\* A request that is looked up, refused or whose answer is spoilt changes
\* nothing at the Transmitter, and brings the Poller no SETs.
LEMMA ExchangeStep ==
    ASSUME Bookkeeping, SInv,
           UNCHANGED <<runVars, batchVars, answers, transmitterVars>>,
           reply' = reply \/ (reply'.status # "ok" /\ reply'.sets = {}),
           \A r \in requests' : \E q \in requests :
               r.ack = q.ack /\ r.errs = q.errs /\ r.live = q.live,
           Exchange'
    PROVE  SInv'
<1> USE DEF runVars, batchVars
<1>1. /\ Places' /\ Untouched' /\ DropIsReported'
      /\ Consumed' = Consumed
      /\ \A acks, reports : Explained(acks, reports) = Explained(acks, reports)'
  BY QuietStep DEF SInv, Places
<1>2. BatchAtRest' BY DEF SInv, BatchAtRest
<1>3. AckArrived' BY DEF SInv, AckArrived, transmitterVars
<1>4. ReportsTravel' BY <1>1 DEF SInv, ReportsTravel, Explained
<1>5. AckNotForgotten' BY <1>1 DEF SInv, AckNotForgotten, transmitterVars
<1>6. IdleOwesNothing' BY DEF SInv, IdleOwesNothing
<1> QED BY <1>1, <1>2, <1>3, <1>4, <1>5, <1>6 DEF SInv

\* The network, and a handler that has not served its poll yet.
LEMMA NetworkKeepsSInv ==
    ASSUME Bookkeeping, SInv,
           NetworkStep \/ \E r \in requests : LookUpStream(r)
    PROVE  SInv'
<1>1. requests \subseteq Requests BY DEF Bookkeeping, TypeOK, PollerTypeOK
<1>2. ASSUME NEW status, NEW r \in requests, Respond(r, Failure(status)), status # "ok",
             UNCHANGED <<runVars, batchVars, answers, transmitterVars>>
      PROVE  SInv'
  <2>1. reply' = reply \/ (reply'.status # "ok" /\ reply'.sets = {})
    BY <1>2 DEF Respond, Failure
  <2>2. requests' \subseteq requests BY <1>2 DEF Respond
  <2>3. Exchange'
    <3>1. CASE r.live
      BY <1>2, <2>2, <3>1 DEF SInv, Exchange, Respond, runVars
    <3>2. CASE ~r.live
      BY <1>2, <2>2, <3>2 DEF SInv, Exchange, Respond, runVars
    <3> QED BY <3>1, <3>2
  <2> QED BY <1>2, <2>1, <2>2, <2>3, ExchangeStep
<1>3. ASSUME NEW r \in requests, LookUpStream(r) PROVE SInv'
  <2>1. CASE Respond(r, Failure("error"))
    BY <1>2, <1>3, <2>1 DEF LookUpStream
  <2>2. CASE requests' = (requests \ {r}) \cup {Checked(r)} /\ UNCHANGED reply
    <3>1. /\ Checked(r).ack = r.ack /\ Checked(r).errs = r.errs /\ Checked(r).live = r.live
      BY <1>1, RequestUpdates
    <3>2. Exchange' BY <1>3, <2>2, <3>1 DEF LookUpStream, SInv, Exchange, runVars
    <3>3. \A p \in requests' : \E q \in requests :
             p.ack = q.ack /\ p.errs = q.errs /\ p.live = q.live
      BY <2>2, <3>1
    <3> QED BY <1>3, <2>2, <3>2, <3>3, ExchangeStep DEF LookUpStream
  <2> QED BY <1>3, <2>1, <2>2 DEF LookUpStream
<1>4. ASSUME NEW r \in requests, NEW status \in {"error", "retry_after"}, Refuse(r, status)
      PROVE  SInv'
  BY <1>2, <1>4 DEF Refuse
<1>5. CASE Spoil
  <2>1. \A r \in requests : ~r.live BY <1>5 DEF Spoil, SInv, Exchange, NoReply, Failure
  <2>2. pc = "posting" BY <1>5 DEF Spoil, SInv, Exchange, NoReply, Failure
  <2>3. Exchange' BY <1>5, <2>1, <2>2 DEF Spoil, Exchange, runVars
  <2>4. reply'.status # "ok" /\ reply'.sets = {} BY <1>5 DEF Spoil, Failure
  <2> QED BY <1>5, <2>3, <2>4, ExchangeStep DEF Spoil
<1> QED BY <1>3, <1>4, <1>5 DEF NetworkStep

\* Serving a poll moves SETs from the queue to the outstanding ones, and into
\* the reply if anybody waits for it.
LEMMA PollEventsKeepsSInv ==
    ASSUME Bookkeeping, SInv, NEW r \in requests, PollEvents(r)
    PROVE  SInv'
<1>1. r \in Requests /\ requests \subseteq Requests BY DEF Bookkeeping, TypeOK, PollerTypeOK
<1>2. /\ requests' = requests \ {r}
      /\ reply' = IF r.live THEN BatchReply ELSE reply
      /\ BatchReply.sets = Batch /\ BatchReply.status = "ok"
      /\ UNCHANGED <<pc, nextAck, nextErrs, runs, entries, busy, ack, errs, cadence, answers>>
  BY DEF PollEvents, Respond, BatchReply, runVars, batchVars
<1>3. /\ outstanding' = (outstanding \ r.ack) \cup Batch
      /\ observed' = Overlay(observed, r.errs)
      /\ pending' = Undrained
      /\ UNCHANGED <<offered, purged>>
  BY DEF PollEvents, Drain
<1>4. /\ Elements(pending) = Batch \cup Elements(Undrained)
      /\ Distinct(Undrained)
      /\ Batch \cap Elements(Undrained) = {}
      /\ Elements(pending)' = Elements(Undrained)
  <2>1. pending \in Seq(JTI) /\ Distinct(pending)
    BY DEF Bookkeeping, TypeOK, TransmitterTypeOK, SInv, Places
  <2>2. Elements(pending)' = Elements(Undrained) BY <1>3 DEF Elements
  <2> QED BY <2>1, <2>2, DrainSplits, DrainParts
<1>5. Distinct(pending)' BY <1>3, <1>4 DEF Distinct
<1>6. reply'.sets \subseteq reply.sets \cup Batch BY <1>2
<1>7. Places' BY <1>2, <1>3, <1>4, <1>5, <1>6 DEF SInv, Places
<1>8. Untouched' BY <1>2, <1>3, <1>4, <1>6 DEF SInv, Untouched, Ahead
<1>9. Exchange'
  <2>1. CASE r.live BY <1>2, <2>1 DEF SInv, Exchange
  <2>2. CASE ~r.live BY <1>2, <2>2 DEF SInv, Exchange
  <2> QED BY <1>1, <2>1, <2>2 DEF Requests
<1>10. BatchAtRest' BY <1>2 DEF SInv, BatchAtRest
<1>11. Consumed' = Consumed /\ nextAck \subseteq Consumed /\ Batch \cap Consumed = {}
  BY <1>2, <1>4 DEF Consumed, Bookkeeping, AcksConsumed, SInv, Untouched, Ahead
<1>12. AckArrived'
  <2>1. CASE r.live
    <3>1. r.ack = nextAck BY <2>1 DEF SInv, Exchange
    <3> QED BY <1>2, <1>3, <1>11, <3>1 DEF AckArrived
  <2>2. CASE ~r.live BY <1>2, <1>3, <1>11, <2>2 DEF SInv, AckArrived
  <2> QED BY <1>1, <2>1, <2>2 DEF Requests
<1>13. ReportsTravel' BY <1>2 DEF SInv, ReportsTravel, Explained
<1>14. DropIsReported'
  <2>1. \A j \in JTI : /\ observed[j] # "none" => observed'[j] # "none"
                       /\ r.errs[j] # "none" => observed'[j] # "none"
    BY <1>3 DEF Overlay
  <2>2. Held \ Held' \subseteq r.ack BY PollEventsReleases
  <2>3. Settled' \subseteq Settled \cup r.ack BY <1>3, <2>2 DEF Settled
  <2>4. r.ack \subseteq JTI /\ Settled \subseteq JTI
    BY <1>1 DEF Requests, Settled, Bookkeeping, TypeOK, TransmitterTypeOK
  <2>5. Explained(r.ack, r.errs) BY DEF SInv, ReportsTravel
  <2> QED BY <1>2, <2>1, <2>3, <2>4, <2>5 DEF SInv, DropIsReported, Explained
<1>15. AckNotForgotten' BY <1>2, <1>3, <1>11 DEF SInv, AckNotForgotten
<1>16. IdleOwesNothing' BY <1>2 DEF SInv, IdleOwesNothing
<1> QED BY <1>7, <1>8, <1>9, <1>10, <1>12, <1>13, <1>14, <1>15, <1>16 DEF SInv

\* New SETs are new; deleting the stream forgets and settles nothing.
LEMMA StreamKeepsSInv ==
    ASSUME Bookkeeping, SInv, ProducerStep \/ Lifecycle, UNCHANGED pollerVars
    PROVE  SInv'
<1> USE DEF pollerVars, runVars, batchVars, netVars
<1>1. /\ Exchange' /\ BatchAtRest' /\ IdleOwesNothing' /\ ReportsTravel'
      /\ Consumed' = Consumed
  BY DEF SInv, Exchange, BatchAtRest, IdleOwesNothing, ReportsTravel, Explained, Consumed
<1>2. ASSUME UNCHANGED <<pending, outstanding, observed, offered, purged>> PROVE SInv'
  <2>1. Elements(pending)' = Elements(pending) /\ Settled' = Settled
    BY <1>2 DEF Elements, Settled, Held
  <2>2. Places' /\ Untouched' BY <1>2, <2>1 DEF SInv, Places, Distinct, Untouched, Ahead
  <2>3. AckArrived' /\ AckNotForgotten' /\ DropIsReported'
    BY <1>1, <1>2, <2>1 DEF SInv, AckArrived, AckNotForgotten, DropIsReported
  <2> QED BY <1>1, <2>2, <2>3 DEF SInv
<1>3. ASSUME NEW j \in JTI, AppendPending(j) PROVE SInv'
  <2>1. pending \in Seq(JTI) /\ j \notin offered
    BY <1>3 DEF Bookkeeping, TypeOK, TransmitterTypeOK, OnlyOffered, AppendPending
  <2>2. j \notin Elements(pending) \cup outstanding \cup reply.sets \cup entries \cup busy
    BY <2>1 DEF Bookkeeping, OnlyOffered, Held
  <2>3. /\ Elements(pending)' = Elements(pending) \cup {j}
        /\ UNCHANGED <<outstanding, observed, purged>> /\ offered' = offered \cup {j}
    <3>1. Elements(pending)' = Elements(Append(pending, j)) BY <1>3 DEF AppendPending, Elements
    <3> QED BY <1>3, <2>1, <3>1, ElementsOfAppend DEF AppendPending
  <2>4. Distinct(pending)'
    <3>1. Distinct(Append(pending, j)) BY <2>1, <2>2, AppendIsDistinct DEF SInv, Places
    <3> QED BY <1>3, <3>1 DEF AppendPending, Distinct
  <2>5. Places' BY <2>2, <2>3, <2>4 DEF SInv, Places
  <2>6. Untouched' BY <2>1, <2>3 DEF SInv, Untouched, Ahead
  <2>7. Settled' \subseteq Settled BY <2>3 DEF Settled, Held
  <2>8. AckArrived' /\ AckNotForgotten' /\ DropIsReported'
    BY <1>1, <2>3, <2>7 DEF SInv, AckArrived, AckNotForgotten, DropIsReported
  <2> QED BY <1>1, <2>5, <2>6, <2>8 DEF SInv
<1>4. CASE ClearHarness
  <2>1. /\ Elements(pending)' = {} /\ Len(pending') = 0 /\ outstanding' = {}
        /\ Settled' = {} /\ offered' = offered
    BY <1>4 DEF ClearHarness, Elements, Settled
  <2>2. Places' BY <2>1 DEF SInv, Places, Distinct
  <2>3. Untouched' BY <2>1 DEF SInv, Untouched, Ahead
  <2>4. AckArrived' /\ AckNotForgotten' /\ DropIsReported'
    BY <2>1 DEF AckArrived, AckNotForgotten, DropIsReported
  <2> QED BY <1>1, <2>2, <2>3, <2>4 DEF SInv
<1> QED
  BY <1>2, <1>3, <1>4
  DEF ProducerStep, Lifecycle, EnqueueInStore, DeleteStream, CreateStream

\* The invariant is kept by every step.
LEMMA SInvStep == Bookkeeping /\ SInv /\ [Next]_vars => SInv'
<1> SUFFICES ASSUME Bookkeeping, SInv, [Next]_vars PROVE SInv' OBVIOUS
<1>1. CASE UNCHANGED vars
  <2>1. UNCHANGED <<answers, reply, entries, busy, requests, runVars, batchVars, transmitterVars>>
    BY <1>1 DEF vars, pollerVars, netVars, batchVars
  <2>2. Exchange' BY <2>1 DEF SInv, Exchange, runVars
  <2> QED BY <2>1, <2>2, ExchangeStep
<1> QED
  BY <1>1, PollerKeepsSInv, PollerEnvKeepsSInv, NetworkKeepsSInv, PollEventsKeepsSInv,
     StreamKeepsSInv
  DEF Next, ServerStep

\* SInv holds in every behaviour of the loopback.
LEMMA SInvAlways == Spec => []SInv
<1> QED BY SInvInit, SInvStep, BookkeepingAlways, PTL DEF Spec

-----------------------------------------------------------------------------
(* Theorems *)

\* HeldOnce: however enqueues, polls and deletions interleave, the
\* Transmitter holds a SET in one place (interop.go EnqueueForPoll,
\* PollEvents, DeleteConfig).
THEOREM HeldInOnePlace == Spec => []HeldOnce
<1>1. SInv => HeldOnce BY DEF SInv, Places, Distinct, HeldOnce
<1> QED BY <1>1, SInvAlways, PTL

\* HandedOnce: no retried or late poll brings back a SET that was consumed or
\* does not verify (poller.go process and deliverOne, interop.go PollEvents).
THEOREM NeverHandedAgain == Spec => []HandedOnce
<1>1. SInv => HandedOnce BY DEF SInv, Untouched, Ahead, HandedOnce
<1> QED BY <1>1, SInvAlways, PTL

\* DropIsReported: a SET that was acknowledged without being accepted has its
\* failure on record (poller.go deliverOne, interop.go PollEvents).
THEOREM DropsAreReported == Spec => []DropIsReported
<1>1. SInv => DropIsReported BY DEF SInv
<1> QED BY <1>1, SInvAlways, PTL

\* AckNotForgotten: no failed poll loses an acknowledgement of the first Run
\* (poller.go Run).
THEOREM AcksAreNotForgotten == Spec => []AckNotForgotten
<1>1. SInv => AckNotForgotten BY DEF SInv
<1> QED BY <1>1, SInvAlways, PTL

\* IdleOwesNothing: Run sleeps after an empty poll with nothing left to
\* acknowledge or report (poller.go Run and process).
THEOREM IdleHasNothingToSend == Spec => []IdleOwesNothing
<1>1. SInv => IdleOwesNothing BY DEF SInv
<1> QED BY <1>1, SInvAlways, PTL
=============================================================================
