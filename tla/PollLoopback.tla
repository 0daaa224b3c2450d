---------------------------- MODULE PollLoopback ----------------------------
(***************************************************************************)
(* receiver.Poller polling interop.MemstoreTransmitter through             *)
(* transmitter.PollHandler: the loopback the interop tests run, with a     *)
(* network between the two that loses, delays and refuses requests, and    *)
(* with SETs enqueued and the stream deleted and created meanwhile.        *)
(***************************************************************************)
EXTENDS Poller, MemstoreTransmitter

vars == <<pollerVars, transmitterVars>>

TypeOK == PollerTypeOK /\ TransmitterTypeOK

Init == PollerInit /\ TransmitterInit

-----------------------------------------------------------------------------
(* PollHandler and PollEvents: the stream is looked up in the store first, *)
(* the poll is served under t.mu afterwards.                               *)

LookUpStream(r) ==
    /\ ~r.checked
    /\ \/ /\ exists
          /\ requests' = (requests \ {r}) \cup {Checked(r)}
          /\ UNCHANGED reply
       \/ /\ ~exists
          /\ Respond(r, Failure("error"))
    /\ UNCHANGED <<runVars, batchVars, backoffVars, answers, transmitterVars>>

PollEvents(r) ==
    /\ r.checked
    /\ Drain(r.ack, r.errs)
    /\ Respond(r, BatchReply)
    /\ UNCHANGED <<runVars, batchVars, backoffVars, answers>>

(* An intermediary refuses a request before it reaches the handler, or     *)
(* spoils a response on its way back.                                      *)

Refuse(r, status) ==
    /\ "status" \in Faults
    /\ r.live /\ ~r.checked
    /\ Respond(r, Failure(status))
    /\ UNCHANGED <<runVars, batchVars, backoffVars, answers, transmitterVars>>

Spoil ==
    /\ "undecodable" \in Faults
    /\ reply.status = "ok"
    /\ reply' = Failure("error")
    /\ UNCHANGED <<runVars, batchVars, backoffVars, requests, answers,
                   transmitterVars>>

-----------------------------------------------------------------------------
Lifecycle ==
    /\ "lifecycle" \in Faults
    /\ ClearHarness \/ DeleteStream \/ CreateStream

ServerStep == \E r \in requests : LookUpStream(r) \/ PollEvents(r)

ProducerStep == \E j \in JTI : EnqueueInStore(j) \/ AppendPending(j)

NetworkStep ==
    \/ \E r \in requests, status \in {"error", "retry_after"} : Refuse(r, status)
    \/ Spoil

Next ==
    \/ PollerStep /\ UNCHANGED transmitterVars
    \/ PollerEnvStep /\ UNCHANGED transmitterVars
    \/ ServerStep
    \/ NetworkStep
    \/ ProducerStep /\ UNCHANGED pollerVars
    \/ Lifecycle /\ UNCHANGED pollerVars

Spec == Init /\ [][Next]_vars

(* Go runs a goroutine that can run; the Sink returns; a wait that ctx has *)
(* ended fails.  A caller of EnqueueForPoll gets t.mu in the end.  Nothing *)
(* is assumed of the network, of who cancels, or of who enqueues.          *)
Fairness ==
    /\ WF_vars(PollerStep /\ UNCHANGED transmitterVars)
    /\ WF_vars(cancelled /\ TransportError /\ UNCHANGED transmitterVars)
    /\ WF_vars(ServerStep)
    /\ \A j \in JTI : WF_vars(AppendPending(j) /\ UNCHANGED pollerVars)

FairSpec == Spec /\ Fairness

-----------------------------------------------------------------------------
\* The Sink accepted the SET or refused it for good.
Consumed ==
    {j \in JTI : "accept" \in answers[j] \/ "permanent" \in answers[j]}

\* The Transmitter lets go of a SET only after the Sink has accepted it or
\* refused it for good: a lost, repeated or late poll, a failed verification,
\* a transient refusal or a second Run never acknowledges a SET by mistake
\* (poller.go deliverOne and Run's nextAck, interop.go PollEvents).
SettledWasConsumed == Settled \subseteq Consumed

\* A SET the Sink never accepted does not vanish silently: when it has been
\* acknowledged away, its failure is on record at the Transmitter, and a late
\* request with older reports does not erase it (deliverOne's permanent
\* branch; PollEvents recording setErrs in the same critical section).
DropIsReported ==
    \A j \in Settled : "accept" \notin answers[j] => observed[j] # "none"

\* Until a Run ends, what the Sink has consumed and the Transmitter still
\* holds is in the acknowledgement being collected or the one to be sent:
\* no failed poll, undecodable body or Retry-After loses it (Run carries
\* nextAck forward on every error path).
AckNotForgotten ==
    (runs = 1 /\ pc # "returned") =>
        Consumed \cap outstanding \subseteq nextAck \cup ack

\* What the Sink has consumed, and what does not verify, is not before the
\* Poller again: no retried poll, no request that arrives late, no worker and
\* no second Run brings back a SET about which everything is said (process,
\* deliverOne, PollEvents).  Of a SET that was refused for now nothing is said
\* here: that a Transmitter replays it is what poller.go:284 counts on.
HandedOnce ==
    \A j \in entries \cup busy : answers[j] \cap {"accept", "permanent", "invalid"} = {}

\* The Poller does not sleep on an acknowledgement: when it sleeps because
\* a poll came back empty, there is nothing it still has to tell the
\* Transmitter (process returns an empty outcome for an empty response).
IdleOwesNothing == pc = "idle" => nextAck = {} /\ nextErrs = NoErrs

\* What is held is held once: a SET is pending or outstanding, not both, and
\* not pending twice, though enqueues, polls and deletions interleave.
HeldOnce ==
    /\ Elements(pending) \cap outstanding = {}
    /\ \A i, k \in 1..Len(pending) : pending[i] = pending[k] => i = k

\* The loopback implements the promise of poll delivery.
Delivery == INSTANCE PollDelivery WITH
    given <- offered, owed <- Held, consumed <- Consumed

DeliverySpec == Delivery!Spec

-----------------------------------------------------------------------------
(* The inductive invariant behind SettledWasConsumed and DeliverySpec.     *)

\* Every acknowledgement, wherever it is on its way, names consumed SETs.
AcksConsumed ==
    /\ nextAck \subseteq Consumed
    /\ ack \subseteq Consumed
    /\ \A r \in requests : r.ack \subseteq Consumed
    /\ SettledWasConsumed

\* Every SET in sight has been offered, and none is offered twice.
OnlyOffered ==
    /\ entries \cup busy \cup reply.sets \cup Held \subseteq offered
    /\ enqueuing \cap offered = {}

Bookkeeping == TypeOK /\ AcksConsumed /\ OnlyOffered

-----------------------------------------------------------------------------
\* With a working network and a Sink that never fails transiently, every SET
\* offered is acknowledged away unless Run is cancelled: OutstandingCount
\* falls to zero (interop.go OutstandingCount; Run polling again at once
\* after a batch).
Settles == \A j \in JTI : j \in offered ~> (j \in Settled \/ cancelled)

\* A cancelled context ends Run wherever it is: at the top, in a request, in
\* a batch or asleep (Run's doc, poller.go:294-295).  Both sleeps are one
\* function; where the network has no faults Run is only in the idle one.
CancelStops == cancelled ~> (pc = "returned" \/ ~cancelled)
=============================================================================
