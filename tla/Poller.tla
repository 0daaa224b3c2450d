------------------------------- MODULE Poller -------------------------------
(***************************************************************************)
(* receiver.Poller: the loop of Run with pollOnce, process and deliverOne, *)
(* the worker pool of WithParallelDelivery, and the HTTP exchange it waits *)
(* for.  The verifier and the Sink are the environment: they give any      *)
(* answer of Outcomes.  The server side of the exchange is left to the     *)
(* modules that extend this one; they take a request out of `requests' and *)
(* put a `reply'.                                                          *)
(***************************************************************************)
EXTENDS SetReports, FiniteSets

CONSTANTS
    Parallelism,  \* WithParallelDelivery
    MaxLevel,     \* doublings after which a backoff sits at its maximum
    Outcomes,     \* what verifying a SET and handing it to the Sink may yield
    Faults,       \* what may go wrong in this instance
    MaxRuns,      \* bound: calls of Run
    MaxOrphans    \* bound: requests in flight that no Poller waits for

Answers == {"accept", "permanent", "transient", "invalid"}

FaultKinds ==
    {"cancel", "transport", "orphan", "status", "undecodable", "lifecycle"}

ASSUME PollerAssumption ==
    /\ Parallelism \in Nat \ {0}
    /\ MaxLevel \in Nat
    /\ Outcomes \subseteq Answers
    /\ Faults \subseteq FaultKinds
    /\ MaxRuns \in Nat \ {0}
    /\ MaxOrphans \in Nat

VARIABLES
    pc,          \* where Run is
    cancelled,   \* ctx.Err() # nil
    nextAck,     \* Run's locals nextAck and nextSetErrs
    nextErrs,
    entries,     \* process: SETs not yet handed to a worker
    busy,        \* process: SETs inside deliverOne
    ack,         \* process: the accumulators
    errs,
    cadence,     \* pollOutcome: moreAvailable, empty or neither
    idleLevel,   \* noEventsBackoff.current, in doublings
    errorLevel,  \* errorBackoff.current, in doublings
    requests,    \* poll requests on their way to, or inside, the Transmitter
    reply,       \* the response on its way back to the waiting Poller
    runs,        \* calls of Run so far
    answers      \* history: what verifier and Sink ever said of each SET

runVars     == <<pc, cancelled, nextAck, nextErrs, runs>>
batchVars   == <<entries, busy, ack, errs, cadence>>
backoffVars == <<idleLevel, errorLevel>>
netVars     == <<requests, reply>>
pollerVars  == <<runVars, batchVars, backoffVars, netVars, answers>>

-----------------------------------------------------------------------------
(* The exchange.  A request is live while the Poller waits for its answer; *)
(* checked once PollEvents has found its stream.                           *)

Requests == [ack : SUBSET JTI, errs : Reports, live : BOOLEAN, checked : BOOLEAN]

Replies == [status : {"none", "ok", "error", "retry_after"},
            sets : SUBSET JTI, more : BOOLEAN]

Failure(status) == [status |-> status, sets |-> {}, more |-> FALSE]
NoReply == Failure("none")

\* The Poller stops waiting for r.
Orphaned(r) == [r EXCEPT !.live = FALSE]

\* PollEvents has found the stream of r.
Checked(r) == [r EXCEPT !.checked = TRUE]

Orphans == {r \in requests : ~r.live}

\* The handler is done with r; nobody reads the answer to an orphan.
Respond(r, answer) ==
    /\ requests' = requests \ {r}
    /\ reply' = IF r.live THEN answer ELSE reply

-----------------------------------------------------------------------------
PollerTypeOK ==
    /\ pc \in {"top", "posting", "processing", "backoff", "idle", "returned"}
    /\ cancelled \in BOOLEAN
    /\ nextAck \subseteq JTI
    /\ nextErrs \in Reports
    /\ entries \subseteq JTI
    /\ busy \subseteq JTI
    /\ ack \subseteq JTI
    /\ errs \in Reports
    /\ cadence \in {"more", "empty", "busy"}
    /\ idleLevel \in 0..MaxLevel
    /\ errorLevel \in 0..MaxLevel
    /\ requests \subseteq Requests
    /\ reply \in Replies
    /\ runs \in 1..MaxRuns
    /\ answers \in [JTI -> SUBSET Answers]

PollerInit ==
    /\ pc = "top"
    /\ cancelled = FALSE
    /\ nextAck = {}
    /\ nextErrs = NoErrs
    /\ entries = {}
    /\ busy = {}
    /\ ack = {}
    /\ errs = NoErrs
    /\ cadence = "busy"
    /\ idleLevel = 0
    /\ errorLevel = 0
    /\ requests = {}
    /\ reply = NoReply
    /\ runs = 1
    /\ answers = [j \in JTI |-> {}]

\* backoff.Next: the stored delay doubles up to the maximum.
NextLevel(level) == IF level < MaxLevel THEN level + 1 ELSE MaxLevel

-----------------------------------------------------------------------------
(* Run: the loop around a poll.                                            *)

\* Run's locals are gone with it: what they held is never sent.
Return ==
    /\ pc' = "returned"
    /\ nextAck' = {}
    /\ nextErrs' = NoErrs

BuildRequest ==
    [ack |-> nextAck, errs |-> nextErrs, live |-> TRUE, checked |-> FALSE]

\* Mutant: the loop does not look at ctx before it polls.
StartPollUnchecked ==
    /\ pc = "top"
    /\ pc' = "posting"
    /\ requests' = requests \cup {BuildRequest}
    /\ UNCHANGED <<cancelled, nextAck, nextErrs, runs, batchVars, backoffVars,
                   reply, answers>>

StartPoll ==
    /\ pc = "top"
    /\ ~cancelled
    /\ pc' = "posting"
    /\ requests' = requests \cup {BuildRequest}
    /\ UNCHANGED <<cancelled, nextAck, nextErrs, runs, batchVars, backoffVars,
                   reply, answers>>

StopAtTop ==
    /\ pc = "top"
    /\ cancelled
    /\ Return
    /\ UNCHANGED <<cancelled, runs, batchVars, backoffVars, netVars, answers>>

\* Mutant: the outcome of a failed poll replaces nextAck and nextErrs.
PollFailedForgets(hinted) ==
    \/ /\ cancelled
       /\ Return
       /\ UNCHANGED errorLevel
    \/ /\ ~cancelled
       /\ pc' = "backoff"
       /\ errorLevel' = IF hinted THEN errorLevel ELSE NextLevel(errorLevel)
       /\ nextAck' = {}
       /\ nextErrs' = NoErrs

\* pollOnce returned an error: Run ends if ctx is done, else it sleeps as
\* long as Retry-After says (hinted) or the error backoff does, and keeps
\* nextAck and nextErrs for the next attempt.
PollFailed(hinted) ==
    \/ /\ cancelled
       /\ Return
       /\ UNCHANGED errorLevel
    \/ /\ ~cancelled
       /\ pc' = "backoff"
       /\ errorLevel' = IF hinted THEN errorLevel ELSE NextLevel(errorLevel)
       /\ UNCHANGED <<nextAck, nextErrs>>

\* httpClient.Do fails: the connection broke, a client timeout or ctx ended
\* the wait.  The request may never arrive, may still be on its way, or may
\* have been answered already.
TransportError ==
    /\ pc = "posting"
    /\ cancelled \/ "transport" \in Faults
    /\ PollFailed(FALSE)
    /\ reply' = NoReply
    /\ \/ requests' = Orphans
       \/ /\ "orphan" \in Faults
          /\ Cardinality(Orphans) < MaxOrphans
          /\ requests' = {Orphaned(r) : r \in requests}
    /\ UNCHANGED <<cancelled, runs, batchVars, idleLevel, answers>>

\* A status other than 2xx, or a 2xx body that does not decode.
ReceiveFailure ==
    /\ pc = "posting"
    /\ reply.status \in {"error", "retry_after"}
    /\ PollFailed(reply.status = "retry_after")
    /\ reply' = NoReply
    /\ UNCHANGED <<cancelled, runs, batchVars, idleLevel, requests, answers>>

\* Mutant: a batch without moreAvailable counts as an empty one.
CadenceOfMore(answer) == IF answer.more THEN "more" ELSE "empty"

\* The switch at the end of Run: moreAvailable is looked at before empty.
Cadence(answer) ==
    IF answer.more THEN "more" ELSE IF answer.sets = {} THEN "empty" ELSE "busy"

ReceiveBatch ==
    /\ pc = "posting"
    /\ reply.status = "ok"
    /\ pc' = "processing"
    /\ entries' = reply.sets
    /\ cadence' = Cadence(reply)
    /\ reply' = NoReply
    /\ UNCHANGED <<cancelled, nextAck, nextErrs, runs, busy, ack, errs,
                   backoffVars, requests, answers>>

-----------------------------------------------------------------------------
(* process and deliverOne.                                                 *)

\* Mutant: a worker reads an entry without removing it from the jobs.
TakeKeepingEntry(j) ==
    /\ pc = "processing"
    /\ j \in entries
    /\ Cardinality(busy) < Parallelism
    /\ busy' = busy \cup {j}
    /\ UNCHANGED <<runVars, entries, ack, errs, cadence, backoffVars, netVars,
                   answers>>

\* A worker (the loop itself when Parallelism = 1) takes an entry.  Entries
\* were built by ranging over a Go map: any of them may be next.
Take(j) ==
    /\ pc = "processing"
    /\ j \in entries
    /\ Cardinality(busy) < Parallelism
    /\ entries' = entries \ {j}
    /\ busy' = busy \cup {j}
    /\ UNCHANGED <<runVars, ack, errs, cadence, backoffVars, netVars, answers>>

\* Mutant: a transient refusal is acknowledged too.
AcksAnyRefusal(answer) == answer # "invalid"

Acks(answer) == answer \in {"accept", "permanent"}

Code(answer) == CASE answer = "accept"  -> "none"
                  [] answer = "invalid" -> "invalid_set"
                  [] OTHER              -> "delivery_failed"

\* deliverOne returns, and its verdict is recorded.
Complete(j, answer) ==
    /\ j \in busy
    /\ busy' = busy \ {j}
    /\ answers' = [answers EXCEPT ![j] = @ \cup {answer}]
    /\ ack' = IF Acks(answer) THEN ack \cup {j} ELSE ack
    /\ errs' = [errs EXCEPT ![j] = Code(answer)]
    /\ UNCHANGED <<runVars, entries, cadence, backoffVars, netVars>>

\* Mutant: Run keeps the acknowledgement of the poll before.
FinishBatchKeepingAck ==
    /\ pc = "processing"
    /\ entries = {}
    /\ busy = {}
    /\ ack' = {}
    /\ errs' = NoErrs
    /\ errorLevel' = 0
    /\ cadence' = "busy"
    /\ \/ cadence = "empty" /\ pc' = "idle" /\ idleLevel' = NextLevel(idleLevel)
       \/ cadence # "empty" /\ pc' = "top" /\ idleLevel' = 0
    /\ UNCHANGED <<cancelled, nextAck, nextErrs, runs, entries, busy, netVars,
                   answers>>

\* process returns: its accumulators become the next poll's ack and setErrs
\* and the cadence rules decide whether Run sleeps.
FinishBatch ==
    /\ pc = "processing"
    /\ entries = {}
    /\ busy = {}
    /\ nextAck' = ack
    /\ nextErrs' = errs
    /\ ack' = {}
    /\ errs' = NoErrs
    /\ errorLevel' = 0
    /\ cadence' = "busy"
    /\ \/ /\ cadence = "empty"
          /\ pc' = "idle"
          /\ idleLevel' = NextLevel(idleLevel)
       \/ /\ cadence # "empty"
          /\ pc' = "top"
          /\ idleLevel' = 0
    /\ UNCHANGED <<cancelled, runs, entries, busy, netVars, answers>>

-----------------------------------------------------------------------------
(* sleep, and the context Run was given.                                   *)

Wake ==
    /\ pc \in {"backoff", "idle"}
    /\ pc' = "top"
    /\ UNCHANGED <<cancelled, nextAck, nextErrs, runs, batchVars, backoffVars,
                   netVars, answers>>

StopInSleep ==
    /\ pc \in {"backoff", "idle"}
    /\ cancelled
    /\ Return
    /\ UNCHANGED <<cancelled, runs, batchVars, backoffVars, netVars, answers>>

Cancel ==
    /\ "cancel" \in Faults
    /\ pc # "returned"
    /\ ~cancelled
    /\ cancelled' = TRUE
    /\ UNCHANGED <<pc, nextAck, nextErrs, runs, batchVars, backoffVars,
                   netVars, answers>>

\* The caller runs the same Poller again: the backoffs are fields of the
\* Poller and survive, the locals of Run start empty.
RunAgain ==
    /\ pc = "returned"
    /\ runs < MaxRuns
    /\ runs' = runs + 1
    /\ pc' = "top"
    /\ cancelled' = FALSE
    /\ UNCHANGED <<nextAck, nextErrs, batchVars, backoffVars, netVars, answers>>

\* The steps the Poller takes by itself.
PollerStep ==
    \/ StartPoll
    \/ StopAtTop
    \/ ReceiveFailure
    \/ ReceiveBatch
    \/ \E j \in JTI : Take(j)
    \/ \E j \in JTI, answer \in Outcomes : Complete(j, answer)
    \/ FinishBatch
    \/ Wake
    \/ StopInSleep

\* The steps its caller and the network impose on it.
PollerEnvStep ==
    \/ TransportError
    \/ Cancel
    \/ RunAgain
=============================================================================
