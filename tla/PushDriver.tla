----------------------------- MODULE PushDriver -----------------------------
(***************************************************************************)
(* transmitter.PushDriver: one call of Deliver, the retry-and-classify     *)
(* loop around a POST.  The driver keeps nothing between calls, so one     *)
(* call is the whole story.  Durations are left out: a sleep is a state    *)
(* that its timer or the context ends.  The receiving side takes a POST    *)
(* out of `requests' and puts its status into `response'.                  *)
(***************************************************************************)
EXTENDS Naturals

CONSTANTS
    MaxRetries,  \* WithMaxRetries
    Faults       \* what may go wrong in this instance

ASSUME DriverAssumption ==
    /\ MaxRetries \in Nat
    /\ Faults \subseteq {"cancel", "transport", "gateway", "body", "sign",
                   "target"}

VARIABLES
    pc,           \* where Deliver is
    attempt,      \* the loop variable
    posts,        \* POSTs sent so far; the latest is POST number `posts'
    cancelled,    \* ctx.Err() # nil
    lastErr,      \* the kind of error of the latest attempt
    result,       \* what Deliver returned
    deadLetters,  \* calls of onDeadLetter
    requests,     \* POSTs on their way, late ones included
    response      \* the status on its way back, 0 for none

driverVars == <<pc, attempt, posts, cancelled, lastErr, result, deadLetters,
                requests, response>>

\* Bound on the POSTs of a call, to be kept by the loop.
Posts == 1..MaxRetries + 1

\* The statuses of PushHandler, and those of what stands before it.
HandlerStatuses == {202, 400, 413, 503}
GatewayStatuses == {302, 403, 408, 429, 502}

DriverTypeOK ==
    /\ pc \in {"start", "top", "posting", "failed", "sleeping", "done"}
    /\ attempt \in 0..MaxRetries
    /\ posts \in 0..MaxRetries + 1
    /\ cancelled \in BOOLEAN
    /\ lastErr \in {"none", "ctx", "network", "status", "target"}
    /\ result \in {"none", "nil", "unsent", "ctx", "permanent", "exhausted"}
    /\ deadLetters \in 0..1
    /\ requests \subseteq Posts
    /\ response \in HandlerStatuses \cup GatewayStatuses \cup {0}

DriverInit ==
    /\ pc = "start"
    /\ attempt = 0
    /\ posts = 0
    /\ cancelled = FALSE
    /\ lastErr = "none"
    /\ result = "none"
    /\ deadLetters = 0
    /\ requests = {}
    /\ response = 0

-----------------------------------------------------------------------------
Finish(outcome) ==
    /\ pc' = "done"
    /\ result' = outcome

\* No endpoint, or the signer fails: nothing is sent, nothing dead-lettered.
FailToSign ==
    /\ "sign" \in Faults
    /\ pc = "start"
    /\ Finish("unsent")
    /\ UNCHANGED <<attempt, posts, cancelled, lastErr, deadLetters, requests,
                   response>>

Sign ==
    /\ pc = "start"
    /\ pc' = "top"
    /\ UNCHANGED <<attempt, posts, cancelled, lastErr, result, deadLetters,
                   requests, response>>

\* The context is not done: the POST goes out.
StartAttempt ==
    /\ pc = "top"
    /\ ~cancelled
    /\ pc' = "posting"
    /\ posts' = posts + 1
    /\ requests' = requests \cup {posts + 1}
    /\ UNCHANGED <<attempt, cancelled, lastErr, result, deadLetters, response>>

\* No request can be built for the target: permanent, and nothing is sent.
\* The target is the same for every attempt, so the first one finds out.
RejectTarget ==
    /\ "target" \in Faults
    /\ pc = "top"
    /\ attempt = 0
    /\ ~cancelled
    /\ Finish("permanent")
    /\ deadLetters' = deadLetters + 1
    /\ lastErr' = "target"
    /\ UNCHANGED <<attempt, posts, cancelled, requests, response>>

StopAtTop ==
    /\ pc = "top"
    /\ cancelled
    /\ Finish("ctx")
    /\ UNCHANGED <<attempt, posts, cancelled, lastErr, deadLetters, requests,
                   response>>

-----------------------------------------------------------------------------
(* attempt: the three classes of answers.                                  *)

\* Mutant: any status below 400 counts as accepted.
SuccessBelow400(status) == status \in 200..399

Success(status) == status \in 200..299

Transient(status) == status \in {408, 429} \/ status >= 500

Accept ==
    /\ pc = "posting"
    /\ Success(response)
    /\ Finish("nil")
    /\ response' = 0
    /\ UNCHANGED <<attempt, posts, cancelled, lastErr, deadLetters, requests>>

\* Any other status is permanent, 1xx and 3xx included.
GiveUp ==
    /\ pc = "posting"
    /\ response # 0
    /\ ~Success(response) /\ ~Transient(response)
    /\ Finish("permanent")
    /\ deadLetters' = deadLetters + 1
    /\ lastErr' = "status"
    /\ response' = 0
    /\ UNCHANGED <<attempt, posts, cancelled, requests>>

FailTransiently ==
    /\ pc = "posting"
    /\ Transient(response)
    /\ pc' = "failed"
    /\ lastErr' = "status"
    /\ response' = 0
    /\ UNCHANGED <<attempt, posts, cancelled, result, deadLetters, requests>>

\* Mutant: a transport error is noticed only while the context lives.
TransportErrorUncancelled ==
    /\ pc = "posting"
    /\ ~cancelled /\ "transport" \in Faults
    /\ pc' = "failed"
    /\ lastErr' = "network"
    /\ response' = 0
    /\ requests' \in {requests, requests \ {posts}}
    /\ UNCHANGED <<attempt, posts, cancelled, result, deadLetters>>

\* httpClient.Do fails, by the network or because the context is done, which
\* is reported as itself.  The POST is lost, or still arrives, or has been
\* answered.
TransportError ==
    /\ pc = "posting"
    /\ cancelled \/ "transport" \in Faults
    /\ pc' = "failed"
    /\ lastErr' = IF cancelled THEN "ctx" ELSE "network"
    /\ response' = 0
    /\ requests' \in {requests, requests \ {posts}}
    /\ UNCHANGED <<attempt, posts, cancelled, result, deadLetters>>

-----------------------------------------------------------------------------
(* Deliver after a failure that is not permanent.                          *)

\* Mutant: an exhausted delivery returns without a word to onDeadLetter.
ExhaustSilently ==
    /\ pc = "failed"
    /\ attempt = MaxRetries
    /\ Finish("exhausted")
    /\ UNCHANGED <<attempt, posts, cancelled, lastErr, deadLetters, requests,
                   response>>

Exhaust ==
    /\ pc = "failed"
    /\ attempt = MaxRetries
    /\ Finish("exhausted")
    /\ deadLetters' = deadLetters + 1
    /\ UNCHANGED <<attempt, posts, cancelled, lastErr, requests, response>>

BackOff ==
    /\ pc = "failed"
    /\ attempt < MaxRetries
    /\ pc' = "sleeping"
    /\ UNCHANGED <<attempt, posts, cancelled, lastErr, result, deadLetters,
                   requests, response>>

\* Mutant: an attempt that failed in transport is not counted.
WakeUncounted ==
    /\ pc = "sleeping"
    /\ pc' = "top"
    /\ attempt' = IF lastErr = "network" THEN attempt ELSE attempt + 1
    /\ UNCHANGED <<posts, cancelled, lastErr, result, deadLetters, requests,
                   response>>

\* Mutant: only an HTTP status arms the timer.
WakeAfterStatus ==
    /\ pc = "sleeping"
    /\ lastErr = "status"
    /\ pc' = "top"
    /\ attempt' = attempt + 1
    /\ UNCHANGED <<posts, cancelled, lastErr, result, deadLetters, requests,
                   response>>

\* The sleep ends and the loop goes round.
Wake ==
    /\ pc = "sleeping"
    /\ pc' = "top"
    /\ attempt' = attempt + 1
    /\ UNCHANGED <<posts, cancelled, lastErr, result, deadLetters, requests,
                   response>>

StopInSleep ==
    /\ pc = "sleeping"
    /\ cancelled
    /\ Finish("ctx")
    /\ UNCHANGED <<attempt, posts, cancelled, lastErr, deadLetters, requests,
                   response>>

\* The caller's context is done.
Cancel ==
    /\ "cancel" \in Faults
    /\ ~cancelled
    /\ pc # "done"
    /\ cancelled' = TRUE
    /\ UNCHANGED <<pc, attempt, posts, lastErr, result, deadLetters, requests,
                   response>>

\* Every step of Deliver but the failing POST, which PushDelivery records.
DriverStep ==
    \/ FailToSign
    \/ Sign
    \/ StartAttempt
    \/ RejectTarget
    \/ StopAtTop
    \/ Accept
    \/ GiveUp
    \/ FailTransiently
    \/ Exhaust
    \/ BackOff
    \/ Wake
    \/ StopInSleep
=============================================================================
