---------------------------- MODULE PushDelivery ----------------------------
(***************************************************************************)
(* One SET pushed: PushDriver.Deliver, the network between, and the        *)
(* PushHandler of the Receiver with its Sink.  The handler keeps nothing   *)
(* between requests; it may run on a POST long after the driver stopped    *)
(* waiting for the answer.                                                 *)
(***************************************************************************)
EXTENDS PushDriver

VARIABLES
    verdict,  \* what PushHandler made of each POST
    lost      \* POSTs the driver got no answer of the handler's for

vars == <<driverVars, verdict, lost>>

\* What the handler finds: a body it cannot read, a JWS that does not verify,
\* or what the Sink said.  Method, media type and a non-empty body are right
\* on every POST of the driver.
Findings == {"unreadable", "too_large", "invalid",
             "ok", "permanent", "transient"}

\* Mutant: ErrPermanent is not looked for, so the SET is retried.
StatusWithoutPermanent(finding) ==
    CASE finding = "ok" -> 202
      [] finding = "too_large" -> 413
      [] finding \in {"transient", "permanent"} -> 503
      [] OTHER -> 400

Status(finding) ==
    CASE finding = "ok" -> 202
      [] finding = "too_large" -> 413
      [] finding = "transient" -> 503
      [] OTHER -> 400

TypeOK ==
    /\ DriverTypeOK
    /\ verdict \in [Posts -> Findings \cup {"none"}]
    /\ lost \subseteq Posts

Init ==
    /\ DriverInit
    /\ verdict = [n \in Posts |-> "none"]
    /\ lost = {}

\* Deliver is waiting for the answer to POST n, and nobody else gave one.
Awaited(n) == pc = "posting" /\ n = posts /\ n \notin lost

\* PushHandler serves POST n; its answer counts only if it is awaited.
Handle(n, finding) ==
    /\ n \in requests
    /\ finding \in {"unreadable", "too_large"} => "body" \in Faults
    /\ requests' = requests \ {n}
    /\ verdict' = [verdict EXCEPT ![n] = finding]
    /\ response' = IF Awaited(n) THEN Status(finding) ELSE response
    /\ UNCHANGED <<pc, attempt, posts, cancelled, lastErr, result, deadLetters,
                   lost>>

\* An intermediary answers in the handler's place, before it or after it.
Intermediary(status) ==
    /\ "gateway" \in Faults
    /\ pc = "posting"
    /\ posts \notin lost
    /\ response' = status
    /\ requests' \in {requests, requests \ {posts}}
    /\ lost' = lost \cup {posts}
    /\ UNCHANGED <<pc, attempt, posts, cancelled, lastErr, result, deadLetters,
                   verdict>>

\* A POST fails: whatever the handler says of it is lost.
PostFails ==
    /\ TransportError
    /\ lost' = lost \cup {posts}
    /\ UNCHANGED verdict

Deliver == DriverStep /\ UNCHANGED <<verdict, lost>>

HandlerStep == \E n \in requests, finding \in Findings : Handle(n, finding)

Next ==
    \/ Deliver
    \/ PostFails
    \/ HandlerStep
    \/ \E status \in GatewayStatuses : Intermediary(status)
    \/ Cancel /\ UNCHANGED <<verdict, lost>>

Spec == Init /\ [][Next]_vars

(* Deliver runs when it can; its timers fire; a done context ends a POST   *)
(* that hangs.                                                             *)
Fairness ==
    /\ WF_vars(Deliver)
    /\ WF_vars(PostFails /\ cancelled)

FairSpec == Spec /\ Fairness

-----------------------------------------------------------------------------
Accepted == {n \in Posts : verdict[n] = "ok"}

\* Deliver returns nil only for a SET the Sink has accepted: no failure, of
\* any attempt, is taken for success.
NilMeansAccepted == result = "nil" => Accepted # {}

\* A SET that no attempt got accepted is dead-lettered, once, unless Deliver
\* returned the context's error or never got to send ("The callback is the
\* only signal the caller gets that a SET has been dropped").
NoSilentDrop ==
    (pc = "done" /\ Accepted = {}) =>
        deadLetters = 1 \/ result \in {"ctx", "unsent"}

\* Both sides read the statuses alike: an answer of the handler that reaches
\* the driver ends the delivery exactly as the Sink meant it.  In particular
\* a SET is accepted twice only if the first answer was lost.
VerdictHonoured ==
    \A n \in Posts \ lost :
        /\ verdict[n] = "ok" =>
            n = posts /\ (pc = "done" => result = "nil" /\ deadLetters = 0)
        /\ verdict[n] \in {"permanent", "invalid", "too_large", "unreadable"} =>
            n = posts /\ (pc = "done" => result = "permanent")
        /\ (verdict[n] = "transient" /\ n = posts) =>
            result \in {"none", "ctx", "exhausted"}

\* WithMaxRetries: never more than MaxRetries + 1 POSTs, and a delivery is
\* given up as exhausted only after all of them.
BudgetKept ==
    /\ posts <= MaxRetries + 1
    /\ result = "exhausted" => posts = MaxRetries + 1

\* A cancelled Deliver returns from wherever it is, however the network
\* behaves ("On context cancellation Deliver returns promptly").
CancelStops == cancelled ~> (pc = "done")

\* If every POST that stays on its way is answered, Deliver returns: the
\* driver's own loop never goes on for ever.
Returns == WF_vars(HandlerStep) => <>(pc = "done")

-----------------------------------------------------------------------------
\* "The dead-letter callback is NOT invoked on cancellation"
\* (pushdriver.go:215-216): a delivery whose last error is the context's is
\* not dead-lettered.
CancelIsNotDeadLettered == lastErr = "ctx" => deadLetters = 0
=============================================================================
