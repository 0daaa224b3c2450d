------------------------- MODULE PushDeliveryProofs -------------------------
(***************************************************************************)
(* The safety of one pushed delivery, for every retry budget and every set *)
(* of faults.  None of the invariants of PushDelivery is inductive: what   *)
(* Deliver returned says something about the Sink only because an answer   *)
(* on its way agrees with what the handler did, and because every POST     *)
(* before the latest was refused transiently or lost its answer.           *)
(***************************************************************************)
EXTENDS PushDelivery, TLAPS

\* The loop variable counts the POSTs.
Counted ==
    /\ pc = "start" => posts = 0
    /\ pc \in {"start", "top"} => posts = attempt
    /\ pc \in {"posting", "failed", "sleeping"} => posts = attempt + 1
    /\ pc = "sleeping" => attempt < MaxRetries
    /\ result = "exhausted" => posts = MaxRetries + 1

\* What Deliver returned and what it dead-lettered go together.
Outcome ==
    /\ pc # "done" <=> result = "none"
    /\ deadLetters = IF result \in {"permanent", "exhausted"} THEN 1 ELSE 0

\* A POST still on its way is the awaited one or was given up.
OnItsWay ==
    /\ \A n \in requests : n <= posts /\ verdict[n] = "none"
    /\ \A n \in requests : n \in lost \/ Awaited(n)
    /\ \A n \in lost : n <= posts
    /\ \A n \in Posts : n > posts => verdict[n] = "none"

\* The status on its way back is what the handler made of the latest POST,
\* or an intermediary's.
Answering ==
    /\ response # 0 => pc = "posting"
    /\ (response # 0 /\ posts \in lost) => response \in GatewayStatuses
    /\ (pc = "posting" /\ posts \notin lost) =>
        response = IF verdict[posts] = "none" THEN 0 ELSE Status(verdict[posts])

\* The answers that reached the driver.
Refused ==
    \A n \in Posts \ lost :
        /\ n < posts => verdict[n] = "transient"
        /\ (n = posts /\ pc \in {"top", "failed", "sleeping"}) =>
            verdict[n] = "transient"
        /\ (n = posts /\ result \in {"ctx", "exhausted"}) =>
            verdict[n] = "transient"
        /\ (n = posts /\ result = "permanent") =>
            verdict[n] \in {"permanent", "invalid", "too_large", "unreadable"}

\* A nil of Deliver was an acceptance of the handler.
Believed ==
    result = "nil" => posts \in Posts \ lost /\ verdict[posts] = "ok"

\* A SET that does not sign is never posted.
NothingSent == result = "unsent" => posts = 0

\* The inductive invariant.
IInv ==
    /\ TypeOK
    /\ Counted
    /\ Outcome
    /\ OnItsWay
    /\ Answering
    /\ Refused
    /\ Believed
    /\ NothingSent

-----------------------------------------------------------------------------
\* What the driver reads in a status of the handler is what the handler found.
LEMMA StatusRead ==
    ASSUME NEW finding \in Findings
    PROVE  /\ Success(Status(finding)) <=> finding = "ok"
           /\ Transient(Status(finding)) <=> finding = "transient"
           /\ Status(finding) \in HandlerStatuses
           /\ Status(finding) # 0
  BY DEF Findings, Status, Success, Transient, HandlerStatuses

\* No status of an intermediary is read as success.
LEMMA GatewayRead ==
    ASSUME NEW status \in GatewayStatuses
    PROVE  ~Success(status) /\ status # 0 /\ status \in Nat
  BY DEF GatewayStatuses, Success

\* What the driver takes an answer for, the handler meant by it.
LEMMA ResponseRead ==
    ASSUME IInv, pc = "posting"
    PROVE  /\ posts \in Posts
           /\ Success(response) => posts \notin lost /\ verdict[posts] = "ok"
           /\ (Transient(response) /\ posts \notin lost) =>
                verdict[posts] = "transient"
           /\ (/\ response # 0 /\ posts \notin lost
               /\ ~Success(response) /\ ~Transient(response)) =>
                verdict[posts] \in {"permanent", "invalid", "too_large",
                                    "unreadable"}
<1> USE DriverAssumption
<1>1. posts \in Posts
  BY DEF IInv, Counted, TypeOK, DriverTypeOK, Posts
<1>2. ~Success(0) /\ ~Transient(0)
  BY DEF Success, Transient
<1>3. CASE posts \in lost
  BY <1>1, <1>2, <1>3, GatewayRead DEF IInv, Answering
<1>4. CASE posts \notin lost
  <2>1. verdict[posts] \in Findings \cup {"none"}
    BY <1>1 DEF IInv, TypeOK
  <2>2. response = IF verdict[posts] = "none" THEN 0 ELSE Status(verdict[posts])
    BY <1>4 DEF IInv, Answering
  <2>3. CASE verdict[posts] = "none"
    BY <1>1, <1>2, <1>4, <2>2, <2>3
  <2>4. CASE verdict[posts] # "none"
    <3>1. verdict[posts] \in Findings /\ response = Status(verdict[posts])
      BY <2>1, <2>2, <2>4
    <3> QED
      BY <1>1, <1>4, <3>1, StatusRead DEF Findings
  <2> QED
    BY <2>3, <2>4
<1> QED
  BY <1>3, <1>4

\* Deliver has posted nothing.
LEMMA InitIInv == Init => IInv
<1> SUFFICES ASSUME Init PROVE IInv
  OBVIOUS
<1> USE DriverAssumption DEF Init, DriverInit
<1>1. TypeOK
  <2>1. DriverTypeOK
    <3>1. 0 \in 0..MaxRetries /\ 0 \in 0..MaxRetries + 1
      OBVIOUS
    <3>2. requests \subseteq Posts /\ response \in {0} /\ cancelled \in BOOLEAN
      OBVIOUS
    <3>3. deadLetters \in 0..1
      OBVIOUS
    <3> QED
      BY <3>1, <3>2, <3>3 DEF DriverTypeOK
  <2>2. verdict \in [Posts -> Findings \cup {"none"}]
    BY DEF Findings
  <2> QED
    BY <2>1, <2>2 DEF TypeOK
<1>2. Counted /\ Outcome /\ Believed /\ NothingSent
  BY DEF Counted, Outcome, Believed, NothingSent
<1>3. OnItsWay /\ Answering
  BY DEF OnItsWay, Answering, Posts, Awaited
<1>4. Refused
  BY DEF Refused, Posts
<1> QED
  BY <1>1, <1>2, <1>3, <1>4 DEF IInv

-----------------------------------------------------------------------------
\* The steps of Deliver.
LEMMA DeliverIInv ==
    ASSUME IInv, Deliver
    PROVE  IInv'
<1> USE DriverAssumption
<1>0. UNCHANGED <<verdict, lost>> /\ DriverStep
  BY DEF Deliver
<1>a. TypeOK /\ DriverTypeOK
  BY DEF IInv, TypeOK
<1>1. CASE FailToSign
  <2>1. TypeOK'
    BY <1>0, <1>a, <1>1
       DEF FailToSign, Finish, IInv, TypeOK, DriverTypeOK, Posts, Counted, Outcome
  <2>2. Counted' /\ Outcome' /\ Believed' /\ NothingSent'
    BY <1>0, <1>a, <1>1
       DEF FailToSign, Finish, IInv, Counted, Outcome, Believed, NothingSent, DriverTypeOK
  <2>3. OnItsWay'
    BY <1>0, <1>a, <1>1
       DEF FailToSign, Finish, IInv, OnItsWay, Awaited, DriverTypeOK, Posts
  <2>4. Answering'
    BY <1>0, <1>a, <1>1
       DEF FailToSign, Finish, IInv, Answering, DriverTypeOK, OnItsWay, Posts, Counted
  <2>5. Refused'
    BY <1>0, <1>a, <1>1
       DEF FailToSign, Finish, IInv, Refused, Outcome, Counted, DriverTypeOK, Posts, NothingSent
  <2> QED
    BY <2>1, <2>2, <2>3, <2>4, <2>5 DEF IInv
<1>2. CASE Sign
  <2>1. TypeOK'
    BY <1>0, <1>a, <1>2
       DEF Sign, Finish, IInv, TypeOK, DriverTypeOK, Posts, Counted, Outcome
  <2>2. Counted' /\ Outcome' /\ Believed' /\ NothingSent'
    BY <1>0, <1>a, <1>2
       DEF Sign, Finish, IInv, Counted, Outcome, Believed, NothingSent, DriverTypeOK
  <2>3. OnItsWay'
    BY <1>0, <1>a, <1>2
       DEF Sign, Finish, IInv, OnItsWay, Awaited, DriverTypeOK, Posts
  <2>4. Answering'
    BY <1>0, <1>a, <1>2
       DEF Sign, Finish, IInv, Answering, DriverTypeOK, OnItsWay, Posts, Counted
  <2>5. Refused'
    BY <1>0, <1>a, <1>2
       DEF Sign, Finish, IInv, Refused, Outcome, Counted, DriverTypeOK, Posts, NothingSent
  <2> QED
    BY <2>1, <2>2, <2>3, <2>4, <2>5 DEF IInv
<1>3. CASE StartAttempt
  <2>1. TypeOK'
    BY <1>0, <1>a, <1>3
       DEF StartAttempt, Finish, IInv, TypeOK, DriverTypeOK, Posts, Counted, Outcome
  <2>2. Counted' /\ Outcome' /\ Believed' /\ NothingSent'
    BY <1>0, <1>a, <1>3
       DEF StartAttempt, Finish, IInv, Counted, Outcome, Believed, NothingSent, DriverTypeOK
  <2>3. OnItsWay'
    BY <1>0, <1>a, <1>3
       DEF StartAttempt, IInv, OnItsWay, Awaited, DriverTypeOK, TypeOK, Posts,
           Counted
  <2>4. Answering'
    BY <1>0, <1>a, <1>3
       DEF StartAttempt, Finish, IInv, Answering, DriverTypeOK, OnItsWay, Posts, Counted
  <2>5. Refused'
    BY <1>0, <1>a, <1>3
       DEF StartAttempt, Finish, IInv, Refused, Outcome, Counted, DriverTypeOK, Posts, NothingSent
  <2> QED
    BY <2>1, <2>2, <2>3, <2>4, <2>5 DEF IInv
<1>4. CASE RejectTarget
  <2>1. TypeOK'
    BY <1>0, <1>a, <1>4
       DEF RejectTarget, Finish, IInv, TypeOK, DriverTypeOK, Posts, Counted, Outcome
  <2>2. Counted' /\ Outcome' /\ Believed' /\ NothingSent'
    BY <1>0, <1>a, <1>4
       DEF RejectTarget, Finish, IInv, Counted, Outcome, Believed, NothingSent, DriverTypeOK
  <2>3. OnItsWay'
    BY <1>0, <1>a, <1>4
       DEF RejectTarget, Finish, IInv, OnItsWay, Awaited, DriverTypeOK, Posts
  <2>4. Answering'
    BY <1>0, <1>a, <1>4
       DEF RejectTarget, Finish, IInv, Answering, DriverTypeOK, OnItsWay, Posts, Counted
  <2>5. Refused'
    BY <1>0, <1>a, <1>4
       DEF RejectTarget, Finish, IInv, Refused, Outcome, Counted, DriverTypeOK, Posts, NothingSent
  <2> QED
    BY <2>1, <2>2, <2>3, <2>4, <2>5 DEF IInv
<1>5. CASE StopAtTop
  <2>1. TypeOK'
    BY <1>0, <1>a, <1>5
       DEF StopAtTop, Finish, IInv, TypeOK, DriverTypeOK, Posts, Counted, Outcome
  <2>2. Counted' /\ Outcome' /\ Believed' /\ NothingSent'
    BY <1>0, <1>a, <1>5
       DEF StopAtTop, Finish, IInv, Counted, Outcome, Believed, NothingSent, DriverTypeOK
  <2>3. OnItsWay'
    BY <1>0, <1>a, <1>5
       DEF StopAtTop, Finish, IInv, OnItsWay, Awaited, DriverTypeOK, Posts
  <2>4. Answering'
    BY <1>0, <1>a, <1>5
       DEF StopAtTop, Finish, IInv, Answering, DriverTypeOK, OnItsWay, Posts, Counted
  <2>5. Refused'
    BY <1>0, <1>a, <1>5
       DEF StopAtTop, Finish, IInv, Refused, Outcome, Counted, DriverTypeOK, Posts, NothingSent
  <2> QED
    BY <2>1, <2>2, <2>3, <2>4, <2>5 DEF IInv
<1>6. CASE Accept
  <2>0. pc = "posting" /\ posts \in Posts
    BY <1>6, ResponseRead DEF Accept
  <2>1. TypeOK'
    BY <1>0, <1>a, <1>6, <2>0, ResponseRead
       DEF Accept, Finish, IInv, TypeOK, DriverTypeOK, Posts, Counted, Outcome
  <2>2. Counted' /\ Outcome' /\ Believed' /\ NothingSent'
    BY <1>0, <1>a, <1>6, <2>0, ResponseRead
       DEF Accept, Finish, IInv, Counted, Outcome, Believed, NothingSent
  <2>3. OnItsWay'
    BY <1>0, <1>a, <1>6, <2>0, ResponseRead
       DEF Accept, Finish, IInv, OnItsWay, Awaited, DriverTypeOK, Posts, Answering
  <2>4. Answering'
    BY <1>0, <1>a, <1>6, <2>0, ResponseRead
       DEF Accept, Finish, IInv, Answering, DriverTypeOK, OnItsWay, Posts, Counted
  <2>5. Refused'
    BY <1>0, <1>a, <1>6, <2>0, ResponseRead
       DEF Accept, Finish, IInv, Refused, Outcome
  <2> QED
    BY <2>1, <2>2, <2>3, <2>4, <2>5 DEF IInv
<1>7. CASE GiveUp
  <2>0. pc = "posting" /\ posts \in Posts
    BY <1>7, ResponseRead DEF GiveUp
  <2>1. TypeOK'
    BY <1>0, <1>a, <1>7, <2>0, ResponseRead
       DEF GiveUp, Finish, IInv, TypeOK, DriverTypeOK, Posts, Counted, Outcome
  <2>2. Counted' /\ Outcome' /\ Believed' /\ NothingSent'
    BY <1>0, <1>a, <1>7, <2>0, ResponseRead
       DEF GiveUp, Finish, IInv, Counted, Outcome, Believed, NothingSent
  <2>3. OnItsWay'
    BY <1>0, <1>a, <1>7, <2>0, ResponseRead
       DEF GiveUp, Finish, IInv, OnItsWay, Awaited, DriverTypeOK, Posts, Answering
  <2>4. Answering'
    BY <1>0, <1>a, <1>7, <2>0, ResponseRead
       DEF GiveUp, Finish, IInv, Answering, DriverTypeOK, OnItsWay, Posts, Counted
  <2>5. Refused'
    BY <1>0, <1>a, <1>7, <2>0, ResponseRead
       DEF GiveUp, Finish, IInv, Refused, Outcome
  <2> QED
    BY <2>1, <2>2, <2>3, <2>4, <2>5 DEF IInv
<1>8. CASE FailTransiently
  <2>0. pc = "posting" /\ posts \in Posts
    BY <1>8, ResponseRead DEF FailTransiently
  <2>1. TypeOK'
    BY <1>0, <1>a, <1>8, <2>0, ResponseRead
       DEF FailTransiently, Finish, IInv, TypeOK, DriverTypeOK, Posts, Counted, Outcome
  <2>2. Counted' /\ Outcome' /\ Believed' /\ NothingSent'
    BY <1>0, <1>a, <1>8, <2>0, ResponseRead
       DEF FailTransiently, Finish, IInv, Counted, Outcome, Believed, NothingSent
  <2>3. OnItsWay'
    BY <1>0, <1>a, <1>8, <2>0, ResponseRead
       DEF FailTransiently, Finish, IInv, OnItsWay, Awaited, DriverTypeOK, Posts, Answering
  <2>4. Answering'
    BY <1>0, <1>a, <1>8, <2>0, ResponseRead
       DEF FailTransiently, Finish, IInv, Answering, DriverTypeOK, OnItsWay, Posts, Counted
  <2>5. Refused'
    BY <1>0, <1>a, <1>8, <2>0, ResponseRead
       DEF FailTransiently, Finish, IInv, Refused, Outcome
  <2> QED
    BY <2>1, <2>2, <2>3, <2>4, <2>5 DEF IInv
<1>9. CASE Exhaust
  <2>1. TypeOK'
    BY <1>0, <1>a, <1>9
       DEF Exhaust, Finish, IInv, TypeOK, DriverTypeOK, Posts, Counted, Outcome
  <2>2. Counted' /\ Outcome' /\ Believed' /\ NothingSent'
    BY <1>0, <1>a, <1>9
       DEF Exhaust, Finish, IInv, Counted, Outcome, Believed, NothingSent, DriverTypeOK
  <2>3. OnItsWay'
    BY <1>0, <1>a, <1>9
       DEF Exhaust, Finish, IInv, OnItsWay, Awaited, DriverTypeOK, Posts
  <2>4. Answering'
    BY <1>0, <1>a, <1>9
       DEF Exhaust, Finish, IInv, Answering, DriverTypeOK, OnItsWay, Posts, Counted
  <2>5. Refused'
    BY <1>0, <1>a, <1>9
       DEF Exhaust, Finish, IInv, Refused, Outcome, Counted, DriverTypeOK, Posts, NothingSent
  <2> QED
    BY <2>1, <2>2, <2>3, <2>4, <2>5 DEF IInv
<1>10. CASE BackOff
  <2>1. TypeOK'
    BY <1>0, <1>a, <1>10
       DEF BackOff, Finish, IInv, TypeOK, DriverTypeOK, Posts, Counted, Outcome
  <2>2. Counted' /\ Outcome' /\ Believed' /\ NothingSent'
    BY <1>0, <1>a, <1>10
       DEF BackOff, Finish, IInv, Counted, Outcome, Believed, NothingSent, DriverTypeOK
  <2>3. OnItsWay'
    BY <1>0, <1>a, <1>10
       DEF BackOff, Finish, IInv, OnItsWay, Awaited, DriverTypeOK, Posts
  <2>4. Answering'
    BY <1>0, <1>a, <1>10
       DEF BackOff, Finish, IInv, Answering, DriverTypeOK, OnItsWay, Posts, Counted
  <2>5. Refused'
    BY <1>0, <1>a, <1>10
       DEF BackOff, Finish, IInv, Refused, Outcome, Counted, DriverTypeOK, Posts, NothingSent
  <2> QED
    BY <2>1, <2>2, <2>3, <2>4, <2>5 DEF IInv
<1>11. CASE Wake
  <2>1. TypeOK'
    BY <1>0, <1>a, <1>11
       DEF Wake, Finish, IInv, TypeOK, DriverTypeOK, Posts, Counted, Outcome
  <2>2. Counted' /\ Outcome' /\ Believed' /\ NothingSent'
    BY <1>0, <1>a, <1>11
       DEF Wake, Finish, IInv, Counted, Outcome, Believed, NothingSent, DriverTypeOK
  <2>3. OnItsWay'
    BY <1>0, <1>a, <1>11
       DEF Wake, Finish, IInv, OnItsWay, Awaited, DriverTypeOK, Posts
  <2>4. Answering'
    BY <1>0, <1>a, <1>11
       DEF Wake, Finish, IInv, Answering, DriverTypeOK, OnItsWay, Posts, Counted
  <2>5. Refused'
    BY <1>0, <1>a, <1>11
       DEF Wake, Finish, IInv, Refused, Outcome, Counted, DriverTypeOK, Posts, NothingSent
  <2> QED
    BY <2>1, <2>2, <2>3, <2>4, <2>5 DEF IInv
<1>12. CASE StopInSleep
  <2>1. TypeOK'
    BY <1>0, <1>a, <1>12
       DEF StopInSleep, Finish, IInv, TypeOK, DriverTypeOK, Posts, Counted, Outcome
  <2>2. Counted' /\ Outcome' /\ Believed' /\ NothingSent'
    BY <1>0, <1>a, <1>12
       DEF StopInSleep, Finish, IInv, Counted, Outcome, Believed, NothingSent, DriverTypeOK
  <2>3. OnItsWay'
    BY <1>0, <1>a, <1>12
       DEF StopInSleep, Finish, IInv, OnItsWay, Awaited, DriverTypeOK, Posts
  <2>4. Answering'
    BY <1>0, <1>a, <1>12
       DEF StopInSleep, Finish, IInv, Answering, DriverTypeOK, OnItsWay, Posts, Counted
  <2>5. Refused'
    BY <1>0, <1>a, <1>12
       DEF StopInSleep, Finish, IInv, Refused, Outcome, Counted, DriverTypeOK, Posts, NothingSent
  <2> QED
    BY <2>1, <2>2, <2>3, <2>4, <2>5 DEF IInv
<1> QED
  BY <1>0, <1>1, <1>2, <1>3, <1>4, <1>5, <1>6, <1>7, <1>8, <1>9, <1>10, <1>11, <1>12 DEF DriverStep

\* A POST fails: its answer, if there is one, is lost.
LEMMA PostFailsIInv ==
    ASSUME IInv, PostFails
    PROVE  IInv'
<1> USE DriverAssumption DEF PostFails, TransportError, IInv
<1>1. TypeOK'
  BY DEF TypeOK, DriverTypeOK, Counted, Posts
<1>2. Counted' /\ Outcome' /\ Believed' /\ NothingSent'
  BY DEF Counted, Outcome, Believed, NothingSent
<1>3. OnItsWay'
  BY DEF OnItsWay, Awaited, TypeOK, DriverTypeOK, Posts
<1>4. Answering'
  BY DEF Answering
<1>5. Refused'
  BY DEF Refused, Outcome, TypeOK, DriverTypeOK, Posts
<1> QED
  BY <1>1, <1>2, <1>3, <1>4, <1>5

\* The handler gives its verdict, and its answer reaches only who still waits.
LEMMA HandleIInv ==
    ASSUME IInv, NEW n \in requests, NEW finding \in Findings,
           Handle(n, finding)
    PROVE  IInv'
<1> USE DriverAssumption DEF Handle, IInv
<1>1. /\ n \in Posts
      /\ n \in lost \/ Awaited(n)
      /\ verdict[n] = "none"
      /\ verdict' = [verdict EXCEPT ![n] = finding]
  BY DEF TypeOK, DriverTypeOK, OnItsWay
<1>2. Status(finding) \in HandlerStatuses /\ Status(finding) # 0
  BY StatusRead
<1>3. TypeOK'
  BY <1>1, <1>2 DEF TypeOK, DriverTypeOK
<1>4. \A m \in Posts : verdict'[m] = IF m = n THEN finding ELSE verdict[m]
  BY <1>1 DEF TypeOK
<1>5. finding # "none"
  BY DEF Findings
<1>6. Counted' /\ Outcome' /\ NothingSent'
  BY DEF Counted, Outcome, NothingSent
<1>7. Believed'
  BY <1>1, <1>4 DEF Believed, Awaited, Outcome
<1>8. OnItsWay'
  BY <1>1, <1>4 DEF OnItsWay, Awaited, TypeOK, DriverTypeOK, Posts
<1>9. Answering'
  BY <1>1, <1>2, <1>4, <1>5
     DEF Answering, Awaited, OnItsWay, TypeOK, DriverTypeOK, Posts, Counted
<1>10. Refused'
  BY <1>1, <1>4 DEF Refused, Awaited, Outcome, Posts
<1> QED
  BY <1>3, <1>6, <1>7, <1>8, <1>9, <1>10

\* An intermediary answers in the handler's stead.
LEMMA IntermediaryIInv ==
    ASSUME IInv, NEW status \in GatewayStatuses, Intermediary(status)
    PROVE  IInv'
<1> USE DriverAssumption DEF Intermediary, IInv
<1>1. TypeOK'
  BY DEF TypeOK, DriverTypeOK, Counted, Posts
<1>2. Counted' /\ Outcome' /\ Believed' /\ NothingSent'
  BY DEF Counted, Outcome, Believed, NothingSent
<1>3. OnItsWay'
  BY DEF OnItsWay, Awaited, TypeOK, DriverTypeOK, Posts
<1>4. Answering'
  BY DEF Answering
<1>5. Refused'
  BY DEF Refused, Outcome
<1> QED
  BY <1>1, <1>2, <1>3, <1>4, <1>5

\* Every step of driver, handler and network keeps the invariant.
LEMMA StepIInv == IInv /\ [Next]_vars => IInv'
<1> SUFFICES ASSUME IInv, [Next]_vars PROVE IInv'
  OBVIOUS
<1>1. CASE Deliver
  BY <1>1, DeliverIInv
<1>2. CASE PostFails
  BY <1>2, PostFailsIInv
<1>3. CASE HandlerStep
  BY <1>3, HandleIInv DEF HandlerStep
<1>4. CASE \E status \in GatewayStatuses : Intermediary(status)
  BY <1>4, IntermediaryIInv
<1>5. CASE Cancel /\ UNCHANGED <<verdict, lost>>
  BY <1>5
     DEF Cancel, IInv, TypeOK, DriverTypeOK, Counted, Outcome, OnItsWay,
         Awaited, Answering, Refused, Believed, NothingSent
<1>6. CASE UNCHANGED vars
  BY <1>6
     DEF vars, driverVars, IInv, TypeOK, DriverTypeOK, Counted, Outcome,
         OnItsWay, Awaited, Answering, Refused, Believed, NothingSent
<1> QED
  BY <1>1, <1>2, <1>3, <1>4, <1>5, <1>6 DEF Next

\* The invariant holds in every behaviour of a delivery.
LEMMA Inductive == Spec => []IInv
  BY InitIInv, StepIInv, PTL DEF Spec

-----------------------------------------------------------------------------
\* Every variable keeps its type; in particular onDeadLetter is called at
\* most once per Deliver.
THEOREM TypeCorrect == Spec => []TypeOK
<1>1. IInv => TypeOK
  BY DEF IInv
<1> QED
  BY <1>1, Inductive, PTL

\* Deliver reports success only for a SET the Sink accepted.
THEOREM NilOnlyIfAccepted == Spec => []NilMeansAccepted
<1>1. IInv => NilMeansAccepted
  BY DEF IInv, Believed, NilMeansAccepted, Accepted
<1> QED
  BY <1>1, Inductive, PTL

\* A SET that nobody accepted is dead-lettered, or its caller knows.
THEOREM DropsAreReported == Spec => []NoSilentDrop
<1>1. IInv => NoSilentDrop
  BY DEF IInv, TypeOK, DriverTypeOK, Outcome, Believed, NoSilentDrop, Accepted
<1> QED
  BY <1>1, Inductive, PTL

\* The driver does with every answer it gets what the handler meant by it.
THEOREM VerdictsAreHonoured == Spec => []VerdictHonoured
<1>1. IInv => VerdictHonoured
  <2> SUFFICES ASSUME IInv PROVE VerdictHonoured
    OBVIOUS
  <2> USE DriverAssumption
  <2>1. ASSUME NEW n \in Posts \ lost,
               verdict[n] \notin {"transient", "none"}
        PROVE  n = posts
    BY <2>1 DEF IInv, TypeOK, DriverTypeOK, Refused, OnItsWay, Posts
  <2>2. pc = "done" => result \in {"nil", "ctx", "permanent", "exhausted"}
                       \/ posts \notin Posts
    BY DEF IInv, TypeOK, DriverTypeOK, Outcome, NothingSent, Posts
  <2>3. deadLetters = 0 \/ result # "nil"
    BY DEF IInv, Outcome
  <2>4. ASSUME NEW n \in Posts \ lost, n = posts
        PROVE  /\ (verdict[n] = "ok" /\ pc = "done") =>
                    result = "nil"
               /\ (pc = "done" /\ verdict[n] \in
                    {"permanent", "invalid", "too_large", "unreadable"}) =>
                    result = "permanent"
               /\ verdict[n] = "transient" =>
                    result \in {"none", "ctx", "exhausted"}
    BY <2>2, <2>4
       DEF IInv, TypeOK, DriverTypeOK, Refused, Believed, NothingSent, Posts
  <2> QED
    BY <2>1, <2>3, <2>4 DEF VerdictHonoured
<1> QED
  BY <1>1, Inductive, PTL

\* At most MaxRetries + 1 POSTs, and all of them before a SET is exhausted.
THEOREM BudgetIsKept == Spec => []BudgetKept
<1>1. IInv => BudgetKept
  BY DriverAssumption DEF IInv, TypeOK, DriverTypeOK, Counted, BudgetKept
<1> QED
  BY <1>1, Inductive, PTL
=============================================================================
