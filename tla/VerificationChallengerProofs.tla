-------------------- MODULE VerificationChallengerProofs --------------------
(***************************************************************************)
(* The safety of the challenger for any number of calls, states and        *)
(* deliveries.  The table, the deliveries between unlock and send, and the *)
(* channels hold a call at most once between them; that is what makes the  *)
(* send unable to block, and it rests on interception removing the entry   *)
(* under the lock.                                                         *)
(***************************************************************************)
EXTENDS VerificationChallenger, TLAPS

\* An entry of the table belongs to a running call that has got nothing.
Table ==
    \A s \in States : pending[s] # None =>
        /\ state[pending[s]] = s
        /\ pc[pending[s]] \in {"posting", "waiting", "leaving"}
        /\ slot[pending[s]] = None
        /\ \A d \in matched : d.to # pending[s]

\* A delivery on its way is the only one to its call and carries its state.
OnItsWay ==
    \A d \in matched :
        /\ slot[d.to] = None
        /\ \A e \in matched : e.to = d.to => e = d
        /\ pc[d.to] # "idle" /\ pc[d.set] # "idle"
        /\ state[d.set] = state[d.to]

\* So does the SET in a channel, and the one a call returned.
Carried ==
    \A c \in Calls :
        /\ slot[c] # None =>
            pc[c] # "idle" /\ pc[slot[c]] # "idle" /\ state[slot[c]] = state[c]
        /\ result[c] = "set" =>
            /\ got[c] # None
            /\ pc[c] # "idle" /\ pc[got[c]] # "idle"
            /\ state[got[c]] = state[c]

\* Only a call that has posted its state has SETs.
Posted ==
    \A c \in Calls :
        /\ copies[c] > 0 => post[c] # "none"
        /\ post[c] # "none" => pc[c] # "idle"
        /\ pc[c] = "idle" => state[c] = None
        /\ (post[c] # "none" \/ pc[c] \in {"posting", "waiting", "leaving"}) =>
            state[c] \in MayUse[c]

\* The inductive invariant.
IInv ==
    /\ TypeOK
    /\ Table
    /\ OnItsWay
    /\ Carried
    /\ Posted

-----------------------------------------------------------------------------
\* The table is empty and no call has begun.
LEMMA InitIInv == Init => IInv
<1> SUFFICES ASSUME Init PROVE IInv
  OBVIOUS
<1> USE ChallengerAssumption DEF Init
<1>1. TypeOK
  BY DEF TypeOK, Outcomes
<1>2. Table /\ OnItsWay /\ Carried /\ Posted
  BY DEF Table, OnItsWay, Carried, Posted
<1> QED
  BY <1>1, <1>2 DEF IInv

\* The steps of a call that leave the table and the channels alone.
LEMMA QuietIInv ==
    ASSUME IInv, NEW c \in Calls,
           \/ \E s \in States : RejectDuplicate(c, s)
           \/ PostReturns(c)
           \/ PostFails(c)
           \/ GiveUp(c)
    PROVE  IInv'
<1> USE ChallengerAssumption
        DEF RejectDuplicate, PostReturns, PostFails, GiveUp, Leave, IInv
<1>1. TypeOK'
  BY DEF TypeOK, Outcomes
<1>2. Table'
  BY DEF TypeOK, Table
<1>3. OnItsWay'
  BY DEF TypeOK, OnItsWay, Deliveries
<1>4. Carried'
  BY DEF TypeOK, Carried
<1>5. Posted'
  BY DEF TypeOK, Posted
<1> QED
  BY <1>1, <1>2, <1>3, <1>4, <1>5

\* register refuses a state that is taken, so an entry is nobody else's.
LEMMA RegisterIInv ==
    ASSUME IInv, NEW c \in Calls, NEW s \in MayUse[c], Register(c, s)
    PROVE  IInv'
<1> USE ChallengerAssumption DEF Register, IInv
<1>0. s \in States /\ pc[c] = "idle"
  OBVIOUS
<1>1. TypeOK'
  BY <1>0 DEF TypeOK
<1>2. Table'
  BY <1>0 DEF TypeOK, Table, OnItsWay, Carried, Deliveries
<1>3. OnItsWay'
  BY <1>0 DEF TypeOK, OnItsWay, Deliveries
<1>4. Carried'
  BY <1>0 DEF TypeOK, Carried
<1>5. Posted'
  BY <1>0 DEF TypeOK, Posted
<1> QED
  BY <1>1, <1>2, <1>3, <1>4, <1>5

\* wait takes the SET out of its channel.
LEMMA ReceiveIInv ==
    ASSUME IInv, NEW c \in Calls, Receive(c)
    PROVE  IInv'
<1> USE ChallengerAssumption DEF Receive, Leave, IInv
<1>1. TypeOK'
  BY DEF TypeOK, Outcomes
<1>2. Table'
  BY DEF TypeOK, Table
<1>3. OnItsWay'
  BY DEF TypeOK, OnItsWay, Deliveries
<1>4. Carried'
  BY DEF TypeOK, Carried
<1>5. Posted'
  BY DEF TypeOK, Posted
<1> QED
  BY <1>1, <1>2, <1>3, <1>4, <1>5

\* The deferred unregister deletes by state, and with it at most one entry.
LEMMA UnregisterIInv ==
    ASSUME IInv, NEW c \in Calls, Unregister(c)
    PROVE  IInv'
<1> USE ChallengerAssumption DEF Unregister, IInv
<1>0. state[c] \in States
  BY DEF TypeOK, Posted
<1>1. TypeOK'
  BY DEF TypeOK
<1>2. Table'
  BY <1>0 DEF TypeOK, Table
<1>3. OnItsWay'
  BY DEF TypeOK, OnItsWay, Deliveries
<1>4. Carried'
  BY DEF TypeOK, Carried
<1>5. Posted'
  BY DEF TypeOK, Posted
<1> QED
  BY <1>1, <1>2, <1>3, <1>4, <1>5

\* Only a state that was posted comes back in a SET.
LEMMA TransmitterIInv ==
    ASSUME IInv, NEW c \in Calls, TransmitterStep(c)
    PROVE  IInv'
<1> USE ChallengerAssumption DEF TransmitterStep, TakePost, IInv
<1>1. TypeOK'
  BY DEF TypeOK
<1>2. Table' /\ OnItsWay' /\ Carried'
  BY DEF Table, OnItsWay, Carried
<1>3. Posted'
  BY DEF TypeOK, Posted
<1> QED
  BY <1>1, <1>2, <1>3

\* intercept removes the entry in the critical section in which it finds it.
LEMMA InterceptIInv ==
    ASSUME IInv, NEW set \in Calls, Intercept(set)
    PROVE  IInv'
<1> USE ChallengerAssumption DEF Intercept, IInv
<1> DEFINE to == pending[state[set]]
<1>0. state[set] \in States /\ pc[set] # "idle"
  BY DEF TypeOK, Posted
<1>1. to \in Calls /\ to # None
  BY <1>0 DEF TypeOK
<1>2. /\ state[to] = state[set]
      /\ pc[to] \in {"posting", "waiting", "leaving"}
      /\ slot[to] = None
      /\ \A d \in matched : d.to # to
  BY <1>0, <1>1 DEF Table
<1>3. matched' = matched \cup {[set |-> set, to |-> to]}
  OBVIOUS
<1>4. [set |-> set, to |-> to] \in Deliveries
  BY <1>1 DEF Deliveries
<1>5. \A s \in States :
        pending'[s] = IF s = state[set] THEN None ELSE pending[s]
  BY <1>0 DEF TypeOK
<1> HIDE DEF to
<1>6. TypeOK'
  BY <1>0, <1>3, <1>4 DEF TypeOK
<1>7. Table'
  <2>1. \A s \in States : pending'[s] # None =>
            pending'[s] = pending[s] /\ pending[s] # to
    BY <1>0, <1>2, <1>5 DEF Table
  <2> QED
    BY <1>3, <2>1 DEF Table
<1>8. OnItsWay'
  BY <1>0, <1>2, <1>3 DEF OnItsWay
<1>9. Carried' /\ Posted'
  BY DEF Carried, Posted, TypeOK
<1> QED
  BY <1>6, <1>7, <1>8, <1>9

\* A SET without an entry goes to the application.
LEMMA PassOnIInv ==
    ASSUME IInv, NEW set \in Calls, PassOn(set)
    PROVE  IInv'
<1> USE ChallengerAssumption DEF PassOn, IInv
<1>1. TypeOK'
  BY DEF TypeOK
<1>2. Table' /\ OnItsWay' /\ Carried'
  BY DEF Table, OnItsWay, Carried
<1>3. Posted'
  BY DEF TypeOK, Posted
<1> QED
  BY <1>1, <1>2, <1>3

\* The send finds the channel empty.
LEMMA SendIInv ==
    ASSUME IInv, NEW d \in matched, Send(d)
    PROVE  IInv'
<1> USE ChallengerAssumption DEF Send, IInv
<1>0. d.to \in Calls /\ d.set \in Calls /\ d.set # None
  BY DEF TypeOK, Deliveries
<1>1. TypeOK'
  BY <1>0 DEF TypeOK
<1>2. \A c \in Calls : slot'[c] = IF c = d.to THEN d.set ELSE slot[c]
  BY <1>0 DEF TypeOK
<1>3. \A e \in matched' : e \in matched /\ e.to # d.to /\ e.to \in Calls
  BY DEF OnItsWay, TypeOK, Deliveries
<1>4. Table'
  BY <1>2, <1>3 DEF Table, TypeOK
<1>5. OnItsWay'
  BY <1>2, <1>3 DEF OnItsWay
<1>6. Carried'
  BY <1>0, <1>2 DEF Carried, OnItsWay
<1>7. Posted'
  BY DEF Posted
<1> QED
  BY <1>1, <1>4, <1>5, <1>6, <1>7

\* Every step of calls, deliveries and Transmitter keeps the invariant.
LEMMA StepIInv == IInv /\ [Next]_vars => IInv'
<1> SUFFICES ASSUME IInv, [Next]_vars PROVE IInv'
  OBVIOUS
<1>1. ASSUME NEW c \in Calls, CallStep(c) PROVE IInv'
  <2>1. ASSUME NEW s \in MayUse[c], Register(c, s) PROVE IInv'
    BY <2>1, RegisterIInv
  <2>2. ASSUME NEW s \in MayUse[c], RejectDuplicate(c, s) PROVE IInv'
    BY <2>2, QuietIInv, ChallengerAssumption
  <2>3. CASE PostReturns(c) \/ PostFails(c) \/ GiveUp(c)
    BY <2>3, QuietIInv
  <2>4. CASE Receive(c)
    BY <2>4, ReceiveIInv
  <2>5. CASE Unregister(c)
    BY <2>5, UnregisterIInv
  <2> QED
    BY <1>1, <2>1, <2>2, <2>3, <2>4, <2>5 DEF CallStep
<1>2. ASSUME NEW c \in Calls, TransmitterStep(c) PROVE IInv'
  BY <1>2, TransmitterIInv
<1>3. CASE SinkStep
  BY <1>3, InterceptIInv, PassOnIInv, SendIInv DEF SinkStep
<1>4. CASE UNCHANGED vars
  BY <1>4 DEF vars, IInv, TypeOK, Table, OnItsWay, Carried, Posted
<1> QED
  BY <1>1, <1>2, <1>3, <1>4 DEF Next

\* The invariant holds in every behaviour of the challenger.
LEMMA Inductive == Spec => []IInv
  BY InitIInv, StepIInv, PTL DEF Spec

-----------------------------------------------------------------------------
\* Every variable keeps its type.
THEOREM TypeCorrect == Spec => []TypeOK
<1>1. IInv => TypeOK
  BY DEF IInv
<1> QED
  BY <1>1, Inductive, PTL

\* The send into a waiter's channel finds it empty, and no second SET is on
\* its way to the same waiter.
THEOREM SendsNeverBlock == Spec => []SendNeverBlocks
<1>1. IInv => SendNeverBlocks
  BY DEF IInv, OnItsWay, SendNeverBlocks
<1> QED
  BY <1>1, Inductive, PTL

\* A call that is over has no entry in the table.
THEOREM SlotsDoNotLeak == Spec => []NoSlotLeaks
<1>1. IInv => NoSlotLeaks
  BY DEF IInv, Table, NoSlotLeaks
<1> QED
  BY <1>1, Inductive, PTL

\* Challenge returns a SET that carries the state of the call.
THEOREM ReturnsOwnState == Spec => []OwnState
<1>1. IInv => OwnState
  BY DEF IInv, Carried, OwnState
<1> QED
  BY <1>1, Inductive, PTL

-----------------------------------------------------------------------------
(* What a state of one's own buys.                                         *)

\* A call whose state nobody else uses stays in the table until its SET arrives.
LEMMA ReachableStep ==
    ASSUME IInv, SoleWaiterIsReachable, [Next]_vars
    PROVE  SoleWaiterIsReachable'
<1> USE ChallengerAssumption DEF IInv
<1>1. \A c \in InFlight : c \in Calls /\ state[c] \in States
  BY DEF InFlight, Posted, TypeOK
<1>2. ASSUME NEW c \in Calls, NEW s \in MayUse[c], Register(c, s)
      PROVE  SoleWaiterIsReachable'
  <2>0. s \in States /\ state[c] = None /\ pc[c] = "idle"
    BY <1>2 DEF Register, Posted
  <2> SUFFICES ASSUME NEW b \in InFlight', SoleUser(b)', ~Arrived(b)'
               PROVE  pending'[state'[b]] = b
    BY DEF SoleWaiterIsReachable
  <2>1. CASE b = c
    BY <1>2, <2>0, <2>1 DEF Register, TypeOK
  <2>2. CASE b # c
    <3>1. b \in InFlight /\ state'[b] = state[b] /\ ~Arrived(b)
      BY <1>2, <2>2 DEF Register, InFlight, Arrived, TypeOK
    <3>2. SoleUser(b)
      BY <1>1, <1>2, <2>0, <3>1 DEF Register, SoleUser, TypeOK
    <3>3. pending[state[b]] = b
      BY <3>1, <3>2 DEF SoleWaiterIsReachable
    <3>4. state[b] # s
      BY <1>2, <2>0, <2>2, <3>1 DEF SoleUser, Register, TypeOK
    <3> QED
      BY <1>1, <1>2, <2>0, <3>1, <3>3, <3>4 DEF Register, TypeOK
  <2> QED
    BY <2>1, <2>2
<1>3. ASSUME NEW c \in Calls,
             \/ \E s \in MayUse[c] : RejectDuplicate(c, s)
             \/ PostReturns(c) \/ PostFails(c) \/ Receive(c) \/ GiveUp(c)
             \/ TransmitterStep(c)
      PROVE  SoleWaiterIsReachable'
  BY <1>3
     DEF RejectDuplicate, PostReturns, PostFails, Receive, GiveUp, Leave,
         TransmitterStep, TakePost, SoleWaiterIsReachable, SoleUser, InFlight,
         Arrived, TypeOK
<1>4. ASSUME NEW c \in Calls, Unregister(c)
      PROVE  SoleWaiterIsReachable'
  <2> SUFFICES ASSUME NEW b \in InFlight', SoleUser(b)', ~Arrived(b)'
               PROVE  pending'[state'[b]] = b
    BY DEF SoleWaiterIsReachable
  <2>1. b \in InFlight /\ b # c /\ SoleUser(b) /\ ~Arrived(b)
    BY <1>4 DEF Unregister, InFlight, SoleUser, Arrived, TypeOK
  <2>2. pending[state[b]] = b /\ state[b] # state[c]
    BY <2>1 DEF SoleWaiterIsReachable, SoleUser
  <2> QED
    BY <1>1, <1>4, <2>1, <2>2 DEF Unregister, TypeOK
<1>5. ASSUME NEW set \in Calls, Intercept(set)
      PROVE  SoleWaiterIsReachable'
  <2>0. state[set] \in States
    BY <1>5 DEF Intercept, TypeOK, Posted
  <2> SUFFICES ASSUME NEW c \in InFlight', SoleUser(c)', ~Arrived(c)'
               PROVE  pending'[state'[c]] = c
    BY DEF SoleWaiterIsReachable
  <2>1. c \in InFlight /\ SoleUser(c) /\ ~Arrived(c)
    BY <1>5 DEF Intercept, InFlight, SoleUser, Arrived
  <2>2. pending[state[c]] = c
    BY <2>1 DEF SoleWaiterIsReachable
  <2>3. pending[state[set]] # c
    <3>1. [set |-> set, to |-> pending[state[set]]] \in matched'
      BY <1>5 DEF Intercept
    <3>2. \A d \in matched' : d.to # c
      BY DEF Arrived
    <3> QED
      BY <3>1, <3>2
  <2> QED
    BY <1>1, <1>5, <2>0, <2>1, <2>2, <2>3 DEF Intercept, TypeOK
<1>6. ASSUME NEW set \in Calls, PassOn(set)
      PROVE  SoleWaiterIsReachable'
  BY <1>6 DEF PassOn, SoleWaiterIsReachable, SoleUser, InFlight, Arrived
<1>7. ASSUME NEW d \in matched, Send(d)
      PROVE  SoleWaiterIsReachable'
  BY <1>1, <1>7
     DEF Send, SoleWaiterIsReachable, SoleUser, InFlight, Arrived, TypeOK,
         Deliveries
<1>8. CASE UNCHANGED vars
  BY <1>8 DEF vars, SoleWaiterIsReachable, SoleUser, InFlight, Arrived
<1> QED
  BY <1>2, <1>3, <1>4, <1>5, <1>6, <1>7, <1>8
     DEF Next, CallStep, SinkStep

\* A call in flight with a state of its own, as the library generates them,
\* is found by its SET.
THEOREM SoleWaitersAreReachable == Spec => []SoleWaiterIsReachable
<1>1. Init => SoleWaiterIsReachable
  BY DEF Init, SoleWaiterIsReachable, InFlight
<1>2. IInv /\ SoleWaiterIsReachable /\ [Next]_vars => SoleWaiterIsReachable'
  BY ReachableStep
<1> QED
  BY <1>1, <1>2, Inductive, PTL DEF Spec

\* The first SET of such a call never reaches the application.
THEOREM NeverPassedInFlight == Spec => NotPassedInFlight
<1>1. ASSUME IInv, SoleWaiterIsReachable, [Next]_vars
      PROVE  [\A c \in passed' \ passed :
                c \in InFlight /\ SoleUser(c) => Arrived(c)]_vars
  <2> SUFFICES ASSUME NEW c \in passed' \ passed, c \in InFlight, SoleUser(c)
               PROVE  Arrived(c)
    OBVIOUS
  <2>1. PassOn(c)
    BY <1>1
       DEF Next, CallStep, TransmitterStep, SinkStep, Register,
           RejectDuplicate, PostReturns, PostFails, Receive, GiveUp, Leave,
           Unregister, TakePost, Intercept, PassOn, Send, vars
  <2>2. pending[state[c]] = None /\ c \in Calls
    BY <2>1 DEF PassOn, InFlight
  <2> QED
    BY <1>1, <2>2, ChallengerAssumption DEF SoleWaiterIsReachable
<1> QED
  BY <1>1, Inductive, SoleWaitersAreReachable, PTL DEF Spec, NotPassedInFlight
=============================================================================
