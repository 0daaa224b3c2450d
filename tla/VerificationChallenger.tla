----------------------- MODULE VerificationChallenger -----------------------
(***************************************************************************)
(* receiver.VerificationChallenger: concurrent calls of Challenge, the     *)
(* table of states in flight, and WrapSink's interception of the           *)
(* verification SETs that come back over push or poll.  A SET is named by  *)
(* the call whose POST it answers; the Transmitter may deliver it any      *)
(* number of times up to MaxCopies, also before the POST has returned,     *)
(* after the call is over, or never.                                       *)
(***************************************************************************)
EXTENDS Naturals, FiniteSets

CONSTANTS
    Calls,      \* invocations of Challenge
    States,     \* state strings
    MayUse,     \* the states each call may carry: one of its own if generated
    MaxCopies,  \* bound: deliveries of one verification SET
    None        \* no call, no SET: an absent table entry, an empty channel

ASSUME ChallengerAssumption ==
    /\ MayUse \in [Calls -> SUBSET States]
    /\ MaxCopies \in Nat
    /\ None \notin Calls \cup States

VARIABLES
    pc,        \* where each call is
    state,     \* the state it carries
    pending,   \* c.pending: state -> the call whose channel it holds
    slot,      \* the one-place channel of each call
    matched,   \* intercepts between c.mu.Unlock and the channel send
    post,      \* what the Transmitter knows of the POST of each call
    copies,    \* deliveries of each SET still to come
    result,    \* what each call returned
    got,       \* the SET it returned
    passed     \* SETs handed to the downstream Sink

vars == <<pc, state, pending, slot, matched, post, copies, result, got, passed>>

Deliveries == [set : Calls, to : Calls]

Outcomes == {"none", "set", "duplicate", "post_failed", "cancelled", "timeout"}

TypeOK ==
    /\ pc \in [Calls -> {"idle", "posting", "waiting", "leaving", "done"}]
    /\ state \in [Calls -> States \cup {None}]
    /\ pending \in [States -> Calls \cup {None}]
    /\ slot \in [Calls -> Calls \cup {None}]
    /\ matched \subseteq Deliveries
    /\ post \in [Calls -> {"none", "sent", "accepted"}]
    /\ copies \in [Calls -> 0..MaxCopies]
    /\ result \in [Calls -> Outcomes]
    /\ got \in [Calls -> Calls \cup {None}]
    /\ passed \subseteq Calls

Init ==
    /\ pc = [c \in Calls |-> "idle"]
    /\ state = [c \in Calls |-> None]
    /\ pending = [s \in States |-> None]
    /\ slot = [c \in Calls |-> None]
    /\ matched = {}
    /\ post = [c \in Calls |-> "none"]
    /\ copies = [c \in Calls |-> 0]
    /\ result = [c \in Calls |-> "none"]
    /\ got = [c \in Calls |-> None]
    /\ passed = {}

-----------------------------------------------------------------------------
(* Challenge.                                                              *)

\* Mutant: the POST goes out before the state is registered.
RegisterLate(c, s) ==
    /\ pc[c] = "idle"
    /\ pending[s] = None
    /\ state' = [state EXCEPT ![c] = s]
    /\ pc' = [pc EXCEPT ![c] = "posting"]
    /\ post' = [post EXCEPT ![c] = "sent"]
    /\ UNCHANGED <<pending, slot, matched, copies, result, got, passed>>

\* The state is free: it is registered and the POST goes out.
Register(c, s) ==
    /\ pc[c] = "idle"
    /\ pending[s] = None
    /\ state' = [state EXCEPT ![c] = s]
    /\ pending' = [pending EXCEPT ![s] = c]
    /\ pc' = [pc EXCEPT ![c] = "posting"]
    /\ post' = [post EXCEPT ![c] = "sent"]
    /\ UNCHANGED <<slot, matched, copies, result, got, passed>>

\* The state is in the table: Challenge fails before its defer is set.
RejectDuplicate(c, s) ==
    /\ pc[c] = "idle"
    /\ pending[s] # None
    /\ pc' = [pc EXCEPT ![c] = "done"]
    /\ result' = [result EXCEPT ![c] = "duplicate"]
    /\ UNCHANGED <<state, pending, slot, matched, post, copies, got, passed>>

\* Mutant: the slot is released when the POST returns, not the call.
PostReturnsReleased(c) ==
    /\ pc[c] = "posting"
    /\ post[c] = "accepted"
    /\ pc' = [pc EXCEPT ![c] = "waiting"]
    /\ pending' = [pending EXCEPT ![state[c]] = None]
    /\ UNCHANGED <<state, slot, matched, post, copies, result, got, passed>>

\* postChallenge got a 2xx.
PostReturns(c) ==
    /\ pc[c] = "posting"
    /\ post[c] = "accepted"
    /\ pc' = [pc EXCEPT ![c] = "waiting"]
    /\ UNCHANGED <<state, pending, slot, matched, post, copies, result, got,
                   passed>>

Leave(c, outcome) ==
    /\ pc' = [pc EXCEPT ![c] = "leaving"]
    /\ result' = [result EXCEPT ![c] = outcome]
    /\ UNCHANGED <<state, pending, slot, matched, post, copies, passed>>

\* Mutant: the error return of postChallenge comes before the defer.
PostFailsUnreleased(c) ==
    /\ pc[c] = "posting"
    /\ pc' = [pc EXCEPT ![c] = "done"]
    /\ result' = [result EXCEPT ![c] = "post_failed"]
    /\ UNCHANGED <<state, pending, slot, matched, post, copies, got, passed>>

\* postChallenge failed; the Transmitter may have taken the POST all the
\* same, or may still take it.
PostFails(c) ==
    /\ pc[c] = "posting"
    /\ Leave(c, "post_failed")
    /\ UNCHANGED got

\* wait's select: any case that is ready may be the one chosen.
Receive(c) ==
    /\ pc[c] = "waiting"
    /\ slot[c] # None
    /\ got' = [got EXCEPT ![c] = slot[c]]
    /\ Leave(c, "set")

GiveUp(c) ==
    /\ pc[c] = "waiting"
    /\ \E outcome \in {"cancelled", "timeout"} : Leave(c, outcome)
    /\ UNCHANGED got

\* Mutant: a cancelled call returns without its deferred unregister.
UnregisterUnlessCancelled(c) ==
    /\ pc[c] = "leaving"
    /\ pending' = IF result[c] = "cancelled" THEN pending
                  ELSE [pending EXCEPT ![state[c]] = None]
    /\ pc' = [pc EXCEPT ![c] = "done"]
    /\ UNCHANGED <<state, slot, matched, post, copies, result, got, passed>>

\* The deferred unregister deletes by state, whoever the entry belongs to.
Unregister(c) ==
    /\ pc[c] = "leaving"
    /\ pending' = [pending EXCEPT ![state[c]] = None]
    /\ pc' = [pc EXCEPT ![c] = "done"]
    /\ UNCHANGED <<state, slot, matched, post, copies, result, got, passed>>

-----------------------------------------------------------------------------
(* The Transmitter (VerificationHandler and delivery): it takes the POST   *)
(* and has n deliveries of the SET to make.                                *)

TakePost(c, n) ==
    /\ post[c] = "sent"
    /\ post' = [post EXCEPT ![c] = "accepted"]
    /\ copies' = [copies EXCEPT ![c] = n]
    /\ UNCHANGED <<pc, state, pending, slot, matched, result, got, passed>>

-----------------------------------------------------------------------------
(* WrapSink and intercept.                                                 *)

\* Mutant: the entry is looked up but left in the table.
InterceptKeepingEntry(set) ==
    /\ copies[set] > 0
    /\ copies' = [copies EXCEPT ![set] = @ - 1]
    /\ pending[state[set]] # None
    /\ matched' = matched \cup {[set |-> set, to |-> pending[state[set]]]}
    /\ UNCHANGED <<pc, state, pending, slot, post, result, got, passed>>

\* Mutant: any call in flight is taken for the one the SET answers.
InterceptAnyState(set) ==
    /\ copies[set] > 0
    /\ copies' = [copies EXCEPT ![set] = @ - 1]
    /\ \E s \in States :
        /\ pending[s] # None
        /\ pending' = [pending EXCEPT ![s] = None]
        /\ matched' = matched \cup {[set |-> set, to |-> pending[s]]}
    /\ UNCHANGED <<pc, state, slot, post, result, got, passed>>

\* The state of the SET is in the table: its entry is removed under the lock.
Intercept(set) ==
    /\ copies[set] > 0
    /\ copies' = [copies EXCEPT ![set] = @ - 1]
    /\ pending[state[set]] # None
    /\ pending' = [pending EXCEPT ![state[set]] = None]
    /\ matched' = matched \cup {[set |-> set, to |-> pending[state[set]]]}
    /\ UNCHANGED <<pc, state, slot, post, result, got, passed>>

\* Nobody waits for the state: the SET goes downstream.
PassOn(set) ==
    /\ copies[set] > 0
    /\ copies' = [copies EXCEPT ![set] = @ - 1]
    /\ pending[state[set]] = None
    /\ passed' = passed \cup {set}
    /\ UNCHANGED <<pc, state, pending, slot, matched, post, result, got>>

\* Mutant: the channel has no buffer, so the waiter must be there.
SendUnbuffered(d) ==
    /\ pc[d.to] = "waiting"
    /\ slot' = [slot EXCEPT ![d.to] = d.set]
    /\ matched' = matched \ {d}
    /\ UNCHANGED <<pc, state, pending, post, copies, result, got, passed>>

\* The send on the waiter's channel, after the lock is released.
Send(d) ==
    /\ slot[d.to] = None
    /\ slot' = [slot EXCEPT ![d.to] = d.set]
    /\ matched' = matched \ {d}
    /\ UNCHANGED <<pc, state, pending, post, copies, result, got, passed>>

-----------------------------------------------------------------------------
CallStep(c) ==
    \/ \E s \in MayUse[c] : Register(c, s) \/ RejectDuplicate(c, s)
    \/ PostReturns(c)
    \/ PostFails(c)
    \/ Receive(c)
    \/ GiveUp(c)
    \/ Unregister(c)

TransmitterStep(c) == \E n \in 0..MaxCopies : TakePost(c, n)

SinkStep ==
    \/ \E set \in Calls : Intercept(set) \/ PassOn(set)
    \/ \E d \in matched : Send(d)

Next ==
    \/ \E c \in Calls : CallStep(c) \/ TransmitterStep(c)
    \/ SinkStep

Spec == Init /\ [][Next]_vars

(* The timer of wait fires, and goroutines that can run do.  Nothing is     *)
(* assumed of the POST: neither http.DefaultClient nor WithTimeout ends it. *)
Fairness ==
    /\ \A c \in Calls :
        /\ WF_vars(Receive(c) \/ GiveUp(c))
        /\ WF_vars(Unregister(c))
    /\ WF_vars(\E d \in matched : Send(d))

FairSpec == Spec /\ Fairness

-----------------------------------------------------------------------------
InFlight == {c \in Calls : pc[c] \in {"posting", "waiting"}}

\* What has come for a call: on its way to its channel, in it, or returned.
Arrived(c) == {d \in matched : d.to = c} # {} \/ slot[c] # None

\* "Only the sender writes to it, so this send never blocks"
\* (verification.go:437-438): at most one SET is ever matched to a call, so
\* its channel has room when the send comes.
SendNeverBlocks ==
    \A d \in matched :
        /\ slot[d.to] = None
        /\ \A e \in matched : e.to = d.to => e = d

\* A call that is over holds no slot of the table: every path out of
\* Challenge, and interception, leaves the entry removed.
NoSlotLeaks ==
    \A s \in States :
        pending[s] # None => pc[pending[s]] \notin {"idle", "done"}

\* Challenge returns only a SET that carries its own state, however calls
\* with the same state overlap and SETs are repeated.
OwnState ==
    \A c \in Calls :
        result[c] = "set" => got[c] # None /\ state[got[c]] = state[c]

\* Nobody else has carried the state of a call: so it is with every state
\* the library generates.
SoleUser(c) == \A d \in Calls \ {c} : state[d] # state[c]

\* A call in flight that has got nothing can be found by its SET, at any
\* moment from before the POST goes out, unless it shares its state.
SoleWaiterIsReachable ==
    \A c \in InFlight : SoleUser(c) => pending[state[c]] = c \/ Arrived(c)

\* A SET goes to the application only when nobody waits for it: while the
\* call it answers is in flight and has got nothing, it is intercepted, even
\* if it overtakes the response of the POST.
NotPassedInFlight ==
    [][\A c \in passed' \ passed :
        c \in InFlight /\ SoleUser(c) => Arrived(c)]_vars

\* Once its POST has returned, a call gives its slot back, whatever ends it
\* and whether or not its SET ever comes.
SlotsReleased ==
    \A c \in Calls, s \in States :
        (pending[s] = c /\ pc[c] # "posting") ~> (pending[s] # c)

\* A SET that is intercepted reaches the channel of its waiter.
MatchedArrives ==
    \A c \in Calls : ({d \in matched : d.to = c} # {}) ~> (slot[c] # None)

-----------------------------------------------------------------------------
\* "if ... a state matches a currently in-flight challenge, the payload is
\* delivered to that challenge's waiter" (verification.go:385-390): a call in
\* flight that has got nothing can still be found in the table.
WaiterIsReachable ==
    \A c \in InFlight : pending[state[c]] = c \/ Arrived(c)
=============================================================================
