---------------------------- MODULE PollDelivery ----------------------------
(***************************************************************************)
(* What poll delivery promises: the Transmitter owes every SET offered to  *)
(* it until the Receiver has consumed it, whatever requests, answers and   *)
(* restarts come in between.  Only deleting the stream cancels the debt.   *)
(***************************************************************************)
CONSTANT JTI

VARIABLES given, owed, consumed

vars == <<given, owed, consumed>>

Init ==
    /\ given = {}
    /\ owed = {}
    /\ consumed = {}

Offer(j) ==
    /\ j \notin given
    /\ given' = given \cup {j}
    /\ owed' = owed \cup {j}
    /\ UNCHANGED consumed

\* The Sink accepts the SET or refuses it for good, the first time.
Consume(j) ==
    /\ j \in given
    /\ consumed' = consumed \cup {j}
    /\ UNCHANGED <<given, owed>>

Release(settled) ==
    /\ settled \subseteq consumed
    /\ owed' = owed \ settled
    /\ UNCHANGED <<given, consumed>>

Purge ==
    /\ owed' = {}
    /\ UNCHANGED <<given, consumed>>

Next ==
    \/ \E j \in JTI : Offer(j)
    \/ \E j \in JTI : Consume(j)
    \/ \E settled \in SUBSET JTI : Release(settled)
    \/ Purge

Spec == Init /\ [][Next]_vars
=============================================================================
