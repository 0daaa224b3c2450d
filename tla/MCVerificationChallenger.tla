---------------------- MODULE MCVerificationChallenger ----------------------
(* Instances of VerificationChallenger for TLC. *)
EXTENDS VerificationChallenger

CONSTANTS c1, c2, s1, s2

TwoCalls == {c1, c2}
TwoStates == {s1, s2}

\* Either call may carry either state: with WithState they may collide, and
\* the behaviours where they do not are those of generated states.
Shared == [c \in Calls |-> States]
=============================================================================
