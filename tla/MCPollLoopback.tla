--------------------------- MODULE MCPollLoopback ---------------------------
(* Instances of PollLoopback for TLC. *)
EXTENDS PollLoopback

TwoSETs == 1..2
ThreeSETs == 1..3
AllOutcomes == Answers
Terminal == {"accept", "permanent"}
AllFaults == FaultKinds
CancelOnly == {"cancel"}
=============================================================================
