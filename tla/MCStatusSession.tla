-------------------------- MODULE MCStatusSession --------------------------
(***************************************************************************)
(* Values for StatusSession.  Forms and tokens are only compared and all   *)
(* properties of the run are invariants: exchanging them changes nothing.  *)
(***************************************************************************)
EXTENDS StatusSession, TLC

CONSTANTS plain, spaced, jws1, jws2

FormsV == {plain, spaced}
SETsV == {jws1, jws2}

Symmetry == Permutations(FormsV) \cup Permutations(SETsV)
=============================================================================
