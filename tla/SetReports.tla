----------------------------- MODULE SetReports -----------------------------
(***************************************************************************)
(* The vocabulary the two ends of RFC 8936 poll delivery share: SETs by    *)
(* their JTI and the setErrs map of a poll request.                        *)
(*                                                                         *)
(* A JTI stands for the SET it names; JWS text and payload are left out.   *)
(* JTIs are numbers so that the key order of the JSON object a             *)
(* PollResponse is encoded as (ascending) can be spoken about.             *)
(***************************************************************************)
EXTENDS Naturals

CONSTANT JTI

ASSUME JTIAssumption == JTI \subseteq Nat

\* A setErrs map is a total function: "none" is a key the map does not have.
Codes == {"none", "invalid_set", "delivery_failed"}

Reports == [JTI -> Codes]

NoErrs == [j \in JTI |-> "none"]

\* Mutant: the map of the request replaces what was on record.
OverlayDropsOld(old, new) == new

\* A later report of a JTI replaces an earlier one, other keys stay.
Overlay(old, new) ==
    [j \in JTI |-> IF new[j] = "none" THEN old[j] ELSE new[j]]
=============================================================================
