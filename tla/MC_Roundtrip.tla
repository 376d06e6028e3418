---------------------------- MODULE MC_Roundtrip ----------------------------
(***************************************************************************)
(* Few draws: the upper end of the range, and the lower end when it is not *)
(* above zero.                                                             *)
(***************************************************************************)
EXTENDS Roundtrip

MC_RandomInRange(min, max) == {max} \cup (IF min <= 0 THEN {min} ELSE {})
=============================================================================
