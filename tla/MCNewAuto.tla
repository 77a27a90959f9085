------------------------------ MODULE MCNewAuto ------------------------------
(***************************************************************************)
(* Instances of NewAuto for TLC.  Invocations, servers and addresses are   *)
(* model values; the safety runs permute those their faults do not tell    *)
(* apart.                                                                  *)
(***************************************************************************)
EXTENDS NewAuto, TLC

CONSTANTS p1, p2, k1, k2, a1, a2

Nobody == {}
JustP1 == {p1}
Both   == {p1, p2}
TwoKeys == {k1, k2}
OneIP   == {a1}
TwoIPs  == {a1, a2}

DataSymmetry   == Permutations(TwoKeys) \cup Permutations(TwoIPs)
SafetySymmetry == Permutations(Both) \cup DataSymmetry
=============================================================================
