----------------------------- MODULE MCAllocator -----------------------------
(***************************************************************************)
(* Allocator for TLC: a new host, and one that has handed out 7 numbers;   *)
(* with three addresses, so that they are given again.                     *)
(***************************************************************************)
EXTENDS Allocator, TLC

CONSTANTS s1, s2, s3

Slots == {s1, s2, s3}
NewAndOldHost == {0, 7}
Symmetry == Permutations(Slots)
=============================================================================
