----------------------------- MODULE MCRegistry -----------------------------
(***************************************************************************)
(* Registry for TLC.                                                       *)
(***************************************************************************)
EXTENDS Registry, TLC

CONSTANTS p1, p2, p3, r1

Procs   == {p1, p2, p3}
Records == {r1}
=============================================================================
