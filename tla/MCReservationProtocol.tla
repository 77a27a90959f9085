----------------------- MODULE MCReservationProtocol -----------------------
(***************************************************************************)
(* ReservationProtocol for TLC: one unit of the clock is five minutes,     *)
(* so that the TTLs have the code's ratio and a claim lives for two.       *)
(***************************************************************************)
EXTENDS ReservationProtocol, TLC

CONSTANTS p1, p2, p3, k1

Procs == {p1, p2, p3}
Keys  == {k1}
Symmetry == Permutations(Procs)
=============================================================================
