----------------------------- MODULE MCIsolation -----------------------------
(***************************************************************************)
(* Isolation for TLC.                                                      *)
(***************************************************************************)
EXTENDS Isolation, TLC

CONSTANTS p1, p2

Procs == {p1, p2}
JustP1 == {p1}
SomeFail == {"wg", "output", "output6"}
=============================================================================
