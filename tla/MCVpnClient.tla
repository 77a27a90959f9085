----------------------------- MODULE MCVpnClient -----------------------------
(***************************************************************************)
(* VpnClient for TLC: two servers in the preferred country, none in the    *)
(* fallback.  The VM that is active throughout lets both processes collide *)
(* on one server, one of them after its claim has lapsed, and mark it.     *)
(***************************************************************************)
EXTENDS VpnClient, TLC

CONSTANTS p1, p2, k1, k2, a4, a6

Procs == {p1, p2}
Keys  == {k1, k2}
Place == (k1 :> 1) @@ (k2 :> 1)
OneV4 == {a4}
OneV6 == {a6}
OneOther == {[v4 |-> None, v6 |-> a6]}
=============================================================================
