------------------------------- MODULE Machine -------------------------------
(***************************************************************************)
(* The life of a VM, as far as newAuto can tell: systemd-nspawn starts it  *)
(* (nspawn.Start), its boot script brings the tunnel up with wg-quick and  *)
(* then loads the kill-switch (vpn.KillSwitchScriptHardened), and it is    *)
(* stopped or dies.  The script goes one way, and a machine is not started *)
(* before it is off.                                                       *)
(*                                                                         *)
(* Isolation, which has the commands of the script and what each of them   *)
(* leaves, implements it: what newAuto waits for is what the script does.  *)
(* NewAuto has the same states of a VM.                                    *)
(***************************************************************************)
CONSTANT Proc   \* the VMs

VARIABLE vm     \* how far each of them is

VM == {"off",
       "boot",     \* before wg-quick
       "open",     \* wg-quick failed, and the script stops: no tunnel
       "tunnel",   \* wg-quick is done
       "table",    \* the table lgkill is there, with no chain in it
       "armed"}    \* and with a chain

Init == vm = [p \in Proc |-> "off"]

Becomes(p, from, to) == vm[p] = from /\ vm' = [vm EXCEPT ![p] = to]

Start(p) == Becomes(p, "off", "boot")

\* wg-quick up && { ... }
WgQuick(p) == \E up \in {"tunnel", "open"} : Becomes(p, "boot", up)

AddTable(p) == Becomes(p, "tunnel", "table")

AddChain(p) == Becomes(p, "table", "armed")

Stop(p) == vm' = [vm EXCEPT ![p] = "off"]

Next == \E p \in Proc : Start(p) \/ WgQuick(p) \/ AddTable(p) \/ AddChain(p) \/ Stop(p)

Spec == Init /\ [][Next]_vm
=============================================================================
