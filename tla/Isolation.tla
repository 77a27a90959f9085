------------------------------ MODULE Isolation ------------------------------
(***************************************************************************)
(* What keeps a VM off the networks around it.  There are two barriers:    *)
(*   in the guest, the kill-switch: the nftables table lgkill, which the   *)
(*     boot script loads command by command after wg-quick                 *)
(*     (nspawn.Start, vpn.KillSwitchScriptHardened);                       *)
(*   on the host, the table inet lookingglass, the NAT table lg_nat and an *)
(*     allow in UFW's forward chain (internal/network), shared by all VMs. *)
(* Every invocation deletes the two host tables and loads them again in    *)
(* nspawn.Create, while the VMs of the others run; the cycle is under an   *)
(* flock, the UFW allow is not.  No command of the boot script is checked: *)
(* an invocation waits for the table lgkill only, not for what is in it.   *)
(*                                                                         *)
(* How the invocations get here, and what they do with a VM that is ready, *)
(* is in module NewAuto.                                                   *)
(***************************************************************************)
EXTENDS Naturals

CONSTANTS
  Proc,      \* invocations of `new`, and the VMs they make
  None,      \* nobody
  Busy,      \* VMs in which something sends, or takes the tunnel down
  MayFail,   \* commands of the boot script that may fail
  BridgeNF   \* whether bridged packets pass the host's nftables; the code
             \* neither sets it nor asks

ASSUME NobodyAssumption == None \notin Proc
ASSUME BridgeAssumption == BridgeNF \in BOOLEAN

VARIABLES
  step,      \* where an invocation is
  lock,      \* who holds the flock on lg-nft.lock
  filter,    \* the table inet lookingglass is loaded
  nat,       \* the table ip lg_nat is loaded
  allow,     \* rules for the subnet in ufw-user-forward
  guest,     \* the VM of an invocation
  inUse,     \* VMs whose kill-switch was seen, and that run
  conns,     \* connections of the VMs in use
  \* history, for properties only
  lost,      \* an ApplyFilter ended between its deletes and its load
  unchained  \* VMs taken for ready without their chain output: not loaded yet, or refused

host == <<lock, filter, nat, allow, lost>>
vms  == <<guest, inUse, conns, unchained>>
vars == <<step, host, vms>>

Locked == {"delete", "delete_nat", "load"}
Step   == {"bridge", "lock"} \cup Locked \cup {"list", "insert", "start", "wait", "ready",
           "over",    \* torn down
           "dead"}    \* killed: whatever it made stays

-----------------------------------------------------------------------------
(***************************************************************************)
(* The guest.  Its chains are output and output6, both on the output hook, *)
(* both with the policy drop, so that a packet has to pass each of them    *)
(* that exists.  The drop rules of the script come after every accept and  *)
(* decide nothing the policy would not; accepts for loopback concern no    *)
(* packet that leaves the guest.  "tunnel" stands for two accepts, of the  *)
(* packets that go into lgwg0 and, by their mark, of those lgwg0 sends.    *)
(***************************************************************************)
Chain == {"output", "output6"}
Rule  == {"tunnel", "est"}

\* The commands of the boot script, in order, that make or break the barrier.
Script == {"wg", "table", "output", "output rules", "output6", "output6 rules"}

Guest == [at     : {"off", "up"} \cup Script,
          wg     : BOOLEAN,              \* lgwg0 and its routes
          table  : BOOLEAN,              \* table inet lgkill
          chains : SUBSET Chain,
          rules  : [Chain -> SUBSET Rule]]

Off     == [at |-> "off", wg |-> FALSE, table |-> FALSE, chains |-> {},
            rules |-> [c \in Chain |-> {}]]
Booting == [Off EXCEPT !.at = "wg"]
Runs(v) == guest[v].at # "off"

\* A connection: of which VM, to where, from which of its addresses, and
\* through which interface it left.
Dst  == {"public", "lan", "host", "peer"}
Conn == [vm : Proc, dst : Dst, src : {"guest", "tunnel"}, oif : {"host0", "lgwg0"}]

\* wg-quick sends everything through lgwg0 but what is on the bridge's subnet.
Route(v, d) == IF guest[v].wg /\ d \in {"public", "lan"} THEN "lgwg0" ELSE "host0"

\* What v may try to send: something new, from the address of the interface
\* it leaves by, or more of a connection it has, along the route of the day.
Packets(v) ==
  {f \in Conn : /\ f.vm = v /\ f.oif = Route(v, f.dst)
                /\ \/ f.src = (IF f.oif = "lgwg0" THEN "tunnel" ELSE "guest")
                   \/ \E g \in conns : g.vm = v /\ g.dst = f.dst /\ g.src = f.src}

Known(f) == \E g \in conns : g.vm = f.vm /\ g.dst = f.dst /\ g.src = f.src

\* Mutant of GuestPasses: the accept for the tunnel names no interface.
GuestPassesAny(f) ==
  \A c \in guest[f.vm].chains :
    \/ "tunnel" \in guest[f.vm].rules[c]
    \/ "est" \in guest[f.vm].rules[c] /\ Known(f)

\* The kill-switch lets f out.
GuestPasses(f) ==
  \A c \in guest[f.vm].chains :
    \/ "tunnel" \in guest[f.vm].rules[c] /\ f.oif = "lgwg0"
    \/ "est" \in guest[f.vm].rules[c] /\ Known(f)

-----------------------------------------------------------------------------
(***************************************************************************)
(* The host.  UFW's own policy is to drop what is forwarded; established   *)
(* connections pass both rulesets.                                         *)
(***************************************************************************)

\* Mutant of FilterPasses: the accept of the guests comes before the drops.
FilterPassesGuests(f) == TRUE

\* Chain forward of inet lookingglass.
FilterPasses(f) ==
  ~filter \/ f \in conns \/ ~(f.src = "guest" /\ f.dst \in {"peer", "lan"})

UfwPasses(f) == f \in conns \/ (allow > 0 /\ f.src = "guest")

\* What is for the host itself meets the chain input of inet lookingglass;
\* the rest is forwarded, but between guests only if BridgeNF.
HostPasses(f) ==
  \/ f.dst = "host" /\ ~(filter /\ f.src = "guest")
  \/ f.dst = "peer" /\ ~BridgeNF
  \/ f.dst # "host" /\ FilterPasses(f) /\ UfwPasses(f)

-----------------------------------------------------------------------------
TypeOK ==
  /\ step \in [Proc -> Step] /\ lock \in Proc \cup {None}
  /\ filter \in BOOLEAN /\ nat \in BOOLEAN /\ allow \in Nat /\ lost \in BOOLEAN
  /\ guest \in [Proc -> Guest] /\ conns \in SUBSET Conn
  /\ inUse \in SUBSET Proc /\ unchained \in SUBSET Proc
  /\ \A v \in Proc :
       /\ guest[v].chains # {} => guest[v].table
       /\ \A c \in Chain \ guest[v].chains : guest[v].rules[c] = {}

Init ==
  /\ step = [p \in Proc |-> "bridge"] /\ lock = None
  /\ filter = FALSE /\ nat = FALSE /\ allow = 0 /\ lost = FALSE
  /\ guest = [p \in Proc |-> Off] /\ conns = {} /\ inUse = {} /\ unchained = {}

Go(p, from, to) == step[p] = from /\ step' = [step EXCEPT ![p] = to]

\* p is out of ApplyFilter by a return or its death: the flock is free.
Unlock(p) ==
  /\ lock' = IF lock = p THEN None ELSE lock
  /\ lost' = (lost \/ step[p] \in {"delete_nat", "load"})

EnsureBridge(p) == Go(p, "bridge", "lock") /\ UNCHANGED <<host, vms>>

\* Mutant of Lock: the cycle is not serialized.
LockNothing(p) ==
  /\ Go(p, "lock", "delete")
  /\ UNCHANGED <<host, vms>>

\* ApplyFilter, with a flock that waits.
Lock(p) ==
  /\ lock = None /\ Go(p, "lock", "delete") /\ lock' = p
  /\ UNCHANGED <<filter, nat, allow, lost, vms>>

DeleteFilter(p) ==
  /\ Go(p, "delete", "delete_nat") /\ filter' = FALSE
  /\ UNCHANGED <<lock, nat, allow, lost, vms>>

DeleteNat(p) ==
  /\ Go(p, "delete_nat", "load") /\ nat' = FALSE
  /\ UNCHANGED <<lock, filter, allow, lost, vms>>

\* Mutant of Load: the deferred unlock is missing.
LoadKeepsLock(p) ==
  /\ ~filter /\ Go(p, "load", "list")
  /\ filter' = TRUE /\ nat' = TRUE /\ lost' = FALSE
  /\ UNCHANGED <<lock, allow, vms>>

\* nft -f loads both tables or none.  Its sets are constant: where the table
\* exists they are busy.
Load(p) ==
  /\ ~filter /\ Go(p, "load", "list")
  /\ filter' = TRUE /\ nat' = TRUE /\ lock' = None /\ lost' = FALSE
  /\ UNCHANGED <<allow, vms>>

\* AllowForward looks for the subnet ...
ListForward(p) ==
  /\ Go(p, "list", IF allow > 0 THEN "start" ELSE "insert")
  /\ UNCHANGED <<host, vms>>

\* Mutant of InsertForward: the rule goes to another chain.
InsertElsewhere(p) ==
  /\ Go(p, "insert", "start")
  /\ UNCHANGED <<host, vms>>

\* ... and inserts a rule if it saw none, once more if another did meanwhile.
InsertForward(p) ==
  /\ Go(p, "insert", "start") /\ allow' = allow + 1
  /\ UNCHANGED <<lock, filter, nat, lost, vms>>

\* ip link, the lock or the rules file, nft -f or nft insert fails, and with it
\* nspawn.Create and newAuto.
CreateFails(p) ==
  /\ step[p] \in {"bridge", "lock", "delete", "load", "insert"}
  /\ step' = [step EXCEPT ![p] = "over"] /\ Unlock(p)
  /\ UNCHANGED <<filter, nat, allow, vms>>

Start(p) ==
  /\ Go(p, "start", "wait") /\ guest' = [guest EXCEPT ![p] = Booting]
  /\ UNCHANGED <<host, inUse, conns, unchained>>

\* guestKillSwitch lists the TABLE.
KillSwitchOK(p) ==
  /\ guest[p].table /\ Go(p, "wait", "ready")
  /\ inUse' = inUse \cup {p}
  /\ unchained' = IF "output" \in guest[p].chains THEN unchained ELSE unchained \cup {p}
  /\ UNCHANGED <<host, guest, conns>>

PowerOff(p) ==
  /\ guest' = [guest EXCEPT ![p] = Off]
  /\ inUse' = inUse \ {p} /\ unchained' = unchained \ {p}
  /\ conns' = {f \in conns : f.vm # p}

\* The attempt failed, and the next one creates everything again, or p is done.
Stop(p) ==
  /\ step[p] \in {"wait", "ready"}
  /\ \E to \in {"bridge", "over"} : step' = [step EXCEPT ![p] = to]
  /\ PowerOff(p)
  /\ UNCHANGED host

\* SIGKILL: the flock goes with the process, its VM stays.
Die(p) ==
  /\ step[p] \notin {"over", "dead"}
  /\ step' = [step EXCEPT ![p] = "dead"] /\ Unlock(p)
  /\ UNCHANGED <<filter, nat, allow, vms>>

-----------------------------------------------------------------------------
Outcome(command) == IF command \in MayFail THEN BOOLEAN ELSE {TRUE}

Becomes(v, g) ==
  /\ guest' = [guest EXCEPT ![v] = g]
  /\ UNCHANGED <<step, host, inUse, conns, unchained>>

\* Mutant of WgQuick: a semicolon for the &&.
WgQuickThen(v) ==
  /\ guest[v].at = "wg"
  /\ \E ok \in Outcome("wg") : Becomes(v, [guest[v] EXCEPT !.wg = ok, !.at = "table"])

\* wg-quick up lgwg0.conf && { ... }: all the rest depends on it.
WgQuick(v) ==
  /\ guest[v].at = "wg"
  /\ \E ok \in Outcome("wg") :
       Becomes(v, [guest[v] EXCEPT !.wg = ok, !.at = IF ok THEN "table" ELSE "up"])

AddTable(v) ==
  /\ guest[v].at = "table"
  /\ \E ok \in Outcome("table") :
       Becomes(v, [guest[v] EXCEPT !.table = ok, !.at = "output"])

\* A chain needs its table.
AddChain(v) ==
  /\ guest[v].at \in Chain
  /\ \E ok \in Outcome(guest[v].at) :
       Becomes(v, [guest[v] EXCEPT
                     !.chains = IF ok /\ guest[v].table THEN @ \cup {guest[v].at} ELSE @,
                     !.at = IF @ = "output" THEN "output rules" ELSE "output6 rules"])

\* Mutant of AddRules: a failed `nft add chain` goes unnoticed.
AddRulesAnyway(v) ==
  \E c \in Chain, added \in SUBSET Rule :
    /\ guest[v].at = (IF c = "output" THEN "output rules" ELSE "output6 rules")
    /\ added # Rule => guest[v].at \in MayFail
    /\ Becomes(v, [guest[v] EXCEPT
                     !.rules[c] = added,
                     !.at = IF c = "output" THEN "output6" ELSE "up"])

\* The rules of a chain, which need the chain; each of them may fail.
AddRules(v) ==
  \E c \in Chain, added \in SUBSET Rule :
    /\ guest[v].at = (IF c = "output" THEN "output rules" ELSE "output6 rules")
    /\ added # Rule => guest[v].at \in MayFail
    /\ Becomes(v, [guest[v] EXCEPT
                     !.rules[c] = IF c \in guest[v].chains THEN added ELSE @,
                     !.at = IF c = "output" THEN "output6" ELSE "up"])

\* lgwg0 goes, and its routes with it.
TunnelLost(v) ==
  /\ v \in inUse \cap Busy /\ guest[v].wg
  /\ Becomes(v, [guest[v] EXCEPT !.wg = FALSE])

Send(v) ==
  /\ v \in inUse \cap Busy
  /\ \E f \in Packets(v) :
       /\ GuestPasses(f) /\ (f.oif = "lgwg0" \/ HostPasses(f))
       /\ conns' = conns \cup {f}
  /\ UNCHANGED <<step, host, guest, inUse, unchained>>

-----------------------------------------------------------------------------
CreateStep(p) ==
  EnsureBridge(p) \/ DeleteFilter(p) \/ DeleteNat(p) \/ Load(p)
    \/ ListForward(p) \/ InsertForward(p)

ProcStep(p) ==
  CreateStep(p) \/ Lock(p) \/ CreateFails(p) \/ Start(p) \/ KillSwitchOK(p) \/ Stop(p) \/ Die(p)

GuestStep(v) ==
  WgQuick(v) \/ AddTable(v) \/ AddChain(v) \/ AddRules(v) \/ TunnelLost(v) \/ Send(v)

Next == \E p \in Proc : ProcStep(p) \/ GuestStep(p)

Spec == Init /\ [][Next]_vars

\* The commands of Create end, and the kernel serves those who wait for a
\* flock in turn.  Nothing has to succeed in the guest.
Fairness == \A p \in Proc : WF_vars(CreateStep(p)) /\ SF_vars(Lock(p))
FairSpec == Spec /\ Fairness

-----------------------------------------------------------------------------
\* network.go:101-107, "two processes can run ApplyFilter at the same instant":
\* no load finds the table another invocation has loaded, or lost its own to a
\* delete of theirs; the cycle of deletes and load is one invocation's alone.
NeverBusy == \A p \in Proc : step[p] = "load" => ~filter /\ ~nat

\* Out of the cycle the shared tables are there for every VM that runs, whoever
\* has deleted and loaded them since, and so is the way out for its tunnel:
\* unless an invocation failed, or died, between its deletes and its load.
FilterUp ==
  \A v \in Proc : Runs(v) /\ lock = None /\ ~lost => filter /\ nat /\ allow > 0

\* vpn.go:489-491, "there is no fallback to the host network": whatever rules failed
\* to load, the chain output6 too, and whatever becomes of the tunnel and of the
\* connections in it, nothing leaves a VM in use but through lgwg0 if its chain
\* output was there when its table was seen.  Of a VM without, because the poll
\* came before it or because nft refused it for good (vpn.go:512), it says nothing:
\* the poll (main.go:472) looks for the table alone.
NoFallback == \A f \in conns : f.oif = "host0" => f.vm \in unchained

\* network.go:152, "ranges an env must never reach": a connection to the LAN or
\* the host begins only while both barriers are down at once, the guest without
\* any chain and the host between a delete and a load.
TwoBarriers ==
  [][\A f \in conns' \ conns :
       f.dst \in {"lan", "host"} /\ f.oif = "host0" =>
         guest[f.vm].chains = {} /\ ~filter]_vars

\* A guest as newAuto sees it.
State(g) ==
  CASE g.at = "off" -> "off"
    [] g.at = "wg" -> "boot"
    [] g.at \notin {"off", "wg"} /\ ~g.table -> IF g.wg THEN "tunnel" ELSE "open"
    [] g.at \notin {"off", "wg"} /\ g.table -> IF g.chains = {} THEN "table" ELSE "armed"

\* The boot script, whatever fails in it, is the machine NewAuto waits for: the
\* table means that wg-quick came first and succeeded, and neither it nor the
\* chains go before the VM does.
Life == INSTANCE Machine WITH vm <- [v \in Proc |-> State(guest[v])]
LifeCycle == Life!Spec

\* Create ends for everybody, however many wait for the flock and whoever dies
\* or fails with it.
CreateEnds ==
  \A p \in Proc :
    step[p] = "lock" ~> step[p] \in {"start", "wait", "ready", "over", "dead"}
=============================================================================
