--------------------------- MODULE IsolationProofs ---------------------------
(***************************************************************************)
(* Proofs about Isolation, for any number of invocations, whatever part of *)
(* the boot script may fail, and whether bridged packets are filtered or   *)
(* not: type correctness, NeverBusy, FilterUp, NoFallback, TwoBarriers,    *)
(* and that the guests live as Machine has it.                             *)
(*                                                                         *)
(* The host's half of the invariant says who is in the cycle (CycleInv)    *)
(* and what stays loaded outside it (UpInv); the guest's half what a VM    *)
(* must have had loaded when it was seen (GuestInv), and from where to     *)
(* where its connections can be (ConnInv).                                 *)
(***************************************************************************)
EXTENDS Isolation, TLAPS

\* Only the holder of the flock is in the cycle, and what it has deleted is gone.
CycleInv ==
  \A p \in Proc :
    /\ step[p] \in Locked <=> lock = p
    /\ step[p] \in {"delete_nat", "load"} => ~filter
    /\ step[p] = "load" => ~nat

\* An invocation that has left ApplyFilter with success, or its VM.
Loaded(p) == step[p] \in {"list", "insert", "start", "wait", "ready"} \/ Runs(p)

\* The tables are there unless somebody is between a delete and the load; the
\* UFW allow is there for good.
UpInv ==
  \A p \in Proc :
    /\ Loaded(p) /\ ~lost /\ (\A q \in Proc : step[q] \notin {"delete_nat", "load"})
         => filter /\ nat
    /\ step[p] \in {"start", "wait", "ready"} \/ Runs(p) => allow > 0

\* A VM in use has its table, so its script is past wg-quick; and its chain,
\* unless it was taken into use without one.
GuestInv ==
  \A v \in inUse :
    /\ guest[v].table
    /\ v \in unchained \/ "output" \in guest[v].chains

\* A script that has not come to the table has not loaded it, and an invocation
\* that has not come to Start has no script that runs.
ScriptInv ==
  \A v \in Proc :
    /\ guest[v].at \in {"off", "wg", "table"} => ~guest[v].table
    /\ step[v] \notin {"wait", "ready", "dead"} => ~Runs(v)

\* Where a connection comes from and goes to.
ConnInv ==
  \A f \in conns :
    /\ f.vm \in inUse
    /\ f.oif = "host0" => f.vm \in unchained
    /\ f.src = "guest" => f.oif = "host0"
    /\ f.src = "tunnel" => f.dst \in {"public", "lan"}
    /\ f.oif = "host0" /\ f.dst \in {"public", "lan"} => ~guest[f.vm].wg

Safe == TypeOK /\ CycleInv /\ UpInv /\ GuestInv /\ ScriptInv /\ ConnInv

-----------------------------------------------------------------------------
LEMMA OffOK ==
  /\ Off \in Guest /\ Booting \in Guest
  /\ Off.at = "off" /\ ~Off.table /\ Off.chains = {} /\ ~Off.wg
  /\ \A c \in Chain : Off.rules[c] = {} /\ Booting.rules[c] = {}
  /\ Booting.at = "wg" /\ ~Booting.table /\ Booting.chains = {}
  BY DEF Off, Booting, Guest, Script

LEMMA InitSafe == Init => Safe
  <1> SUFFICES ASSUME Init PROVE Safe
    OBVIOUS
  <1> USE DEF Init
  <1>1. TypeOK
    BY OffOK DEF TypeOK, Step
  <1>2. \A v \in Proc : ~Runs(v)
    BY OffOK DEF Runs
  <1>3. CycleInv
    BY NobodyAssumption DEF CycleInv, Locked
  <1>4. UpInv
    BY <1>2 DEF UpInv, Loaded
  <1>5. GuestInv /\ ScriptInv /\ ConnInv
    BY <1>2, OffOK DEF GuestInv, ScriptInv, ConnInv
  <1> QED
    BY <1>1, <1>3, <1>4, <1>5 DEF Safe

\* What one command of the boot script does to the VM.
ScriptStep(g, h) ==
  /\ g.at \in Script /\ h \in Guest /\ h.at \notin {"off", "wg"}
  /\ h.at = "table" => ~h.table /\ h.wg
  /\ g.at = "table" \/ h.table = g.table
  /\ g.at = "wg" \/ h.wg = g.wg
  /\ g.chains \subseteq h.chains /\ (h.chains # {} => h.table)
  /\ \A c \in Chain \ h.chains : h.rules[c] = {}

LEMMA ScriptSteps ==
  ASSUME TypeOK, ScriptInv, NEW v \in Proc,
         WgQuick(v) \/ AddTable(v) \/ AddChain(v) \/ AddRules(v)
  PROVE  /\ \E h : guest' = [guest EXCEPT ![v] = h] /\ ScriptStep(guest[v], h)
         /\ UNCHANGED <<step, host, inUse, conns, unchained>>
  <1> DEFINE g == guest[v]
  <1>1. /\ g \in Guest /\ (g.chains # {} => g.table)
        /\ \A c \in Chain \ g.chains : g.rules[c] = {}
        /\ g.at \in {"off", "wg", "table"} => ~g.table
    BY DEF TypeOK, ScriptInv
  <1>2. /\ g.at \in {"off", "up"} \cup Script /\ g.wg \in BOOLEAN /\ g.table \in BOOLEAN
        /\ g.chains \subseteq Chain /\ g.rules \in [Chain -> SUBSET Rule]
    BY <1>1 DEF Guest
  <1>3. CASE WgQuick(v)
    <2>1. PICK ok \in Outcome("wg") :
            Becomes(v, [g EXCEPT !.wg = ok, !.at = IF ok THEN "table" ELSE "up"])
      BY <1>3 DEF WgQuick
    <2> DEFINE h == [g EXCEPT !.wg = ok, !.at = IF ok THEN "table" ELSE "up"]
    <2>2. g.at = "wg" /\ ok \in BOOLEAN
      BY <1>3 DEF WgQuick, Outcome
    <2>3. ScriptStep(g, h)
      BY <1>1, <1>2, <2>2 DEF ScriptStep, Guest, Script
    <2> QED
      BY <2>1, <2>3 DEF Becomes
  <1>4. CASE AddTable(v)
    <2>1. PICK ok \in Outcome("table") :
            Becomes(v, [g EXCEPT !.table = ok, !.at = "output"])
      BY <1>4 DEF AddTable
    <2> DEFINE h == [g EXCEPT !.table = ok, !.at = "output"]
    <2>2. g.at = "table" /\ ok \in BOOLEAN
      BY <1>4 DEF AddTable, Outcome
    <2>3. ScriptStep(g, h)
      BY <1>1, <1>2, <2>2 DEF ScriptStep, Guest, Script
    <2> QED
      BY <2>1, <2>3 DEF Becomes
  <1>5. CASE AddChain(v)
    <2> DEFINE h(ok) == [g EXCEPT !.chains = IF ok /\ g.table THEN @ \cup {g.at} ELSE @,
                                  !.at = IF @ = "output" THEN "output rules"
                                                         ELSE "output6 rules"]
    <2>1. PICK ok \in Outcome(g.at) : Becomes(v, h(ok))
      BY <1>5 DEF AddChain
    <2>2. g.at \in Chain
      BY <1>5 DEF AddChain
    <2>3. /\ h(ok).at \in {"output rules", "output6 rules"}
          /\ h(ok).wg = g.wg /\ h(ok).table = g.table /\ h(ok).rules = g.rules
          /\ h(ok).chains = IF ok /\ g.table THEN g.chains \cup {g.at} ELSE g.chains
      BY <1>1 DEF Guest
    <2>4. h(ok) \in Guest
      BY <1>1, <1>2, <2>2 DEF Guest, Script
    <2>5. ScriptStep(g, h(ok))
      <3>1. g.chains \subseteq h(ok).chains /\ (h(ok).chains # {} => h(ok).table)
        BY <1>1, <2>3
      <3>2. \A c \in Chain \ h(ok).chains : h(ok).rules[c] = {}
        BY <1>1, <2>3, <3>1
      <3> HIDE DEF h
      <3> QED
        BY <1>1, <2>2, <2>3, <2>4, <3>1, <3>2 DEF ScriptStep, Script, Chain
    <2> QED
      BY <2>1, <2>5 DEF Becomes
  <1>6. CASE AddRules(v)
    <2> DEFINE r(c, added) == [g.rules EXCEPT ![c] = IF c \in g.chains THEN added ELSE @]
               h(c, added) == [g EXCEPT !.rules = r(c, added),
                                        !.at = IF c = "output" THEN "output6" ELSE "up"]
    <2>1. PICK c \in Chain, added \in SUBSET Rule :
            /\ g.at = (IF c = "output" THEN "output rules" ELSE "output6 rules")
            /\ Becomes(v, h(c, added))
      BY <1>6 DEF AddRules
    <2>2. /\ r(c, added) \in [Chain -> SUBSET Rule]
          /\ \A d \in Chain \ g.chains : r(c, added)[d] = {}
      BY <1>1, <1>2, <2>1
    <2>3. /\ h(c, added).at \in {"output6", "up"}
          /\ h(c, added).wg = g.wg /\ h(c, added).table = g.table
          /\ h(c, added).chains = g.chains /\ h(c, added).rules = r(c, added)
      BY <1>1 DEF Guest
    <2>5. h(c, added) \in Guest
      <3> HIDE DEF r
      <3> QED
        BY <1>1, <1>2, <2>2 DEF Guest, Script
    <2>6. ScriptStep(g, h(c, added))
      <3> HIDE DEF h, r
      <3> QED
        BY <1>1, <2>1, <2>2, <2>3, <2>5 DEF ScriptStep, Script
    <2> QED
      BY <2>1, <2>6 DEF Becomes
  <1> QED
    BY <1>3, <1>4, <1>5, <1>6

-----------------------------------------------------------------------------
\* Types.
LEMMA TypeNext == TypeOK /\ ScriptInv /\ [Next]_vars => TypeOK'
  <1> SUFFICES ASSUME TypeOK, ScriptInv, [Next]_vars PROVE TypeOK'
    OBVIOUS
  <1>1. CASE UNCHANGED vars
    BY <1>1 DEF TypeOK, vars, host, vms
  <1>2. ASSUME NEW p \in Proc, ProcStep(p) PROVE TypeOK'
    <2>1. step' \in [Proc -> Step] /\ lock' \in Proc \cup {None} /\ lost' \in BOOLEAN
      <3>1. \E at \in Step : step' = [step EXCEPT ![p] = at]
        BY <1>2 DEF TypeOK, ProcStep, CreateStep, EnsureBridge, Lock, DeleteFilter, DeleteNat,
           Load, ListForward, InsertForward, CreateFails, Start, KillSwitchOK, Stop, Die, Go,
           Step, Locked
      <3>2. lock' \in {lock, p, None}
        BY <1>2 DEF ProcStep, CreateStep, EnsureBridge, Lock, DeleteFilter, DeleteNat,
           Load, ListForward, InsertForward, CreateFails, Start, KillSwitchOK, Stop, Die,
           Unlock, host
      <3>3. lost' \in BOOLEAN
        BY <1>2 DEF TypeOK, ProcStep, CreateStep, EnsureBridge, Lock, DeleteFilter, DeleteNat,
           Load, ListForward, InsertForward, CreateFails, Start, KillSwitchOK, Stop, Die,
           Unlock, host, Locked
      <3> QED
        BY <3>1, <3>2, <3>3 DEF TypeOK
    <2>2. /\ filter' \in {filter, TRUE, FALSE} /\ nat' \in {nat, TRUE, FALSE}
          /\ allow' \in {allow, allow + 1}
      BY <1>2 DEF ProcStep, CreateStep, EnsureBridge, Lock, DeleteFilter, DeleteNat,
         Load, ListForward, InsertForward, CreateFails, Start, KillSwitchOK, Stop, Die, host
    <2>2a. filter' \in BOOLEAN /\ nat' \in BOOLEAN /\ allow' \in Nat
      <3>1. allow' \in Nat
        BY <2>2 DEF TypeOK
      <3>2. filter' \in BOOLEAN /\ nat' \in BOOLEAN
        BY <2>2, Zenon DEF TypeOK
      <3> QED
        BY <3>1, <3>2
    <2>3. guest' = guest \/ guest' = [guest EXCEPT ![p] = Off]
            \/ guest' = [guest EXCEPT ![p] = Booting]
      BY <1>2 DEF ProcStep, CreateStep, EnsureBridge, Lock, DeleteFilter, DeleteNat,
         Load, ListForward, InsertForward, CreateFails, Start, KillSwitchOK, Stop, Die,
         PowerOff, vms, host
    <2>4. conns' \subseteq conns /\ inUse' \subseteq Proc /\ unchained' \subseteq Proc
      BY <1>2 DEF TypeOK, ProcStep, CreateStep, EnsureBridge, Lock, DeleteFilter, DeleteNat,
         Load, ListForward, InsertForward, CreateFails, Start, KillSwitchOK, Stop, Die,
         PowerOff, vms, host
    <2> QED
      BY <2>1, <2>2a, <2>3, <2>4, OffOK DEF TypeOK
  <1>3. ASSUME NEW v \in Proc, WgQuick(v) \/ AddTable(v) \/ AddChain(v) \/ AddRules(v)
        PROVE  TypeOK'
    <2>1. UNCHANGED <<step, host, inUse, conns, unchained>>
      BY <1>3, ScriptSteps
    <2>2. PICK h : guest' = [guest EXCEPT ![v] = h] /\ ScriptStep(guest[v], h)
      BY <1>3, ScriptSteps
    <2> QED
      BY <2>1, <2>2 DEF TypeOK, host, ScriptStep
  <1>4. ASSUME NEW v \in Proc, TunnelLost(v) PROVE TypeOK'
    <2>1. UNCHANGED <<step, host, inUse, conns, unchained>>
      BY <1>4 DEF TunnelLost, Becomes
    <2> DEFINE h == [guest[v] EXCEPT !.wg = FALSE]
    <2>2. guest' = [guest EXCEPT ![v] = h]
      BY <1>4 DEF TunnelLost, Becomes
    <2>3. /\ h \in Guest /\ h.chains = guest[v].chains /\ h.table = guest[v].table
          /\ h.rules = guest[v].rules
      <3>1. guest[v] \in Guest
        BY DEF TypeOK
      <3> QED
        BY <3>1 DEF Guest
    <2> QED
      BY <2>1, <2>2, <2>3 DEF TypeOK, host
  <1>5. ASSUME NEW v \in Proc, Send(v) PROVE TypeOK'
    BY <1>5 DEF Send, TypeOK, host, Packets
  <1> QED
    BY <1>1, <1>2, <1>3, <1>4, <1>5 DEF Next, GuestStep

-----------------------------------------------------------------------------
\* The host.
LEMMA CycleNext == TypeOK /\ CycleInv /\ [Next]_vars => CycleInv'
  <1> SUFFICES ASSUME TypeOK, CycleInv, [Next]_vars PROVE CycleInv'
    OBVIOUS
  <1> USE NobodyAssumption DEF CycleInv, TypeOK
  <1>1. CASE UNCHANGED vars
    BY <1>1 DEF vars, host
  <1>2. ASSUME NEW p \in Proc, EnsureBridge(p) PROVE CycleInv'
    BY <1>2 DEF EnsureBridge, Go, host, Locked
  <1>3. ASSUME NEW p \in Proc, Lock(p) PROVE CycleInv'
    BY <1>3 DEF Lock, Go, Locked
  <1>4. ASSUME NEW p \in Proc, DeleteFilter(p) PROVE CycleInv'
    BY <1>4 DEF DeleteFilter, Go, Locked
  <1>5. ASSUME NEW p \in Proc, DeleteNat(p) PROVE CycleInv'
    BY <1>5 DEF DeleteNat, Go, Locked
  <1>6. ASSUME NEW p \in Proc, Load(p) PROVE CycleInv'
    BY <1>6 DEF Load, Go, Locked
  <1>7. ASSUME NEW p \in Proc, ListForward(p) \/ InsertForward(p) PROVE CycleInv'
    BY <1>7 DEF ListForward, InsertForward, Go, host, Locked
  <1>8. ASSUME NEW p \in Proc, CreateFails(p) \/ Die(p) PROVE CycleInv'
    BY <1>8 DEF CreateFails, Die, Unlock, Locked
  <1>9. ASSUME NEW p \in Proc, Start(p) \/ KillSwitchOK(p) \/ Stop(p) PROVE CycleInv'
    BY <1>9 DEF Start, KillSwitchOK, Stop, Go, host, Locked
  <1>10. ASSUME NEW v \in Proc, GuestStep(v) PROVE CycleInv'
    BY <1>10 DEF GuestStep, WgQuick, AddTable, AddChain, AddRules, TunnelLost, Send, Becomes,
       host
  <1> QED
    BY <1>1, <1>2, <1>3, <1>4, <1>5, <1>6, <1>7, <1>8, <1>9, <1>10
    DEF Next, ProcStep, CreateStep

\* A VM runs in the next state because it ran, or because it is started now.
LEMMA RunsNext ==
  ASSUME TypeOK, ScriptInv, [Next]_vars
  PROVE  \A u \in Proc : Runs(u)' => Runs(u) \/ (step[u] = "start" /\ step'[u] = "wait")
  <1>1. CASE UNCHANGED vars
    BY <1>1 DEF vars, vms, Runs
  <1>2. ASSUME NEW p \in Proc, Start(p)
        PROVE  \A u \in Proc : Runs(u)' => Runs(u) \/ (step[u] = "start" /\ step'[u] = "wait")
    BY <1>2 DEF Start, Go, Runs, TypeOK
  <1>3. ASSUME NEW p \in Proc, Stop(p) PROVE \A u \in Proc : Runs(u)' => Runs(u)
    BY <1>3, OffOK DEF Stop, PowerOff, Runs, TypeOK
  <1>4. ASSUME NEW p \in Proc, ProcStep(p), ~Start(p), ~Stop(p)
        PROVE  \A u \in Proc : Runs(u)' => Runs(u)
    BY <1>4 DEF ProcStep, CreateStep, EnsureBridge, Lock, DeleteFilter, DeleteNat, Load,
       ListForward, InsertForward, CreateFails, KillSwitchOK, Die, vms, Runs
  <1>5. ASSUME NEW v \in Proc, WgQuick(v) \/ AddTable(v) \/ AddChain(v) \/ AddRules(v)
        PROVE  \A u \in Proc : Runs(u)' => Runs(u)
    <2>1. PICK h : guest' = [guest EXCEPT ![v] = h] /\ ScriptStep(guest[v], h)
      BY <1>5, ScriptSteps
    <2> QED
      BY <2>1 DEF Runs, TypeOK, ScriptStep, Script
  <1>6. ASSUME NEW v \in Proc, TunnelLost(v) PROVE \A u \in Proc : Runs(u)' => Runs(u)
    BY <1>6 DEF TunnelLost, Becomes, Runs, TypeOK, Guest
  <1>7. ASSUME NEW v \in Proc, Send(v) PROVE \A u \in Proc : Runs(u)' => Runs(u)
    BY <1>7 DEF Send, Runs
  <1> QED
    BY <1>1, <1>2, <1>3, <1>4, <1>5, <1>6, <1>7 DEF Next, GuestStep

LEMMA UpNext == Safe /\ [Next]_vars => UpInv'
  <1> SUFFICES ASSUME Safe, [Next]_vars PROVE UpInv'
    OBVIOUS
  <1>0. TypeOK /\ CycleInv /\ UpInv /\ ScriptInv
    BY DEF Safe
  <1>a. \A u \in Proc : Runs(u)' => Runs(u) \/ (step[u] = "start" /\ step'[u] = "wait")
    BY <1>0, RunsNext
  <1> USE <1>0, <1>a DEF UpInv, Loaded, TypeOK
  <1>1. CASE UNCHANGED vars
    BY <1>1 DEF vars, host, vms, Runs
  <1>2. ASSUME NEW p \in Proc, EnsureBridge(p) PROVE UpInv'
    BY <1>2 DEF EnsureBridge, Go, host
  <1>3. ASSUME NEW p \in Proc, Lock(p) PROVE UpInv'
    BY <1>3 DEF Lock, Go
  <1>4. ASSUME NEW p \in Proc, DeleteFilter(p) PROVE UpInv'
    BY <1>4 DEF DeleteFilter, Go
  <1>5. ASSUME NEW p \in Proc, DeleteNat(p) PROVE UpInv'
    BY <1>5 DEF DeleteNat, Go
  <1>6. ASSUME NEW p \in Proc, Load(p) PROVE UpInv'
    BY <1>6 DEF Load, Go
  <1>7. ASSUME NEW p \in Proc, ListForward(p) PROVE UpInv'
    BY <1>7 DEF ListForward, Go, host
  <1>8. ASSUME NEW p \in Proc, InsertForward(p) PROVE UpInv'
    BY <1>8 DEF InsertForward, Go
  <1>9. ASSUME NEW p \in Proc, CreateFails(p) \/ Die(p) PROVE UpInv'
    <2>1. /\ lost' = (lost \/ step[p] \in {"delete_nat", "load"})
          /\ UNCHANGED <<filter, nat, allow, guest>>
          /\ \E s \in {"over", "dead"} : step' = [step EXCEPT ![p] = s]
      BY <1>9 DEF CreateFails, Die, Unlock, vms
    <2>2. \A u \in Proc : Runs(u)' = Runs(u)
      BY <2>1 DEF Runs
    <2>3. \A u \in Proc : step'[u] = step[u] \/ step'[u] \in {"over", "dead"}
      BY <2>1
    <2>4. \A u \in Proc : step[u] \in {"delete_nat", "load"} =>
                            lost' \/ step'[u] = step[u]
      BY <2>1
    <2> QED
      BY <2>1, <2>2, <2>3, <2>4
  <1>10. ASSUME NEW p \in Proc, Start(p) \/ KillSwitchOK(p) \/ Stop(p) PROVE UpInv'
    BY <1>10 DEF Start, KillSwitchOK, Stop, Go, host
  <1>11. ASSUME NEW v \in Proc, GuestStep(v) PROVE UpInv'
    BY <1>11 DEF GuestStep, WgQuick, AddTable, AddChain, AddRules, TunnelLost, Send, Becomes,
       host
  <1> QED
    BY <1>1, <1>2, <1>3, <1>4, <1>5, <1>6, <1>7, <1>8, <1>9, <1>10, <1>11
    DEF Next, ProcStep, CreateStep

-----------------------------------------------------------------------------
\* The guest.
LEMMA ScriptNext == Safe /\ [Next]_vars => ScriptInv'
  <1> SUFFICES ASSUME Safe, [Next]_vars PROVE ScriptInv'
    OBVIOUS
  <1>0. TypeOK /\ ScriptInv
    BY DEF Safe
  <1> USE <1>0 DEF ScriptInv, TypeOK, Runs
  <1>1. CASE UNCHANGED vars
    BY <1>1 DEF vars, vms
  <1>2. ASSUME NEW p \in Proc, Start(p) PROVE ScriptInv'
    BY <1>2, OffOK DEF Start, Go
  <1>3. ASSUME NEW p \in Proc, Stop(p) PROVE ScriptInv'
    BY <1>3, OffOK DEF Stop, PowerOff
  <1>4. ASSUME NEW p \in Proc, KillSwitchOK(p) PROVE ScriptInv'
    BY <1>4 DEF KillSwitchOK, Go
  <1>5. ASSUME NEW p \in Proc, CreateFails(p) \/ Die(p) PROVE ScriptInv'
    BY <1>5 DEF CreateFails, Die, vms
  <1>6. ASSUME NEW p \in Proc, CreateStep(p) \/ Lock(p) PROVE ScriptInv'
    BY <1>6 DEF CreateStep, EnsureBridge, Lock, DeleteFilter, DeleteNat, Load, ListForward,
       InsertForward, Go, vms
  <1>7. ASSUME NEW v \in Proc, WgQuick(v) \/ AddTable(v) \/ AddChain(v) \/ AddRules(v)
        PROVE  ScriptInv'
    <2>1. PICK h : guest' = [guest EXCEPT ![v] = h] /\ ScriptStep(guest[v], h)
      BY <1>7, ScriptSteps
    <2>2. step' = step
      BY <1>7, ScriptSteps
    <2>3. Runs(v)
      BY <2>1 DEF ScriptStep, Script
    <2> QED
      BY <2>1, <2>2, <2>3 DEF ScriptStep
  <1>8. ASSUME NEW v \in Proc, TunnelLost(v) PROVE ScriptInv'
    BY <1>8 DEF TunnelLost, Becomes, Guest
  <1>9. ASSUME NEW v \in Proc, Send(v) PROVE ScriptInv'
    BY <1>9 DEF Send
  <1> QED
    BY <1>1, <1>2, <1>3, <1>4, <1>5, <1>6, <1>7, <1>8, <1>9 DEF Next, ProcStep, GuestStep

LEMMA GuestNext == Safe /\ [Next]_vars => GuestInv'
  <1> SUFFICES ASSUME Safe, [Next]_vars PROVE GuestInv'
    OBVIOUS
  <1>0. TypeOK /\ ScriptInv /\ GuestInv
    BY DEF Safe
  <1> USE <1>0 DEF GuestInv, TypeOK
  <1>1. CASE UNCHANGED vars
    BY <1>1 DEF vars, vms
  <1>2. ASSUME NEW p \in Proc, Start(p) PROVE GuestInv'
    <2>1. p \notin inUse
      BY <1>2 DEF Start, Go, ScriptInv, Runs
    <2> QED
      BY <1>2, <2>1 DEF Start
  <1>3. ASSUME NEW p \in Proc, Stop(p) PROVE GuestInv'
    BY <1>3 DEF Stop, PowerOff
  <1>4. ASSUME NEW p \in Proc, KillSwitchOK(p) PROVE GuestInv'
    BY <1>4 DEF KillSwitchOK
  <1>5. ASSUME NEW p \in Proc, CreateFails(p) \/ Die(p) \/ CreateStep(p) \/ Lock(p)
        PROVE  GuestInv'
    BY <1>5 DEF CreateFails, Die, CreateStep, EnsureBridge, Lock, DeleteFilter, DeleteNat,
       Load, ListForward, InsertForward, vms
  <1>6. ASSUME NEW v \in Proc, WgQuick(v) \/ AddTable(v) \/ AddChain(v) \/ AddRules(v)
        PROVE  GuestInv'
    <2>1. PICK h : guest' = [guest EXCEPT ![v] = h] /\ ScriptStep(guest[v], h)
      BY <1>6, ScriptSteps
    <2>2. UNCHANGED <<inUse, unchained>>
      BY <1>6, ScriptSteps
    <2>3. guest[v].table => h.table
      BY <2>1 DEF ScriptStep, ScriptInv
    <2> QED
      BY <2>1, <2>2, <2>3 DEF ScriptStep
  <1>7. ASSUME NEW v \in Proc, TunnelLost(v) PROVE GuestInv'
    BY <1>7 DEF TunnelLost, Becomes, Guest
  <1>8. ASSUME NEW v \in Proc, Send(v) PROVE GuestInv'
    BY <1>8 DEF Send
  <1> QED
    BY <1>1, <1>2, <1>3, <1>4, <1>5, <1>6, <1>7, <1>8 DEF Next, ProcStep, GuestStep

\* What a packet that gets out tells of its VM and of the host.
LEMMA SendFacts ==
  ASSUME Safe, NEW v \in Proc, v \in inUse, NEW f \in Packets(v), f \notin conns,
         GuestPasses(f), f.oif = "lgwg0" \/ HostPasses(f)
  PROVE  /\ f \in Conn /\ f.vm = v
         /\ f.oif = "host0" => v \in unchained
         /\ f.src = "guest" => f.oif = "host0"
         /\ f.src = "tunnel" => f.dst \in {"public", "lan"}
         /\ f.oif = "host0" /\ f.dst \in {"public", "lan"} => ~guest[v].wg
         /\ f.oif = "host0" /\ f.dst \in {"lan", "host"} => guest[v].chains = {} /\ ~filter
  <1> USE DEF Safe
  <1>1. /\ f \in Conn /\ f.vm = v /\ f.oif = Route(v, f.dst)
        /\ f.src = (IF f.oif = "lgwg0" THEN "tunnel" ELSE "guest") \/ Known(f)
    BY DEF Packets, Known
  <1>2. f.dst \in Dst /\ f.src \in {"guest", "tunnel"} /\ f.oif \in {"host0", "lgwg0"}
    BY <1>1 DEF Conn
  <1>3. f.oif = "lgwg0" <=> guest[v].wg /\ f.dst \in {"public", "lan"}
    BY <1>1, <1>2 DEF Route
  <1>4. ASSUME Known(f)
        PROVE  /\ f.src = "guest" => f.oif = "host0"
               /\ f.src = "tunnel" => f.dst \in {"public", "lan"}
    <2>1. PICK g \in conns : g.vm = v /\ g.dst = f.dst /\ g.src = f.src
      BY <1>1, <1>4 DEF Known
    <2>2. /\ g.src = "guest" => g.oif = "host0"
          /\ g.src = "tunnel" => g.dst \in {"public", "lan"}
          /\ g.oif = "host0" /\ g.dst \in {"public", "lan"} => ~guest[v].wg
      BY <2>1 DEF ConnInv
    <2> QED
      BY <1>2, <1>3, <2>1, <2>2
  <1>5. /\ f.src = "guest" => f.oif = "host0"
        /\ f.src = "tunnel" => f.dst \in {"public", "lan"}
    BY <1>1, <1>2, <1>3, <1>4
  \* UFW forwards nothing from the address of a tunnel that is gone.
  <1>6. ~(f.oif = "host0" /\ f.src = "tunnel")
    BY <1>2, <1>5 DEF HostPasses, UfwPasses, Dst
  \* So what leaves by host0 is not more of a connection: that is in conns.
  <1>7. f.oif = "host0" => ~Known(f)
    <2> SUFFICES ASSUME f.oif = "host0", NEW g \in conns,
                        g.vm = f.vm, g.dst = f.dst, g.src = f.src
                 PROVE  FALSE
      BY DEF Known
    <2>1. g.oif = "host0" /\ g \in Conn
      BY <1>2, <1>6 DEF ConnInv, TypeOK
    <2>2. g = f
      BY <1>1, <2>1 DEF Conn
    <2> QED
      BY <2>2
  <1>8. f.oif = "host0" => guest[v].chains = {}
    BY <1>1, <1>7 DEF GuestPasses
  <1>9. f.oif = "host0" => v \in unchained
    BY <1>8 DEF GuestInv
  <1>10. f.oif = "host0" /\ f.dst \in {"lan", "host"} => ~filter
    BY <1>2, <1>6 DEF HostPasses, FilterPasses
  <1> QED
    BY <1>1, <1>3, <1>5, <1>8, <1>9, <1>10

LEMMA ConnNext == Safe /\ [Next]_vars => ConnInv'
  <1> SUFFICES ASSUME Safe, [Next]_vars PROVE ConnInv'
    OBVIOUS
  <1>0. TypeOK /\ ScriptInv /\ GuestInv /\ ConnInv
    BY DEF Safe
  <1>1. CASE UNCHANGED vars
    BY <1>0, <1>1 DEF ConnInv, vars, vms
  <1>2. ASSUME NEW p \in Proc, Start(p) PROVE ConnInv'
    <2>1. p \notin inUse
      BY <1>0, <1>2 DEF Start, Go, ScriptInv, GuestInv, Runs, TypeOK
    <2>2. \A f \in conns : guest'[f.vm] = guest[f.vm]
      BY <1>0, <1>2, <2>1 DEF Start, ConnInv, TypeOK
    <2> QED
      BY <1>0, <1>2, <2>2 DEF Start, ConnInv
  <1>3. ASSUME NEW p \in Proc, Stop(p) PROVE ConnInv'
    <2>1. /\ conns' = {f \in conns : f.vm # p} /\ inUse' = inUse \ {p} /\ unchained' = unchained \ {p}
          /\ \A f \in conns' : guest'[f.vm] = guest[f.vm]
      BY <1>0, <1>3 DEF Stop, PowerOff, TypeOK, ConnInv
    <2> QED
      BY <1>0, <2>1 DEF ConnInv
  <1>4. ASSUME NEW p \in Proc, KillSwitchOK(p) PROVE ConnInv'
    BY <1>0, <1>4 DEF KillSwitchOK, ConnInv
  <1>5. ASSUME NEW p \in Proc, CreateFails(p) \/ Die(p) \/ CreateStep(p) \/ Lock(p)
        PROVE  ConnInv'
    <2>1. UNCHANGED vms
      BY <1>5 DEF CreateFails, Die, CreateStep, EnsureBridge, Lock, DeleteFilter, DeleteNat,
         Load, ListForward, InsertForward
    <2> QED
      BY <1>0, <2>1 DEF ConnInv, vms
  <1>6. ASSUME NEW v \in Proc, WgQuick(v) \/ AddTable(v) \/ AddChain(v) \/ AddRules(v)
        PROVE  ConnInv'
    <2>1. PICK h : guest' = [guest EXCEPT ![v] = h] /\ ScriptStep(guest[v], h)
      BY <1>0, <1>6, ScriptSteps
    <2>2. UNCHANGED <<inUse, conns, unchained>>
      BY <1>0, <1>6, ScriptSteps
    <2>3. \A f \in conns : guest'[f.vm].wg = guest[f.vm].wg
      <3>1. \A f \in conns : f.vm \in Proc /\ guest[f.vm].table
        BY <1>0 DEF ConnInv, GuestInv, TypeOK
      <3>2. guest[v].table => h.wg = guest[v].wg
        BY <1>0, <2>1 DEF ScriptInv, ScriptStep
      <3> QED
        BY <1>0, <2>1, <3>1, <3>2 DEF TypeOK
    <2> QED
      BY <1>0, <2>2, <2>3 DEF ConnInv
  <1>7. ASSUME NEW v \in Proc, TunnelLost(v) PROVE ConnInv'
    <2>1. /\ guest' = [guest EXCEPT ![v] = [guest[v] EXCEPT !.wg = FALSE]]
          /\ UNCHANGED <<inUse, conns, unchained>>
      BY <1>7 DEF TunnelLost, Becomes
    <2>2. \A u \in Proc : guest'[u].wg => guest[u].wg
      BY <1>0, <2>1 DEF TypeOK, Guest
    <2> QED
      BY <1>0, <2>1, <2>2 DEF ConnInv, TypeOK
  <1>8. ASSUME NEW v \in Proc, Send(v) PROVE ConnInv'
    <2>1. PICK f \in Packets(v) :
            /\ GuestPasses(f) /\ (f.oif = "lgwg0" \/ HostPasses(f))
            /\ conns' = conns \cup {f} /\ UNCHANGED <<guest, inUse, unchained>> /\ v \in inUse
      BY <1>8 DEF Send
    <2>2. CASE f \in conns
      BY <1>0, <2>1, <2>2 DEF ConnInv
    <2>3. CASE f \notin conns
      <3>1. /\ f.vm = v /\ (f.oif = "host0" => v \in unchained)
            /\ f.src = "guest" => f.oif = "host0"
            /\ f.src = "tunnel" => f.dst \in {"public", "lan"}
            /\ f.oif = "host0" /\ f.dst \in {"public", "lan"} => ~guest[v].wg
        BY <2>1, <2>3, SendFacts
      <3> QED
        BY <1>0, <2>1, <3>1 DEF ConnInv
    <2> QED
      BY <2>2, <2>3
  <1> QED
    BY <1>1, <1>2, <1>3, <1>4, <1>5, <1>6, <1>7, <1>8 DEF Next, ProcStep, GuestStep

-----------------------------------------------------------------------------
\* The whole invariant, for every instance.
THEOREM SafeAlways == Spec => []Safe
  <1>1. Safe /\ [Next]_vars => Safe'
    <2> SUFFICES ASSUME Safe, [Next]_vars PROVE Safe'
      OBVIOUS
    <2>1. TypeOK' /\ CycleInv'
      BY TypeNext, CycleNext DEF Safe
    <2>2. UpInv' /\ GuestInv' /\ ScriptInv' /\ ConnInv'
      BY UpNext, GuestNext, ScriptNext, ConnNext
    <2> QED
      BY <2>1, <2>2 DEF Safe
  <1> QED
    BY InitSafe, <1>1, PTL DEF Spec

\* Isolation's variables have their types, no rule is without its chain, and no
\* chain without the table.
THEOREM TypeCorrect == Spec => []TypeOK
  <1>1. Safe => TypeOK
    BY DEF Safe
  <1> QED
    BY SafeAlways, <1>1, PTL

\* ApplyFilter's cycle is indivisible, as the comment on it requires: whoever
\* loads finds both tables deleted.
THEOREM CycleIndivisible == Spec => []NeverBusy
  <1>1. Safe => NeverBusy
    BY DEF Safe, CycleInv, NeverBusy
  <1> QED
    BY SafeAlways, <1>1, PTL

\* Whoever deletes and loads the shared tables, a VM that runs has them and its
\* UFW allow again when the flock is free, failures in mid-cycle apart.
THEOREM FilterStaysUp == Spec => []FilterUp
  <1>1. Safe => FilterUp
    <2> SUFFICES ASSUME Safe, NEW v \in Proc, Runs(v), lock = None, ~lost
                 PROVE  filter /\ nat /\ allow > 0
      BY DEF FilterUp
    <2>1. \A q \in Proc : step[q] \notin {"delete_nat", "load"}
      BY NobodyAssumption DEF Safe, CycleInv, Locked
    <2> QED
      BY <2>1 DEF Safe, UpInv, Loaded
  <1> QED
    BY SafeAlways, <1>1, PTL

\* Whatever subset of the rules and of the later commands of the kill-switch succeeds,
\* and whatever becomes of the tunnel, a VM whose chain output was there when its
\* table was seen sends nothing past the tunnel.
THEOREM TunnelOnly == Spec => []NoFallback
  <1>1. Safe => NoFallback
    BY DEF Safe, ConnInv, NoFallback
  <1> QED
    BY SafeAlways, <1>1, PTL

\* It takes both barriers down at the same moment to reach the LAN or the host.
THEOREM BothBarriers == Spec => TwoBarriers
  <1>1. Safe /\ [Next]_vars =>
          [\A f \in conns' \ conns :
             f.dst \in {"lan", "host"} /\ f.oif = "host0" =>
               guest[f.vm].chains = {} /\ ~filter]_vars
    <2> SUFFICES ASSUME Safe, Next, NEW f \in conns' \ conns,
                        f.dst \in {"lan", "host"}, f.oif = "host0"
                 PROVE  guest[f.vm].chains = {} /\ ~filter
      OBVIOUS
    <2>1. PICK v \in Proc : ProcStep(v) \/ GuestStep(v)
      BY DEF Next
    <2>2. CASE Send(v)
      <3>1. PICK g \in Packets(v) : /\ GuestPasses(g) /\ (g.oif = "lgwg0" \/ HostPasses(g))
                                    /\ conns' = conns \cup {g} /\ v \in inUse
        BY <2>2 DEF Send
      <3> QED
        BY <3>1, SendFacts
    <2>3. CASE ~Send(v)
      BY <2>1, <2>3 DEF ProcStep, CreateStep, EnsureBridge, Lock, DeleteFilter, DeleteNat,
         Load, ListForward, InsertForward, CreateFails, Start, KillSwitchOK, Stop, Die,
         PowerOff, GuestStep, WgQuick, AddTable, AddChain, AddRules, TunnelLost, Becomes, vms
    <2> QED
      BY <2>2, <2>3
  <1> QED
    BY SafeAlways, <1>1, PTL DEF Spec, TwoBarriers
-----------------------------------------------------------------------------
(***************************************************************************)
(* LifeCycle: the guest implements Machine.                                *)
(***************************************************************************)

\* The script comes to the kill-switch with the tunnel up.
TunnelInv == \A v \in Proc : guest[v].at = "table" => guest[v].wg

\* A command of the script takes the state a to b.
Forward(a, b) ==
  \/ b = a
  \/ a = "boot" /\ b \in {"tunnel", "open"}
  \/ a = "tunnel" /\ b = "table"
  \/ a = "table" /\ b = "armed"

\* Every command of the script goes on in the life of the machine, or makes no
\* difference to it.
LEMMA ScriptForward ==
  ASSUME Safe, TunnelInv, NEW v \in Proc,
         WgQuick(v) \/ AddTable(v) \/ AddChain(v) \/ AddRules(v)
  PROVE  \E h : /\ guest' = [guest EXCEPT ![v] = h]
                /\ Forward(State(guest[v]), State(h)) /\ (h.at = "table" => h.wg)
  <1> DEFINE g == guest[v]
  <1>1. /\ g \in Guest /\ (g.chains # {} => g.table)
        /\ g.at \in {"off", "wg", "table"} => ~g.table
        /\ g.at = "table" => g.wg
    BY DEF Safe, TypeOK, ScriptInv, TunnelInv
  <1>2. PICK h : guest' = [guest EXCEPT ![v] = h] /\ ScriptStep(g, h)
    BY ScriptSteps DEF Safe
  <1>3. h = guest'[v]
    BY <1>2 DEF Safe, TypeOK
  <1>4. CASE WgQuick(v)
    <2>1. PICK ok \in Outcome("wg") :
            h = [g EXCEPT !.wg = ok, !.at = IF ok THEN "table" ELSE "up"]
      BY <1>2, <1>3, <1>4 DEF WgQuick, Becomes, Safe, TypeOK
    <2>2. g.at = "wg" /\ h.wg = ok /\ h.at = (IF ok THEN "table" ELSE "up") /\ h.table = g.table
      BY <1>1, <1>4, <2>1 DEF WgQuick, Guest
    <2> QED
      BY <1>1, <1>2, <2>2 DEF Forward, State
  <1>5. CASE AddTable(v)
    <2>1. PICK ok \in Outcome("table") : h = [g EXCEPT !.table = ok, !.at = "output"]
      BY <1>2, <1>3, <1>5 DEF AddTable, Becomes, Safe, TypeOK
    <2>2. /\ g.at = "table" /\ g.wg /\ ~g.table /\ g.chains = {}
          /\ h.at = "output" /\ h.wg = g.wg /\ h.chains = g.chains
      BY <1>1, <1>5, <2>1 DEF AddTable, Guest
    <2> QED
      BY <1>2, <2>2 DEF Forward, State
  <1>6. CASE AddChain(v) \/ AddRules(v)
    <2>1. g.at \notin {"off", "wg", "table"}
      BY <1>6 DEF AddChain, AddRules, Chain
    <2>2. h.table = g.table /\ h.wg = g.wg /\ g.chains \subseteq h.chains
      BY <1>2, <2>1 DEF ScriptStep
    <2> QED
      BY <1>2, <2>1, <2>2 DEF Forward, State, ScriptStep
  <1> QED
    BY <1>4, <1>5, <1>6

\* What one step does to the guests: it starts or stops one, takes one further,
\* or leaves all of them as they are to newAuto.
LEMMA GuestLife ==
  ASSUME Safe, TunnelInv, [Next]_vars
  PROVE  /\ TunnelInv'
         /\ \/ \A v \in Proc : State(guest'[v]) = State(guest[v])
            \/ \E v \in Proc :
                 /\ \A u \in Proc \ {v} : guest'[u] = guest[u]
                 /\ \/ State(guest[v]) = "off" /\ State(guest'[v]) = "boot"
                    \/ State(guest'[v]) = "off"
                    \/ Forward(State(guest[v]), State(guest'[v]))
  <1>1. guest \in [Proc -> Guest]
    BY DEF Safe, TypeOK
  <1>2. CASE guest' = guest
    BY <1>2 DEF TunnelInv
  <1>3. ASSUME NEW p \in Proc, Start(p)
        PROVE  /\ TunnelInv' /\ \A u \in Proc \ {p} : guest'[u] = guest[u]
               /\ State(guest[p]) = "off" /\ State(guest'[p]) = "boot"
    <2>1. guest' = [guest EXCEPT ![p] = Booting] /\ guest[p].at = "off"
      BY <1>3 DEF Start, Go, Safe, ScriptInv, Runs
    <2> QED
      BY <1>1, <2>1, OffOK DEF State, TunnelInv
  <1>4. ASSUME NEW p \in Proc, Stop(p)
        PROVE  /\ TunnelInv' /\ \A u \in Proc \ {p} : guest'[u] = guest[u]
               /\ State(guest'[p]) = "off"
    <2>1. guest' = [guest EXCEPT ![p] = Off]
      BY <1>4 DEF Stop, PowerOff
    <2> QED
      BY <1>1, <2>1, OffOK DEF State, TunnelInv
  <1>5. ASSUME NEW v \in Proc, WgQuick(v) \/ AddTable(v) \/ AddChain(v) \/ AddRules(v)
        PROVE  /\ TunnelInv' /\ \A u \in Proc \ {v} : guest'[u] = guest[u]
               /\ Forward(State(guest[v]), State(guest'[v]))
    <2>1. PICK h : /\ guest' = [guest EXCEPT ![v] = h]
                   /\ Forward(State(guest[v]), State(h)) /\ (h.at = "table" => h.wg)
      BY <1>5, ScriptForward
    <2> QED
      BY <1>1, <2>1 DEF TunnelInv
  <1>6. ASSUME NEW v \in Proc, TunnelLost(v)
        PROVE  TunnelInv' /\ \A u \in Proc : State(guest'[u]) = State(guest[u])
    <2>1. guest' = [guest EXCEPT ![v] = [guest[v] EXCEPT !.wg = FALSE]]
      BY <1>6 DEF TunnelLost, Becomes
    <2>2. guest[v].table /\ guest[v].at # "table"
      BY <1>6 DEF TunnelLost, Safe, GuestInv, ScriptInv
    <2>3. /\ guest'[v].at = guest[v].at /\ guest'[v].table = guest[v].table
          /\ guest'[v].chains = guest[v].chains
      BY <1>1, <2>1 DEF Guest
    <2> QED
      BY <1>1, <2>1, <2>2, <2>3 DEF State, TunnelInv
  <1>7. ASSUME NEW p \in Proc, ProcStep(p) \/ Send(p), ~Start(p), ~Stop(p) PROVE guest' = guest
    BY <1>7 DEF ProcStep, CreateStep, EnsureBridge, Lock, DeleteFilter, DeleteNat, Load,
       ListForward, InsertForward, CreateFails, KillSwitchOK, Die, vms, Send
  <1>8. CASE UNCHANGED vars
    BY <1>2, <1>8 DEF vars, vms
  <1> QED
    BY <1>2, <1>3, <1>4, <1>5, <1>6, <1>7, <1>8 DEF Next, GuestStep

\* The commands of the boot script, whichever of them fail, and the loss of the
\* tunnel come to the life of a machine that NewAuto relies on.
THEOREM GuestsLive == Spec => LifeCycle
  <1> DEFINE vm == [v \in Proc |-> State(guest[v])]
  <1>1. Init => TunnelInv /\ Life!Init
    <2> SUFFICES ASSUME Init PROVE TunnelInv /\ Life!Init
      OBVIOUS
    <2>1. \A v \in Proc : guest[v].at = "off"
      BY OffOK DEF Init
    <2> QED
      BY <2>1 DEF TunnelInv, Life!Init, State
  <1>2. Safe /\ TunnelInv /\ [Next]_vars => TunnelInv' /\ [Life!Next]_vm
    <2> SUFFICES ASSUME Safe, TunnelInv, [Next]_vars PROVE TunnelInv' /\ [Life!Next]_vm
      OBVIOUS
    <2>1. TunnelInv'
      BY GuestLife
    <2>2. CASE \A v \in Proc : State(guest'[v]) = State(guest[v])
      BY <2>1, <2>2
    <2>3. ASSUME NEW v \in Proc, \A u \in Proc \ {v} : guest'[u] = guest[u],
                 \/ State(guest[v]) = "off" /\ State(guest'[v]) = "boot"
                 \/ State(guest'[v]) = "off"
                 \/ Forward(State(guest[v]), State(guest'[v]))
          PROVE  vm' = vm \/ Life!Next
      <3>1. vm' = [vm EXCEPT ![v] = State(guest'[v])]
        BY <2>3
      <3>2. \/ vm' = vm
            \/ Life!Start(v) \/ Life!WgQuick(v) \/ Life!AddTable(v) \/ Life!AddChain(v)
            \/ Life!Stop(v)
        BY <2>3, <3>1 DEF Forward, Life!Start, Life!WgQuick, Life!AddTable, Life!AddChain,
                          Life!Stop, Life!Becomes
      <3> QED
        BY <3>2 DEF Life!Next
    <2> QED
      BY <2>1, <2>2, <2>3, GuestLife
  <1> QED
    BY <1>1, <1>2, SafeAlways, PTL DEF Spec, LifeCycle, Life!Spec
=============================================================================
