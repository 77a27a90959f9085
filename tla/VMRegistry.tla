----------------------------- MODULE VMRegistry -----------------------------
(***************************************************************************)
(* What the registry of VMs (internal/state) promises: one map from VMs to *)
(* records, which every invocation has a copy of, and on which a call of   *)
(* Register or Remove works in one step, at some moment before it returns, *)
(* or not at all.  Module Registry, with the files and the lock, implements*)
(* it; module NewAuto is built on it.                                      *)
(***************************************************************************)
CONSTANTS
  Proc,    \* invocations; the VM of an invocation has its name
  Record,  \* what a record can say of a VM
  None     \* no record

VARIABLES
  disk,     \* the registry
  envs,     \* each invocation's copy of it
  removed,  \* the VMs whose records an invocation has removed
  busy      \* the invocations inside persist

vars == <<disk, envs, removed, busy>>

NoRecords == [n \in Proc |-> None]

\* The registry d after a persist with the copy own and the removals gone.
Merge(d, own, gone) ==
  [n \in Proc |-> IF own[n] # None THEN own[n] ELSE IF n \in gone THEN None ELSE d[n]]

Init ==
  /\ disk = NoRecords
  /\ envs = [p \in Proc |-> NoRecords]
  /\ removed = [p \in Proc |-> {}]
  /\ busy = {}

\* New: the copy is as old as this step from now on.
Open(p) ==
  /\ p \notin busy
  /\ envs' = [envs EXCEPT ![p] = disk]
  /\ UNCHANGED <<disk, removed, busy>>

Register(p, r) ==
  /\ p \notin busy
  /\ envs' = [envs EXCEPT ![p][p] = r]
  /\ removed' = [removed EXCEPT ![p] = @ \ {p}]
  /\ busy' = busy \cup {p}
  /\ UNCHANGED disk

Remove(p, n) ==
  /\ p \notin busy
  /\ envs' = [envs EXCEPT ![p][n] = None]
  /\ removed' = [removed EXCEPT ![p] = @ \cup {n}]
  /\ busy' = busy \cup {p}
  /\ UNCHANGED disk

\* The one step of persist that others see.
Commit(p) ==
  /\ p \in busy
  /\ disk' = Merge(disk, envs[p], removed[p])
  /\ busy' = busy \ {p}
  /\ UNCHANGED <<envs, removed>>

\* persist fails: the registry is as it was, the copy keeps the change.
Abort(p) ==
  /\ p \in busy
  /\ busy' = busy \ {p}
  /\ UNCHANGED <<disk, envs, removed>>

\* The process ends, or dies, and its copy with it.
Exit(p) ==
  /\ busy' = busy \ {p}
  /\ envs' = [envs EXCEPT ![p] = NoRecords]
  /\ UNCHANGED <<disk, removed>>

Next ==
  \E p \in Proc :
    \/ Open(p) \/ Commit(p) \/ Abort(p) \/ Exit(p)
    \/ \E r \in Record : Register(p, r)
    \/ \E n \in Proc : Remove(p, n)

Spec == Init /\ [][Next]_vars
=============================================================================
