------------------------------ MODULE Registry ------------------------------
(***************************************************************************)
(* The registry of VMs as internal/state implements it: state.json, a      *)
(* temporary file of a fixed name next to it, and an flock.  persist       *)
(* locks, reads, merges, writes the temporary file and renames it; it can  *)
(* fail at most of these steps, and the process can die at each.  state.New*)
(* reads without the lock.                                                 *)
(***************************************************************************)
CONSTANTS
  Proc,    \* invocations; the VM of an invocation has its name
  Record,  \* what a record can say of a VM
  None,    \* no record, no process
  Absent,  \* of a file: it does not exist
  Torn     \* of a file: truncated or written in part

VARIABLES
  file,     \* state.json
  tmp,      \* state.json.tmp
  lock,     \* who holds the flock
  stage,    \* where an invocation is
  envs,     \* Store.envs of each
  removed,  \* Store.removed
  merged    \* what persist is about to write

vars == <<file, tmp, lock, stage, envs, removed, merged>>

Map == [Proc -> Record \cup {None}]

ASSUME NoneAssumption == None \notin Proc \cup Record
ASSUME FileAssumption == Absent # Torn /\ Absent \notin Map /\ Torn \notin Map

\* "new" until state.New; persist goes from "lock" to "rename".
Persisting == {"lock", "read", "create", "write", "rename"}
Stage == {"new", "idle", "done"} \cup Persisting

TypeOK ==
  /\ file \in Map \cup {Absent}    \* never Torn
  /\ tmp \in Map \cup {Absent, Torn}
  /\ lock \in Proc \cup {None}
  /\ stage \in [Proc -> Stage]
  /\ envs \in [Proc -> Map]
  /\ removed \in [Proc -> SUBSET Proc]
  /\ merged \in [Proc -> Map]

NoRecords == [n \in Proc |-> None]

\* Errors of reading and parsing are ignored: such a file has no records.
Contents(f) == IF f \in {Absent, Torn} THEN NoRecords ELSE f

Init ==
  /\ file = Absent /\ tmp = Absent /\ lock = None
  /\ stage = [p \in Proc |-> "new"]
  /\ envs = [p \in Proc |-> NoRecords]
  /\ removed = [p \in Proc |-> {}]
  /\ merged = [p \in Proc |-> NoRecords]

Go(p, s, t) == stage[p] = s /\ stage' = [stage EXCEPT ![p] = t]

\* The end of persist: the lock is dropped, and its local variable is gone.
Return(p) ==
  /\ lock' = IF lock = p THEN None ELSE lock
  /\ merged' = [merged EXCEPT ![p] = NoRecords]

-----------------------------------------------------------------------------
(***************************************************************************)
(* The calls of one invocation: New, then Remove for records it takes for  *)
(* dead, then at most one Register and one Remove of its own.              *)
(***************************************************************************)
Open(p) ==
  /\ Go(p, "new", "idle")
  /\ envs' = [envs EXCEPT ![p] = Contents(file)]
  /\ UNCHANGED <<file, tmp, lock, removed, merged>>

Before(p) == envs[p][p] = None /\ p \notin removed[p]

Register(p, r) ==
  /\ Before(p)
  /\ Go(p, "idle", "lock")
  /\ envs' = [envs EXCEPT ![p][p] = r]
  /\ removed' = [removed EXCEPT ![p] = @ \ {p}]
  /\ UNCHANGED <<file, tmp, lock, merged>>

Remove(p, n) ==
  /\ IF n = p THEN p \notin removed[p] ELSE Before(p) /\ envs[p][n] # None
  /\ Go(p, "idle", "lock")
  /\ envs' = [envs EXCEPT ![p][n] = None]
  /\ removed' = [removed EXCEPT ![p] = @ \cup {n}]
  /\ UNCHANGED <<file, tmp, lock, merged>>

-----------------------------------------------------------------------------
(***************************************************************************)
(* persist.                                                                *)
(***************************************************************************)
\* Mutant of Lock: LOCK_SH.
LockShared(p) ==
  /\ Go(p, "lock", "read")
  /\ lock' = p
  /\ UNCHANGED <<file, tmp, envs, removed, merged>>

Lock(p) ==
  /\ lock = None
  /\ Go(p, "lock", "read")
  /\ lock' = p
  /\ UNCHANGED <<file, tmp, envs, removed, merged>>

\* Mutant of Merge: the file is overwritten without being read again.
MergeOwnOnly(d, own, gone) == own

\* The file without what the process ever removed, overlaid with ITS copy.
Merge(d, own, gone) ==
  [n \in Proc |-> IF own[n] # None THEN own[n] ELSE IF n \in gone THEN None ELSE d[n]]

Read(p) ==
  /\ Go(p, "read", "create")
  /\ merged' = [merged EXCEPT ![p] = Merge(Contents(file), envs[p], removed[p])]
  /\ UNCHANGED <<file, tmp, lock, envs, removed>>

\* os.WriteFile truncates the temporary file, or makes it ...
Create(p) ==
  /\ Go(p, "create", "write")
  /\ tmp' = Torn
  /\ UNCHANGED <<file, lock, envs, removed, merged>>

\* ... and writes it.
Write(p) ==
  /\ Go(p, "write", "rename")
  /\ tmp' = merged[p]
  /\ UNCHANGED <<file, lock, envs, removed, merged>>

\* The rename, and the deferred unlock.
Rename(p) ==
  /\ Go(p, "rename", "idle")
  /\ file' = tmp /\ tmp' = Absent
  /\ Return(p)
  /\ UNCHANGED <<envs, removed>>

\* Mutant of Fail: the error of WriteFile is overlooked.
FailUnseen(p) ==
  /\ Go(p, "write", "rename")
  /\ UNCHANGED <<file, tmp, lock, envs, removed, merged>>

\* An error of OpenFile or Flock, of MkdirAll or MarshalIndent, of WriteFile,
\* or of Rename.  The callers ignore it, and the copy keeps the change.
Fail(p) ==
  /\ \E s \in Persisting \ {"read"} : Go(p, s, "idle")
  /\ Return(p)
  /\ UNCHANGED <<file, tmp, envs, removed>>

\* Mutant of Exit: the lock outlives its holder, as a lock FILE would.
ExitLocked(p) ==
  /\ stage[p] # "done"
  /\ stage' = [stage EXCEPT ![p] = "done"]
  /\ envs' = [envs EXCEPT ![p] = NoRecords]
  /\ UNCHANGED <<file, tmp, lock, removed, merged>>

\* The process ends or is killed; the kernel drops its flock.
Exit(p) ==
  /\ stage[p] # "done"
  /\ stage' = [stage EXCEPT ![p] = "done"]
  /\ envs' = [envs EXCEPT ![p] = NoRecords]
  /\ Return(p)
  /\ UNCHANGED <<file, tmp, removed>>

-----------------------------------------------------------------------------
Persist(p) == Lock(p) \/ Read(p) \/ Create(p) \/ Write(p) \/ Rename(p)

Next ==
  \E p \in Proc :
    \/ Open(p) \/ Exit(p)
    \/ \E r \in Record : Register(p, r)
    \/ \E n \in Proc : Remove(p, n)
    \/ Persist(p) \/ Fail(p)

Spec == Init /\ [][Next]_vars

\* A persist that can go on does; it need not fail.
FairSpec == Spec /\ \A p \in Proc : WF_vars(Persist(p))

-----------------------------------------------------------------------------
Disk == Contents(file)

Promise == INSTANCE VMRegistry
             WITH disk <- Disk, busy <- {p \in Proc : stage[p] \in Persisting}

\* state.go:130-131: whatever fails or dies in persist, and however the calls
\* of the invocations interleave, each has its effect in one step, or none.
OneStepEach == Promise!Spec

\* A record that no invocation has ever removed stays as it is, whichever old
\* copies are written over the file.
UnremovedStay ==
  [][\A n \in Proc : Disk[n] # None /\ (\A p \in Proc : n \notin removed[p])
                     => Disk'[n] = Disk[n]]_vars

\* Nobody waits for ever for the lock, also when its holder fails or dies.
PersistEnds ==
  \A p \in Proc : stage[p] = "lock" ~> stage[p] \in {"idle", "done"}
=============================================================================
