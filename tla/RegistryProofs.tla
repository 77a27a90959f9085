--------------------------- MODULE RegistryProofs ---------------------------
(***************************************************************************)
(* Registry implements VMRegistry, for any invocations and records: what   *)
(* persist does between its lock and its rename is seen as one step.       *)
(* And however old the copies are that it writes, no record that nobody    *)
(* has removed is lost.                                                    *)
(***************************************************************************)
EXTENDS Registry, TLAPS

Critical == {"read", "create", "write", "rename"}

\* The flock is exclusive.
LockInv == \A p \in Proc : stage[p] \in Critical <=> lock = p

\* What the holder is about to write is still the merge with the file as it
\* is, and before the rename it is in the temporary file.
MergeInv ==
  \A p \in Proc :
    /\ stage[p] \in {"create", "write", "rename"} =>
         merged[p] = Merge(Contents(file), envs[p], removed[p])
    /\ stage[p] = "rename" => tmp = merged[p]

Inv == TypeOK /\ LockInv /\ MergeInv

\* Contents is a map, whatever the file is; NoRecords is one; so is a merge.
LEMMA Maps ==
  /\ NoRecords \in Map
  /\ \A f \in Map \cup {Absent, Torn} : Contents(f) \in Map
  /\ \A f \in Map : Contents(f) = f
  /\ \A d, own \in Map, gone \in SUBSET Proc : Merge(d, own, gone) \in Map
<1>1. NoRecords \in Map
  BY DEF NoRecords, Map
<1>2. \A f \in Map \cup {Absent, Torn} : Contents(f) \in Map
  BY <1>1 DEF Contents
<1>3. \A f \in Map : Contents(f) = f
  BY FileAssumption DEF Contents
<1>4. \A d, own \in Map, gone \in SUBSET Proc : Merge(d, own, gone) \in Map
  BY DEF Merge, Map
<1> QED BY <1>1, <1>2, <1>3, <1>4

\* The invariant holds before any invocation has started.
LEMMA InitInv == Init => Inv
<1> SUFFICES ASSUME Init PROVE Inv
  OBVIOUS
<1> USE DEF Init
<1>1. TypeOK
  BY Maps DEF TypeOK, Stage, Persisting
<1>2. LockInv
  BY NoneAssumption DEF LockInv, Critical
<1>3. MergeInv
  BY DEF MergeInv
<1> QED BY <1>1, <1>2, <1>3 DEF Inv

-----------------------------------------------------------------------------
(***************************************************************************)
(* Inv is inductive.                                                       *)
(***************************************************************************)
\* Each variable keeps its type; state.json never becomes Torn because the
\* temporary file is whole when it is renamed.
LEMMA TypeStep == Inv /\ [Next]_vars => TypeOK'
<1> SUFFICES ASSUME Inv, [Next]_vars PROVE TypeOK'
  OBVIOUS
<1> USE DEF Inv, TypeOK, Stage, Persisting, Go, Return
<1>a. \A d, own \in Map : \A n \in Proc, r \in Record \cup {None} :
        [own EXCEPT ![n] = r] \in Map
  BY DEF Map
<1>1. ASSUME NEW p \in Proc, Open(p) PROVE TypeOK'
  BY <1>1, Maps DEF Open
<1>2. ASSUME NEW p \in Proc, NEW r \in Record, Register(p, r) PROVE TypeOK'
  <2>1. [envs[p] EXCEPT ![p] = r] \in Map
    BY <1>a
  <2>2. envs' = [envs EXCEPT ![p] = [envs[p] EXCEPT ![p] = r]]
    BY <1>2 DEF Register
  <2> QED BY <1>2, <2>1, <2>2 DEF Register
<1>3. ASSUME NEW p \in Proc, NEW n \in Proc, Remove(p, n) PROVE TypeOK'
  <2>1. [envs[p] EXCEPT ![n] = None] \in Map
    BY <1>a
  <2>2. envs' = [envs EXCEPT ![p] = [envs[p] EXCEPT ![n] = None]]
    BY <1>3 DEF Remove
  <2> QED BY <1>3, <2>1, <2>2 DEF Remove
<1>4. ASSUME NEW p \in Proc, Lock(p) PROVE TypeOK'
  BY <1>4 DEF Lock
<1>5. ASSUME NEW p \in Proc, Read(p) PROVE TypeOK'
  <2>1. Merge(Contents(file), envs[p], removed[p]) \in Map
    BY Maps
  <2> QED BY <1>5, <2>1 DEF Read
<1>6. ASSUME NEW p \in Proc, Create(p) PROVE TypeOK'
  BY <1>6 DEF Create
<1>7. ASSUME NEW p \in Proc, Write(p) PROVE TypeOK'
  BY <1>7 DEF Write
<1>8. ASSUME NEW p \in Proc, Rename(p) PROVE TypeOK'
  <2>1. tmp \in Map
    BY <1>8 DEF Rename, MergeInv
  <2> QED BY <1>8, <2>1, Maps DEF Rename
<1>9. ASSUME NEW p \in Proc, Fail(p) \/ Exit(p) PROVE TypeOK'
  BY <1>9, Maps DEF Fail, Exit
<1>10. CASE UNCHANGED vars
  BY <1>10 DEF vars
<1> QED BY <1>1, <1>2, <1>3, <1>4, <1>5, <1>6, <1>7, <1>8, <1>9, <1>10 DEF Next, Persist

\* Only the holder of the lock is between its lock and its rename.
LEMMA LockStep == Inv /\ [Next]_vars => LockInv'
<1> SUFFICES ASSUME Inv, [Next]_vars PROVE LockInv'
  OBVIOUS
<1> USE NoneAssumption DEF Inv, TypeOK, LockInv, Critical, Persisting, Go, Return
<1>1. ASSUME NEW p \in Proc, \/ Open(p) \/ \E r \in Record : Register(p, r)
                             \/ \E n \in Proc : Remove(p, n)
      PROVE  LockInv'
  BY <1>1 DEF Open, Register, Remove
<1>2. ASSUME NEW p \in Proc, Lock(p) PROVE LockInv'
  BY <1>2 DEF Lock
<1>3. ASSUME NEW p \in Proc, Read(p) \/ Create(p) \/ Write(p) PROVE LockInv'
  BY <1>3 DEF Read, Create, Write
<1>4. ASSUME NEW p \in Proc, Rename(p) PROVE LockInv'
  BY <1>4 DEF Rename
<1>5. ASSUME NEW p \in Proc, Fail(p) PROVE LockInv'
  BY <1>5 DEF Fail
<1>6. ASSUME NEW p \in Proc, Exit(p) PROVE LockInv'
  BY <1>6 DEF Exit
<1>7. CASE UNCHANGED vars
  BY <1>7 DEF vars
<1> QED BY <1>1, <1>2, <1>3, <1>4, <1>5, <1>6, <1>7 DEF Next, Persist

\* Nobody but the holder writes either file, so its merge stays current.
LEMMA MergeStep == Inv /\ [Next]_vars => MergeInv'
<1> SUFFICES ASSUME Inv, [Next]_vars PROVE MergeInv'
  OBVIOUS
<1> USE DEF Inv, TypeOK, MergeInv, Go, Return
<1>1. ASSUME NEW p \in Proc, \/ Open(p) \/ \E r \in Record : Register(p, r)
                             \/ \E n \in Proc : Remove(p, n)
      PROVE  MergeInv'
  <2>1. /\ stage'[p] \in {"idle", "lock"} /\ file' = file /\ tmp' = tmp /\ merged' = merged
        /\ \A q \in Proc \ {p} : stage'[q] = stage[q] /\ envs'[q] = envs[q]
                                 /\ removed'[q] = removed[q]
    BY <1>1 DEF Open, Register, Remove
  <2> QED BY <2>1
<1>2. ASSUME NEW p \in Proc, Lock(p) PROVE MergeInv'
  BY <1>2 DEF Lock
<1>3. ASSUME NEW p \in Proc, Read(p) PROVE MergeInv'
  BY <1>3 DEF Read
<1>4. ASSUME NEW p \in Proc, Create(p) \/ Write(p) PROVE MergeInv'
  <2>1. \A q \in Proc \ {p} : stage[q] \notin Critical
    BY <1>4 DEF Create, Write, LockInv, Critical
  <2> QED BY <1>4, <2>1 DEF Create, Write, Critical
<1>5. ASSUME NEW p \in Proc, Rename(p) PROVE MergeInv'
  <2>1. \A q \in Proc \ {p} : stage[q] \notin Critical
    BY <1>5 DEF Rename, LockInv, Critical
  <2> QED BY <1>5, <2>1 DEF Rename, Critical
<1>6. ASSUME NEW p \in Proc, Fail(p) \/ Exit(p) PROVE MergeInv'
  <2>1. /\ stage'[p] \in {"idle", "done"} /\ file' = file /\ tmp' = tmp
        /\ \A q \in Proc \ {p} : stage'[q] = stage[q] /\ envs'[q] = envs[q]
                                 /\ removed'[q] = removed[q] /\ merged'[q] = merged[q]
    BY <1>6 DEF Fail, Exit
  <2> QED BY <2>1
<1>7. CASE UNCHANGED vars
  BY <1>7 DEF vars
<1> QED BY <1>1, <1>2, <1>3, <1>4, <1>5, <1>6, <1>7 DEF Next, Persist

\* Every variable keeps its type: state.json is absent or whole.
THEOREM TypeCorrect == Spec => []TypeOK
<1>1. Inv => TypeOK
  BY DEF Inv
<1>2. Inv /\ [Next]_vars => Inv'
  BY TypeStep, LockStep, MergeStep DEF Inv
<1> QED BY InitInv, <1>1, <1>2, PTL DEF Spec

-----------------------------------------------------------------------------
(***************************************************************************)
(* The refinement.                                                         *)
(***************************************************************************)
\* The invocations inside persist.
Busy == {p \in Proc : stage[p] \in Persisting}

\* Every step of the files is a step of the promise, or none that others see.
LEMMA StepRefines == Inv /\ [Next]_vars => [Promise!Next]_(Promise!vars)
<1> SUFFICES ASSUME Inv, [Next]_vars PROVE [Promise!Next]_(Promise!vars)
  OBVIOUS
<1> USE DEF Inv, TypeOK, Go, Return, Disk
<1>1. ASSUME NEW p \in Proc, Open(p) PROVE Promise!Open(p)
  <2>1. Busy' = Busy /\ p \notin Busy
    BY <1>1 DEF Open, Busy, Persisting
  <2> QED BY <1>1, <2>1 DEF Open, Promise!Open, Busy
<1>2. ASSUME NEW p \in Proc, NEW r \in Record, Register(p, r) PROVE Promise!Register(p, r)
  <2>1. Busy' = Busy \cup {p} /\ p \notin Busy
    BY <1>2 DEF Register, Busy, Persisting
  <2> QED BY <1>2, <2>1 DEF Register, Promise!Register, Busy
<1>3. ASSUME NEW p \in Proc, NEW n \in Proc, Remove(p, n) PROVE Promise!Remove(p, n)
  <2>1. Busy' = Busy \cup {p} /\ p \notin Busy
    BY <1>3 DEF Remove, Busy, Persisting
  <2> QED BY <1>3, <2>1 DEF Remove, Promise!Remove, Busy
<1>4. ASSUME NEW p \in Proc, Lock(p) \/ Read(p) \/ Create(p) \/ Write(p)
      PROVE  UNCHANGED Promise!vars
  <2>1. Busy' = Busy
    BY <1>4 DEF Lock, Read, Create, Write, Busy, Persisting
  <2> QED BY <1>4, <2>1 DEF Lock, Read, Create, Write, Promise!vars, Busy
<1>5. ASSUME NEW p \in Proc, Rename(p) PROVE Promise!Commit(p)
  <2>1. Busy' = Busy \ {p} /\ p \in Busy
    BY <1>5 DEF Rename, Busy, Persisting
  <2>2. file' = Merge(Contents(file), envs[p], removed[p])
    BY <1>5 DEF Rename, MergeInv
  <2>3. Contents(file') = Merge(Contents(file), envs[p], removed[p])
    BY <2>2, Maps
  <2>4. Merge(Disk, envs[p], removed[p]) = Promise!Merge(Disk, envs[p], removed[p])
    BY DEF Merge, Promise!Merge
  <2> QED BY <1>5, <2>1, <2>3, <2>4 DEF Rename, Promise!Commit, Busy
<1>6. ASSUME NEW p \in Proc, Fail(p) PROVE Promise!Abort(p)
  <2>1. Busy' = Busy \ {p} /\ p \in Busy
    BY <1>6 DEF Fail, Busy, Persisting
  <2> QED BY <1>6, <2>1 DEF Fail, Promise!Abort, Busy
<1>7. ASSUME NEW p \in Proc, Exit(p) PROVE Promise!Exit(p)
  <2>1. Busy' = Busy \ {p}
    BY <1>7 DEF Exit, Busy, Persisting
  <2> QED BY <1>7, <2>1 DEF Exit, Promise!Exit, NoRecords, Promise!NoRecords, Busy
<1>8. CASE UNCHANGED vars
  BY <1>8 DEF vars, Promise!vars
<1> QED BY <1>1, <1>2, <1>3, <1>4, <1>5, <1>6, <1>7, <1>8 DEF Next, Persist, Promise!Next

\* However calls interleave, fail and die, each is one step on the registry.
THEOREM RegistryRefines == Spec => OneStepEach
<1>1. Init => Promise!Init
  BY DEF Init, Promise!Init, NoRecords, Promise!NoRecords, Disk, Contents, Persisting
<1>2. Inv /\ [Next]_vars => Inv'
  BY TypeStep, LockStep, MergeStep DEF Inv
<1> QED BY InitInv, <1>1, <1>2, StepRefines, PTL DEF Spec, OneStepEach, Promise!Spec

-----------------------------------------------------------------------------
(***************************************************************************)
(* The stale copies.  As long as nobody has removed the record of n, all   *)
(* that say anything of n, the file and the copies, say the same: n alone  *)
(* writes its record, once, and everybody else has it from the file.       *)
(***************************************************************************)
Unremoved(n) == \A p \in Proc : n \notin removed[p]

Same(n) ==
  \A q, r \in Proc :
    /\ envs[q][n] # None /\ Disk[n] # None => envs[q][n] = Disk[n]
    /\ envs[q][n] # None /\ envs[r][n] # None => envs[q][n] = envs[r][n]

\* n has not registered: it lives, and its own copy has no record of it.
Unregistered(n) == stage[n] # "done" /\ envs[n][n] = None

Nowhere(n) == Disk[n] = None /\ \A q \in Proc : envs[q][n] = None

CopyInv ==
  /\ \A n \in Proc : stage[n] = "new" => envs[n][n] = None
  /\ \A n \in Proc : Unremoved(n) => Same(n) /\ (Unregistered(n) => Nowhere(n))

\* A removed record is not forgotten as such.
LEMMA RemovedStays ==
  ASSUME TypeOK, [Next]_vars, NEW n \in Proc, Unremoved(n)' PROVE Unremoved(n)
<1> USE DEF TypeOK, Unremoved
<1>1. \A p \in Proc : removed[p] \subseteq removed'[p]
  BY DEF Next, Persist, Open, Register, Before, Remove, Lock, Read, Create, Write, Rename,
         Fail, Exit, vars
<1> QED BY <1>1

\* The record that stands while nobody has removed it.
Stands(n) == Disk[n] # None /\ Unremoved(n) => Disk'[n] = Disk[n]

\* CopyInv is inductive, given Inv, and no step changes such a record.
LEMMA CopyStep ==
  Inv /\ CopyInv /\ [Next]_vars => CopyInv' /\ \A n \in Proc : Stands(n)
<1> SUFFICES ASSUME Inv, CopyInv, [Next]_vars PROVE CopyInv' /\ \A n \in Proc : Stands(n)
  OBVIOUS
<1> DEFINE Goal == CopyInv' /\ \A n \in Proc : Stands(n)
<1>0. \A n \in Proc : Unremoved(n)' => Unremoved(n)
  BY RemovedStays DEF Inv
<1> USE DEF Inv, TypeOK, CopyInv, Same, Nowhere, Unregistered, Stands, Go, Return
<1>1. ASSUME NEW p \in Proc, Open(p) PROVE Goal
  <2>1. Disk \in Map
    BY Maps DEF Disk
  <2> QED BY <1>0, <1>1, <2>1 DEF Open, Disk, Map
<1>2. ASSUME NEW p \in Proc, NEW r \in Record, Register(p, r) PROVE Goal
  <2>1. Disk' = Disk /\ p \in Proc /\ envs[p][p] = None /\ stage[p] # "done"
    BY <1>2 DEF Register, Before, Disk
  <2>2. \A q, n \in Proc : q # p \/ n # p => envs'[q][n] = envs[q][n]
    BY <1>2 DEF Register, Map
  <2>3. envs'[p][p] = r /\ r # None
    BY <1>2, NoneAssumption DEF Register, Map
  <2>4. \A n \in Proc \ {p} : stage'[n] = stage[n]
    BY <1>2 DEF Register
  <2>5. stage'[p] = "lock"
    BY <1>2 DEF Register
  <2> QED BY <1>0, <2>1, <2>2, <2>3, <2>4, <2>5
<1>3. ASSUME NEW p \in Proc, NEW m \in Proc, Remove(p, m) PROVE Goal
  <2>1. ~Unremoved(m)'
    BY <1>3 DEF Remove, Unremoved
  <2>2. \A q, n \in Proc : n # m => envs'[q][n] = envs[q][n]
    BY <1>3 DEF Remove, Map
  <2>3. Disk' = Disk
    BY <1>3 DEF Remove, Disk
  <2>4. \A n \in Proc : stage'[n] # "done" => stage[n] # "done"
    BY <1>3 DEF Remove
  <2>5. \A n \in Proc : stage'[n] = "new" => stage[n] = "new" /\ n # p
    BY <1>3 DEF Remove
  <2>6. \A n \in Proc : stage'[n] = "new" => envs'[n][n] = None
    BY <1>3, <2>2, <2>5 DEF Remove, Map
  <2> QED BY <1>0, <2>1, <2>2, <2>3, <2>4, <2>6
<1>4. ASSUME NEW p \in Proc, Lock(p) \/ Read(p) \/ Create(p) \/ Write(p) \/ Fail(p) PROVE Goal
  <2>1. Disk' = Disk /\ envs' = envs
    BY <1>4 DEF Lock, Read, Create, Write, Fail, Disk
  <2>2. \A n \in Proc : /\ stage'[n] = "new" => stage[n] = "new"
                        /\ stage'[n] # "done" => stage[n] # "done"
    BY <1>4 DEF Lock, Read, Create, Write, Fail, Persisting
  <2> QED BY <1>0, <2>1, <2>2
<1>5. ASSUME NEW p \in Proc, Rename(p) PROVE Goal
  <2>1. Disk' = Merge(Disk, envs[p], removed[p])
    <3>1. file' = Merge(Contents(file), envs[p], removed[p])
      BY <1>5 DEF Rename, MergeInv
    <3> QED BY <3>1, Maps DEF Disk
  <2>2. \A n \in Proc : Disk'[n] = IF envs[p][n] # None THEN envs[p][n]
                                   ELSE IF n \in removed[p] THEN None ELSE Disk[n]
    BY <2>1 DEF Merge
  <2>3. \A n \in Proc : Unremoved(n) => n \notin removed[p]
    BY DEF Unremoved
  <2>4. envs' = envs
    BY <1>5 DEF Rename
  <2>5. \A n \in Proc : /\ stage'[n] = "new" => stage[n] = "new"
                        /\ stage'[n] # "done" => stage[n] # "done"
    BY <1>5 DEF Rename
  <2> QED BY <1>0, <2>2, <2>3, <2>4, <2>5
<1>6. ASSUME NEW p \in Proc, Exit(p) PROVE Goal
  <2>1. Disk' = Disk /\ stage'[p] = "done"
    BY <1>6 DEF Exit, Disk
  <2>2. \A q, n \in Proc : envs'[q][n] = envs[q][n] \/ envs'[q][n] = None
    BY <1>6 DEF Exit, NoRecords
  <2>3. \A n \in Proc \ {p} : stage'[n] = stage[n] /\ envs'[n] = envs[n]
    BY <1>6 DEF Exit
  <2> QED BY <1>0, <2>1, <2>2, <2>3
<1>7. CASE UNCHANGED vars
  BY <1>0, <1>7 DEF vars, Disk
<1> QED BY <1>1, <1>2, <1>3, <1>4, <1>5, <1>6, <1>7 DEF Next, Persist

\* The old copies that every persist writes back change no record that nobody
\* has removed.
THEOREM UnremovedKept == Spec => UnremovedStay
<1>1. Init => CopyInv
  BY DEF Init, CopyInv, Same, Nowhere, Disk, Contents, NoRecords
<1>2. Inv /\ [Next]_vars => Inv'
  BY TypeStep, LockStep, MergeStep DEF Inv
<1>3. Inv /\ CopyInv /\ [Next]_vars => CopyInv'
  BY CopyStep
<1>4. Inv /\ CopyInv /\ [Next]_vars =>
        [\A n \in Proc : Disk[n] # None /\ (\A p \in Proc : n \notin removed[p])
                         => Disk'[n] = Disk[n]]_vars
  BY CopyStep DEF Stands, Unremoved
<1> QED BY InitInv, <1>1, <1>2, <1>3, <1>4, PTL DEF Spec, UnremovedStay
=============================================================================
