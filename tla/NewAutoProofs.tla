---------------------------- MODULE NewAutoProofs ----------------------------
(***************************************************************************)
(* Theorems about NewAuto, for any number of invocations, servers,         *)
(* addresses and attempts, any of them interrupted or crashed.             *)
(***************************************************************************)
EXTENDS NewAuto, TLAPS

-----------------------------------------------------------------------------
(***************************************************************************)
(* The reservation list.                                                   *)
(***************************************************************************)

\* What Reserve adds is an entry.
LEMMA ClaimType == ASSUME NEW p \in Proc, NEW k \in Key PROVE Claim(p, k) \in Entry
BY DEF Claim, Entry

\* Release leaves entries, whatever it is given for a server.
LEMMA ReleaseType ==
  ASSUME NEW list \in SUBSET Entry, NEW k PROVE WithoutClaims(list, k) \in SUBSET Entry
BY DEF WithoutClaims

\* MarkUnsuitable leaves entries.
LEMMA MarkType ==
  ASSUME NEW list \in SUBSET Entry, NEW k \in Key
  PROVE  WithMark(list, k, Mark(k)) \in SUBSET Entry
<1>1. Mark(k) \in Entry BY DEF Mark, Entry
<1> QED BY <1>1, ReleaseType DEF WithMark

-----------------------------------------------------------------------------
(***************************************************************************)
(* Type correctness.  TypeOK is not inductive by itself: that the attempts *)
(* stay in bounds, and that what is marked is a server and what is         *)
(* registered an address, depends on where main is.                        *)
(***************************************************************************)

\* An attempt has a server until it is over.
KeyInv ==
  \A p \in Proc :
    main[p] \in {"generate", "inject", "conf", "create", "start", "ks", "hs",
                 "measure", "check", "retry"} => key[p] \in Key

\* What is compared, and then registered, is an address.
AddressInv ==
  \A p \in Proc : main[p] \in {"check", "release", "register"} => v4[p] \in IP

\* Whoever still sets up has an attempt left.
AttemptInv ==
  \A p \in Proc : main[p] \in Early \cup Setup => attempt[p] < MaxAttempts

TypeInv == TypeOK /\ KeyInv /\ AddressInv /\ AttemptInv

\* The initial state is well typed.
LEMMA TypeInit == Init => TypeInv
BY AttemptsAssumption, NoneAssumption
   DEF Init, TypeInv, TypeOK, KeyInv, AddressInv, AttemptInv, MainLoc, SigLoc, Early,
       Setup, VM, Rootfs

\* persist keeps the registry and its copies well formed.
LEMMA PersistType ==
  ASSUME TypeOK, NEW p \in Proc, NEW own \in [Proc -> IP \cup {None}],
         NEW gone \in SUBSET Proc, Persist(p, own, gone)
  PROVE  /\ envs' \in [Proc -> [Proc -> IP \cup {None}]]
         /\ removed' \in [Proc -> SUBSET Proc]
         /\ disk' \in [Proc -> IP \cup {None}]
<1>1. /\ envs \in [Proc -> [Proc -> IP \cup {None}]]
      /\ removed \in [Proc -> SUBSET Proc]
      /\ disk \in [Proc -> IP \cup {None}]
  BY DEF TypeOK
<1> QED BY <1>1 DEF Persist, Merge

\* Stop and Start keep what is known of a machine well formed.
LEMMA StopType ==
  ASSUME TypeOK, NEW p \in Proc, StopVM(p)
  PROVE  /\ vm' \in [Proc -> VM] /\ born' \in [Proc -> 0..MaxAttempts]
         /\ survived' \in [Proc -> BOOLEAN]
<1>1. /\ vm \in [Proc -> VM] /\ born \in [Proc -> 0..MaxAttempts]
      /\ survived \in [Proc -> BOOLEAN]
  BY DEF TypeOK
<1>2. 0 \in 0..MaxAttempts /\ "off" \in VM
  BY AttemptsAssumption DEF VM
<1>3. CASE MachineOff(p)
  BY <1>1, <1>2, <1>3 DEF MachineOff
<1>4. CASE survived' = [survived EXCEPT ![p] = TRUE] /\ UNCHANGED <<vm, born>>
  BY <1>1, <1>4
<1> QED BY <1>3, <1>4 DEF StopVM

\* A purge, complete or not, leaves states of the files, and what was not there
\* stays away.
LEMMA PurgeType ==
  ASSUME TypeOK, NEW p \in Proc, Purge(p)
  PROVE  /\ rootfs' \in [Proc -> Rootfs] /\ sdir' \in [Proc -> {"none", "dir", "conf"}]
         /\ kept' \in [Proc -> SUBSET {"rootfs", "secrets"}]
         /\ \A q \in Proc : sdir[q] = "none" => sdir'[q] = "none"
         /\ \A q \in Proc \ {p} : rootfs'[q] = rootfs[q] /\ kept'[q] = kept[q]
         /\ rootfs'[p] = "none" \/ "rootfs" \in kept'[p]
         /\ sdir'[p] = "none" \/ "secrets" \in kept'[p]
<1>1. \A r \in Rootfs : AfterRemoveAll("rootfs", RootfsLeft[r]) \subseteq Rootfs
  BY DEF AfterRemoveAll, RootfsLeft, Rootfs
<1>2. PICK left \in Rootfs : rootfs' = [rootfs EXCEPT ![p] = left]
  BY <1>1 DEF Purge, TypeOK
<1>3. \A q \in Proc : sdir[q] = "none" => sdir'[q] = "none"
  BY DEF Purge, AfterRemoveAll, SecretsLeft
<1> DEFINE what == (IF rootfs'[p] = "none" THEN {} ELSE {"rootfs"})
                    \cup (IF sdir'[p] = "none" THEN {} ELSE {"secrets"})
<1>4. /\ kept' = [kept EXCEPT ![p] = what] /\ what \in SUBSET {"rootfs", "secrets"}
      /\ rootfs'[p] = "none" \/ "rootfs" \in what
      /\ sdir'[p] = "none" \/ "secrets" \in what
  BY DEF Purge
<1> HIDE DEF what
<1>5. sdir' \in [Proc -> {"none", "dir", "conf"}]
  BY DEF Purge
<1>6. /\ rootfs \in [Proc -> Rootfs]
      /\ kept \in [Proc -> SUBSET {"rootfs", "secrets"}]
  BY DEF TypeOK
<1> QED BY ONLY <1>2, <1>3, <1>4, <1>5, <1>6, p \in Proc

\* A clone, complete or not, leaves a state of a rootfs.
LEMMA CloneType ==
  ASSUME TypeOK, NEW p \in Proc, Clone(p) \/ CloneFails(p)
  PROVE  rootfs' \in [Proc -> Rootfs]
<1>1. rootfs \in [Proc -> Rootfs]
  BY DEF TypeOK
<1> QED BY <1>1 DEF Clone, CloneFails, Rootfs

\* A thread that goes on, or a process that ends, stays within the program.
LEMMA GotoType ==
  ASSUME TypeOK, NEW p \in Proc, NEW g \in Thread, NEW l \in Teardown, Goto(p, g, l)
  PROVE  /\ main' \in [Proc -> MainLoc] /\ sig' \in [Proc -> SigLoc]
         /\ \A q \in Proc : main'[q] = main[q] \/ main'[q] \in Teardown \cup Stopped
<1>1. main \in [Proc -> MainLoc] /\ sig \in [Proc -> SigLoc]
  BY DEF TypeOK
<1> QED BY <1>1 DEF Goto, MainLoc, SigLoc

\* Both threads of an invocation that ends are at a location.
LEMMA HaltType ==
  ASSUME TypeOK, NEW p \in Proc, NEW l \in Stopped, Halt(p, l)
  PROVE  /\ main' \in [Proc -> MainLoc] /\ sig' \in [Proc -> SigLoc]
         /\ \A q \in Proc : main'[q] = main[q] \/ main'[q] \in Teardown \cup Stopped
<1>1. main \in [Proc -> MainLoc] /\ sig \in [Proc -> SigLoc]
  BY DEF TypeOK
<1> QED BY <1>1 DEF Halt, MainLoc, SigLoc

\* A teardown step moves its own thread through the teardown or ends both.
LEMMA TeardownMoves ==
  ASSUME TypeOK, NEW p \in Proc, NEW g \in Thread, TeardownStep(p, g)
  PROVE  /\ main' \in [Proc -> MainLoc] /\ sig' \in [Proc -> SigLoc]
         /\ \A q \in Proc : main'[q] = main[q] \/ main'[q] \in Teardown \cup Stopped
<1>1. \/ \E l \in Teardown : Goto(p, g, l)
      \/ \E l \in Stopped : Halt(p, l)
  BY DEF TeardownStep, TdTest, TdSet, TdStop, TdPurge, TdUnreserve, TdRemove, TdVerify,
         TdAgain, TdReport,
         Teardown, Stopped
<1> QED BY <1>1, GotoType, HaltType

\* A step that ends main's setup, if it moves main at all, and leaves its
\* attempt alone keeps what depends on the attempt.
LEMMA AttemptOver ==
  ASSUME TypeInv, UNCHANGED tunnel,
         \A q \in Proc : main'[q] = main[q] \/ main'[q] \in Teardown \cup Stopped
  PROVE  KeyInv' /\ AddressInv' /\ AttemptInv'
BY DEF TypeInv, KeyInv, AddressInv, AttemptInv, tunnel, Early, Setup, Teardown, Stopped

\* Types are kept by every step of the teardown closure, in either thread.
LEMMA TeardownType ==
  ASSUME TypeInv, NEW p \in Proc, NEW g \in Thread, TeardownStep(p, g)
  PROVE  TypeInv'
<1>0. TypeOK /\ UNCHANGED tunnel
  BY DEF TypeInv, TeardownStep, TdTest, TdSet, TdStop, TdPurge, TdUnreserve, TdRemove,
         TdVerify, TdAgain, TdReport
<1>1. /\ main' \in [Proc -> MainLoc] /\ sig' \in [Proc -> SigLoc]
      /\ \A q \in Proc : main'[q] = main[q] \/ main'[q] \in Teardown \cup Stopped
  BY <1>0, TeardownMoves
<1>2. KeyInv' /\ AddressInv' /\ AttemptInv'
  BY <1>0, <1>1, AttemptOver
<1>3. TypeOK'
  <2> USE <1>0, <1>1 DEF TypeOK, tunnel, store, files, machine
  <2>1. CASE TdTest(p, g)
    BY <2>1 DEF TdTest
  <2>2. CASE TdSet(p, g)
    BY <2>2 DEF TdSet
  <2>3. CASE TdStop(p, g)
    BY <2>3, StopType DEF TdStop
  <2>4. CASE TdPurge(p, g)
    BY <2>4, PurgeType DEF TdPurge
  <2>5. CASE TdUnreserve(p, g)
    BY <2>5, MarkType, ReleaseType DEF TdUnreserve
  <2>6. CASE TdRemove(p, g)
    BY <2>6 DEF TdRemove, RemoveRecord, Persist, Merge
  <2>7. CASE TdVerify(p, g)
    BY <2>7 DEF TdVerify
  <2>8. CASE TdAgain(p, g)
    BY <2>8, StopType DEF TdAgain
  <2>9. CASE TdReport(p, g)
    BY <2>9 DEF TdReport
  <2> QED BY <2>1, <2>2, <2>3, <2>4, <2>5, <2>6, <2>7, <2>8, <2>9 DEF TeardownStep
<1> QED BY <1>2, <1>3 DEF TypeInv

\* TypeInv is inductive.
LEMMA TypeStep == TypeInv /\ [Next]_vars => TypeInv'
<1> SUFFICES ASSUME TypeInv, [Next]_vars PROVE TypeInv'
  OBVIOUS
<1> USE AttemptsAssumption, NoneAssumption
    DEF TypeInv, TypeOK, KeyInv, AddressInv, AttemptInv, MainLoc, SigLoc, Early, Setup,
        Step, At, Goto, Halt, tunnel, store, files, machine
<1>1. ASSUME NEW p \in Proc, Load(p) PROVE TypeInv'
  <2>1. TypeOK'
    BY <1>1 DEF Load
  <2>2. KeyInv' /\ AddressInv'
    BY <1>1 DEF Load
  <2>3. AttemptInv'
    BY <1>1 DEF Load
  <2> QED BY <2>1, <2>2, <2>3
<1>2. ASSUME NEW p \in Proc, Prune(p) PROVE TypeInv'
  <2>1. TypeOK'
    <3>1. stale' \in [Proc -> SUBSET Proc]
      BY <1>2 DEF Prune, DeadRecords
    <3>2. PICK l \in {"rootfs", "forget"} :
            main' = [main EXCEPT ![p] = l] /\ UNCHANGED sig
      BY <1>2 DEF Prune
    <3>3. main' \in [Proc -> MainLoc]
      BY <3>2
    <3> QED BY <1>2, <3>1, <3>2, <3>3 DEF Prune
  <2>2. KeyInv' /\ AddressInv'
    BY <1>2 DEF Prune, DeadRecords
  <2>3. AttemptInv'
    BY <1>2 DEF Prune, DeadRecords
  <2> QED BY <2>1, <2>2, <2>3
<1>3. ASSUME NEW p \in Proc, Forget(p) PROVE TypeInv'
  <2>1. PICK n \in stale[p] :
          /\ Step(p, "forget", IF stale[p] = {n} THEN "rootfs" ELSE "forget")
          /\ RemoveRecord(p, n)
          /\ stale' = [stale EXCEPT ![p] = @ \ {n}]
          /\ UNCHANGED <<ctxDone, destroyed, tunnel, resv, machine, files, rivals>>
    BY <1>3 DEF Forget
  <2>2. /\ [envs[p] EXCEPT ![n] = None] \in [Proc -> IP \cup {None}]
        /\ removed[p] \cup {n} \in SUBSET Proc
    OBVIOUS
  <2>3. /\ envs' \in [Proc -> [Proc -> IP \cup {None}]]
        /\ removed' \in [Proc -> SUBSET Proc]
        /\ disk' \in [Proc -> IP \cup {None}]
    BY <2>1, <2>2, PersistType DEF RemoveRecord
  <2>4. KeyInv' /\ AddressInv' /\ AttemptInv'
    BY <2>1
  <2>5. TypeOK'
    BY <2>1, <2>3
  <2> QED BY <2>4, <2>5
<1>4. ASSUME NEW p \in Proc, PrepareRootfs(p) PROVE TypeInv'
  <2>1. rootfs' \in [Proc -> Rootfs]
    BY <1>4, CloneType DEF PrepareRootfs
  <2>2. TypeOK'
    BY <1>4, <2>1 DEF PrepareRootfs
  <2>3. KeyInv' /\ AddressInv' /\ AttemptInv'
    BY <1>4 DEF PrepareRootfs
  <2> QED BY <2>2, <2>3
<1>5. ASSUME NEW p \in Proc, RootfsFails(p) PROVE TypeInv'
  <2>1. rootfs' \in [Proc -> Rootfs]
    BY <1>5, CloneType DEF RootfsFails
  <2>2. TypeOK'
    BY <1>5, <2>1 DEF RootfsFails, Stopped
  <2>3. KeyInv' /\ AddressInv' /\ AttemptInv'
    BY <1>5 DEF RootfsFails, Stopped
  <2> QED BY <2>2, <2>3
<1>6. ASSUME NEW p \in Proc, NEW k \in Key, Reserve(p, k) PROVE TypeInv'
  <2>1. TypeOK'
    BY <1>6, ClaimType DEF Reserve
  <2>2. KeyInv' /\ AddressInv' /\ AttemptInv'
    BY <1>6 DEF Reserve
  <2> QED BY <2>1, <2>2
<1>7. ASSUME NEW p \in Proc, GenerateOK(p) PROVE TypeInv'
  <2>1. TypeOK'
    BY <1>7 DEF GenerateOK
  <2>2. KeyInv' /\ AddressInv'
    BY <1>7 DEF GenerateOK
  <2>3. AttemptInv'
    BY <1>7 DEF GenerateOK
  <2> QED BY <2>1, <2>2, <2>3
<1>8. ASSUME NEW p \in Proc, GenerateFails(p) PROVE TypeInv'
  <2>1. TypeOK'
    BY <1>8, ReleaseType DEF GenerateFails
  <2>2. KeyInv' /\ AddressInv'
    BY <1>8 DEF GenerateFails
  <2>3. AttemptInv'
    BY <1>8 DEF GenerateFails
  <2> QED BY <2>1, <2>2, <2>3
<1>9. ASSUME NEW p \in Proc, AllocateFails(p) PROVE TypeInv'
  BY <1>9 DEF AllocateFails, Teardown
<1>10. ASSUME NEW p \in Proc, InjectDir(p) PROVE TypeInv'
  <2>1. TypeOK'
    BY <1>10 DEF InjectDir
  <2>2. KeyInv' /\ AddressInv'
    BY <1>10 DEF InjectDir
  <2>3. AttemptInv'
    BY <1>10 DEF InjectDir
  <2> QED BY <2>1, <2>2, <2>3
<1>11. ASSUME NEW p \in Proc, WriteConf(p) PROVE TypeInv'
  BY <1>11 DEF WriteConf
<1>12. ASSUME NEW p \in Proc, Provision(p) PROVE TypeInv'
  BY <1>12 DEF Provision, Rootfs
<1>13. ASSUME NEW p \in Proc, Start(p) PROVE TypeInv'
  <2>1. vm' \in [Proc -> VM] /\ born' \in [Proc -> 0..MaxAttempts]
    <3>1. "boot" \in VM /\ attempt[p] \in 0..MaxAttempts
      BY DEF VM
    <3>2. \/ /\ vm' = [vm EXCEPT ![p] = "boot"]
             /\ born' = [born EXCEPT ![p] = attempt[p]]
          \/ UNCHANGED <<vm, born>>
      BY <1>13 DEF Start
    <3>3. vm \in [Proc -> VM] /\ born \in [Proc -> 0..MaxAttempts]
      OBVIOUS
    <3> QED BY ONLY <3>1, <3>2, <3>3
  <2>2. TypeOK'
    BY <1>13, <2>1 DEF Start
  <2>3. KeyInv' /\ AddressInv' /\ AttemptInv'
    BY <1>13 DEF Start
  <2> QED BY <2>2, <2>3
<1>14. ASSUME NEW p \in Proc, SetupFails(p) PROVE TypeInv'
  <2>1. TypeOK'
    BY <1>14, ReleaseType DEF SetupFails, Teardown
  <2>2. KeyInv' /\ AddressInv'
    BY <1>14 DEF SetupFails, Teardown
  <2>3. AttemptInv'
    BY <1>14 DEF SetupFails, Teardown
  <2> QED BY <2>1, <2>2, <2>3
<1>15. ASSUME NEW p \in Proc, KillSwitchOK(p) PROVE TypeInv'
  <2>1. TypeOK'
    BY <1>15 DEF KillSwitchOK
  <2>2. KeyInv' /\ AddressInv'
    BY <1>15 DEF KillSwitchOK
  <2>3. AttemptInv'
    BY <1>15 DEF KillSwitchOK
  <2> QED BY <2>1, <2>2, <2>3
<1>16. ASSUME NEW p \in Proc, HandshakeOK(p) PROVE TypeInv'
  <2>1. TypeOK'
    BY <1>16 DEF HandshakeOK
  <2>2. KeyInv' /\ AddressInv'
    BY <1>16 DEF HandshakeOK
  <2>3. AttemptInv'
    BY <1>16 DEF HandshakeOK
  <2> QED BY <2>1, <2>2, <2>3
<1>17. ASSUME NEW p \in Proc, HandshakeInterrupted(p) PROVE TypeInv'
  <2>1. TypeOK'
    <3>1. resv' \in SUBSET Entry
      BY <1>17, ReleaseType DEF HandshakeInterrupted
    <3>2. main' \in [Proc -> MainLoc] /\ key' \in [Proc -> Key \cup {None}]
      BY <1>17 DEF HandshakeInterrupted, Teardown
    <3> QED BY <1>17, <3>1, <3>2 DEF HandshakeInterrupted
  <2>2. KeyInv' /\ AddressInv' /\ AttemptInv'
    BY <1>17 DEF HandshakeInterrupted, Teardown
  <2> QED BY <2>1, <2>2
<1>18. ASSUME NEW p \in Proc, NEW ip \in IP, Measure(p, ip) PROVE TypeInv'
  <2>1. TypeOK'
    BY <1>18 DEF Measure
  <2>2. KeyInv' /\ AddressInv'
    BY <1>18 DEF Measure
  <2>3. AttemptInv'
    BY <1>18 DEF Measure
  <2> QED BY <2>1, <2>2, <2>3
<1>19. ASSUME NEW p \in Proc, AttemptTimesOut(p) PROVE TypeInv'
  <2>1. TypeOK'
    BY <1>19 DEF AttemptTimesOut
  <2>2. KeyInv' /\ AddressInv'
    BY <1>19 DEF AttemptTimesOut
  <2>3. AttemptInv'
    BY <1>19 DEF AttemptTimesOut
  <2> QED BY <2>1, <2>2, <2>3
<1>20. ASSUME NEW p \in Proc, CheckUnique(p) PROVE TypeInv'
  <2>1. TypeOK'
    BY <1>20 DEF CheckUnique
  <2>2. KeyInv' /\ AddressInv'
    BY <1>20 DEF CheckUnique
  <2>3. AttemptInv'
    BY <1>20 DEF CheckUnique
  <2> QED BY <2>1, <2>2, <2>3
<1>21. ASSUME NEW p \in Proc, CheckCollides(p) PROVE TypeInv'
  <2>1. TypeOK'
    BY <1>21 DEF CheckCollides
  <2>2. KeyInv' /\ AddressInv'
    BY <1>21 DEF CheckCollides
  <2>3. AttemptInv'
    BY <1>21 DEF CheckCollides
  <2> QED BY <2>1, <2>2, <2>3
<1>22. ASSUME NEW p \in Proc, Retry(p) PROVE TypeInv'
  <2>1. TypeOK'
    BY <1>22, MarkType, ReleaseType DEF Retry
  <2>2. KeyInv' /\ AddressInv'
    BY <1>22 DEF Retry
  <2>3. AttemptInv'
    BY <1>22 DEF Retry
  <2> QED BY <2>1, <2>2, <2>3
<1>23. ASSUME NEW p \in Proc, RetryPurge(p) PROVE TypeInv'
  <2>1. TypeOK'
    BY <1>23, StopType, PurgeType DEF RetryPurge
  <2>2. KeyInv' /\ AddressInv' /\ AttemptInv'
    BY <1>23 DEF RetryPurge
  <2> QED BY <2>1, <2>2
<1>24. ASSUME NEW p \in Proc, Reclone(p) PROVE TypeInv'
  <2>1. /\ main' \in [Proc -> MainLoc] /\ UNCHANGED sig
        /\ attempt' \in [Proc -> 0..MaxAttempts]
        /\ rootfs' \in [Proc -> Rootfs]
        /\ UNCHANGED <<ctxDone, destroyed, key, resKey, v4, tried, store, stale, resv,
                       machine, sdir, kept, rivals>>
    <3>1. main' \in [Proc -> MainLoc] /\ UNCHANGED sig
      BY <1>24 DEF Reclone, Teardown
    <3>2. attempt' \in [Proc -> 0..MaxAttempts]
      BY <1>24 DEF Reclone
    <3>3. rootfs' \in [Proc -> Rootfs]
      BY <1>24, CloneType DEF Reclone
    <3> QED BY <1>24, <3>1, <3>2, <3>3 DEF Reclone
  <2>2. TypeOK'
    BY <2>1 DEF store
  <2>3. /\ main[p] = "reclone" /\ attempt' = [attempt EXCEPT ![p] = @ + 1]
        /\ \/ main' = [main EXCEPT ![p] = "td"]
           \/ main' = [main EXCEPT ![p] = "alloc"] /\ attempt[p] + 1 < MaxAttempts
        /\ UNCHANGED <<key, v4>>
    BY <1>24 DEF Reclone
  <2>4. KeyInv' /\ AddressInv'
    BY <2>3
  <2>5. AttemptInv'
    BY <2>3 DEF Teardown
  <2> QED BY <2>2, <2>4, <2>5
<1>25. ASSUME NEW p \in Proc, RecloneFails(p) PROVE TypeInv'
  <2>1. rootfs' \in [Proc -> Rootfs]
    BY <1>25, CloneType DEF RecloneFails
  <2>2. TypeOK'
    BY <1>25, <2>1 DEF RecloneFails, Teardown
  <2>3. KeyInv' /\ AddressInv' /\ AttemptInv'
    BY <1>25 DEF RecloneFails, Teardown
  <2> QED BY <2>2, <2>3
<1>26. ASSUME NEW p \in Proc, ReleaseClaim(p) PROVE TypeInv'
  <2>1. TypeOK'
    BY <1>26, ReleaseType DEF ReleaseClaim
  <2>2. KeyInv' /\ AddressInv'
    BY <1>26 DEF ReleaseClaim
  <2>3. AttemptInv'
    BY <1>26 DEF ReleaseClaim
  <2> QED BY <2>1, <2>2, <2>3
<1>27. ASSUME NEW p \in Proc, Register(p) PROVE TypeInv'
  <2>1. /\ [envs[p] EXCEPT ![p] = v4[p]] \in [Proc -> IP \cup {None}]
        /\ removed[p] \ {p} \in SUBSET Proc
    OBVIOUS
  <2>2. /\ envs' \in [Proc -> [Proc -> IP \cup {None}]]
        /\ removed' \in [Proc -> SUBSET Proc]
        /\ disk' \in [Proc -> IP \cup {None}]
    BY <1>27, <2>1, PersistType DEF Register
  <2>3. TypeOK'
    BY <1>27, <2>2 DEF Register
  <2>4. KeyInv' /\ AddressInv'
    BY <1>27 DEF Register
  <2>5. AttemptInv'
    BY <1>27 DEF Register
  <2> QED BY <2>3, <2>4, <2>5
<1>28. ASSUME NEW p \in Proc, OpenCodeExits(p) PROVE TypeInv'
  <2>1. TypeOK'
    BY <1>28 DEF OpenCodeExits, Teardown
  <2>2. KeyInv' /\ AddressInv'
    BY <1>28 DEF OpenCodeExits, Teardown
  <2>3. AttemptInv'
    BY <1>28 DEF OpenCodeExits, Teardown
  <2> QED BY <2>1, <2>2, <2>3
<1>29. ASSUME NEW p \in Proc, SigWake(p) PROVE TypeInv'
  BY <1>29 DEF SigWake, Teardown
<1>30. ASSUME NEW p \in Proc, Boot(p) PROVE TypeInv'
  <2>1. vm' \in [Proc -> VM]
    BY <1>30 DEF Boot, VM
  <2>2. UNCHANGED <<main, sig, ctxDone, destroyed, tunnel, store, stale, resv, born, survived,
                    files, rivals>>
    BY <1>30 DEF Boot
  <2> QED BY <2>1, <2>2
<1>31. ASSUME NEW p \in Proc, VMDies(p) PROVE TypeInv'
  BY <1>31 DEF VMDies, MachineOff, VM
<1>32. ASSUME NEW p \in Proc, Interrupt(p) PROVE TypeInv'
  <2>1. TypeOK'
    <3>1. /\ main' \in [Proc -> MainLoc] /\ sig' \in [Proc -> SigLoc]
          /\ ctxDone' \in [Proc -> BOOLEAN]
      <4>1. CASE Halt(p, "aborted") /\ UNCHANGED ctxDone
        BY <4>1 DEF Stopped
      <4>2. CASE ctxDone' = [ctxDone EXCEPT ![p] = TRUE] /\ UNCHANGED <<main, sig>>
        BY <4>2
      <4> QED BY <1>32, <4>1, <4>2 DEF Interrupt
    <3>2. UNCHANGED <<destroyed, tunnel, store, stale, resv, machine, files, rivals>>
      BY <1>32 DEF Interrupt
    <3> QED BY <3>1, <3>2 DEF store, files
  <2>2. KeyInv' /\ AddressInv'
    BY <1>32 DEF Interrupt, Running, Stopped
  <2>3. AttemptInv'
    BY <1>32 DEF Interrupt, Running, Stopped
  <2> QED BY <2>1, <2>2, <2>3
<1>33. ASSUME NEW p \in Proc, Crash(p) PROVE TypeInv'
  BY <1>33 DEF Crash, Running, Stopped
<1>34. ASSUME NEW p \in Proc, NEW g \in Thread, TeardownStep(p, g) PROVE TypeInv'
  BY <1>34, TeardownType
<1>35. ASSUME NEW x \in resv, Expire(x) PROVE TypeInv'
  BY <1>35 DEF Expire
<1>36. CASE UNCHANGED vars
  BY <1>36 DEF vars
<1> QED
  BY <1>1, <1>2, <1>3, <1>4, <1>5, <1>6, <1>7, <1>8, <1>9, <1>10, <1>11, <1>12,
     <1>13, <1>14, <1>15, <1>16, <1>17, <1>18, <1>19, <1>20, <1>21, <1>22, <1>23,
     <1>24, <1>25, <1>26, <1>27, <1>28, <1>29, <1>30, <1>31, <1>32, <1>33, <1>34,
     <1>35, <1>36 DEF Next, MainStep, SetupStep, SigStep, Thread

\* Every variable keeps its type.
THEOREM TypeCorrect == Spec => []TypeOK
<1>1. Spec => []TypeInv
  BY TypeInit, TypeStep, PTL DEF Spec
<1>2. TypeInv => TypeOK
  BY DEF TypeInv
<1> QED BY <1>1, <1>2, PTL

-----------------------------------------------------------------------------
(***************************************************************************)
(* The thread and its VM.  Two facts of a step that most of what follows   *)
(* rests on: once main is past the setup it stays there with the address   *)
(* it measured, and once the context is cancelled no machine comes up.     *)
(***************************************************************************)
Past == {"opencode"} \cup Teardown \cup Stopped

\* Off, or still up after a Stop.
Gone(n) == vm[n] = "off" \/ survived[n]

Stable(n) ==
  /\ main[n] \in Past => main'[n] \in Past /\ v4'[n] = v4[n]
  /\ ctxDone[n] => ctxDone'[n]
  /\ vm[n] = "off" /\ (main[n] \in Past \/ ctxDone[n]) => vm'[n] = "off"
  /\ Gone(n) /\ (main[n] \in Past \/ ctxDone[n]) => Gone(n)'

\* A Stop, which may fail, leaves the machine gone in this sense, and the others be.
LEMMA StopEffect ==
  ASSUME TypeOK, NEW p \in Proc, StopVM(p)
  PROVE  /\ vm'[p] \in {vm[p], "off"} /\ Gone(p)'
         /\ vm' = vm \/ vm' = [vm EXCEPT ![p] = "off"]
         /\ \A n \in Proc \ {p} : /\ vm'[n] = vm[n] /\ born'[n] = born[n]
                                  /\ survived'[n] = survived[n]
BY DEF TypeOK, StopVM, MachineOff, Gone

\* Start leaves the machines of the others be, and one that is up already.
LEMMA StartEffect ==
  ASSUME TypeOK, NEW p \in Proc, Start(p)
  PROVE  /\ ~ctxDone[p] /\ main[p] = "start" /\ main' = [main EXCEPT ![p] = "ks"]
         /\ UNCHANGED <<attempt, survived>>
         /\ \/ UNCHANGED vm
            \/ vm'[p] # "off" /\ born'[p] = attempt[p]
         /\ \A n \in Proc \ {p} : /\ vm'[n] = vm[n] /\ born'[n] = born[n]
                                  /\ survived'[n] = survived[n]
BY DEF TypeOK, Start, Step, At, Goto, tunnel

\* A step of the setup is main's, and brings a machine up only in Start.
LEMMA SetupMoves ==
  ASSUME TypeOK, NEW p \in Proc, SetupStep(p)
  PROVE  /\ main[p] \notin Past /\ ctxDone' = ctxDone
         /\ \A n \in Proc \ {p} : main'[n] = main[n]
         /\ v4' = v4 \/ \E ip : v4' = [v4 EXCEPT ![p] = ip]
         /\ UNCHANGED machine \/ StopVM(p) \/ Start(p)
         /\ \A n \in Proc \ {p} : /\ vm'[n] = vm[n] /\ born'[n] = born[n]
                                  /\ survived'[n] = survived[n]
<1> USE DEF TypeOK, Step, At, Goto, Halt, tunnel
<1>1. main[p] \notin Past
  BY DEF SetupStep, Load, Prune, Forget, PrepareRootfs, RootfsFails, Reserve, GenerateOK,
         GenerateFails, AllocateFails, InjectDir, WriteConf, Provision, Start, SetupFails,
         KillSwitchOK, HandshakeOK, HandshakeInterrupted, Measure, AttemptTimesOut,
         CheckUnique, CheckCollides, Retry, RetryPurge, Reclone, RecloneFails,
         ReleaseClaim, Register,
         Past, Teardown, Stopped
<1>2. ctxDone' = ctxDone /\ \A n \in Proc \ {p} : main'[n] = main[n]
  BY DEF SetupStep, Load, Prune, Forget, PrepareRootfs, RootfsFails, Reserve, GenerateOK,
         GenerateFails, AllocateFails, InjectDir, WriteConf, Provision, Start, SetupFails,
         KillSwitchOK, HandshakeOK, HandshakeInterrupted, Measure, AttemptTimesOut,
         CheckUnique, CheckCollides, Retry, RetryPurge, Reclone, RecloneFails,
         ReleaseClaim, Register
<1>3. v4' = v4 \/ \E ip : v4' = [v4 EXCEPT ![p] = ip]
  BY DEF SetupStep, Load, Prune, Forget, PrepareRootfs, RootfsFails, Reserve, GenerateOK,
         GenerateFails, AllocateFails, InjectDir, WriteConf, Provision, Start, SetupFails,
         KillSwitchOK, HandshakeOK, HandshakeInterrupted, Measure, AttemptTimesOut,
         CheckUnique, CheckCollides, Retry, RetryPurge, Reclone, RecloneFails,
         ReleaseClaim, Register
<1>4. UNCHANGED machine \/ StopVM(p) \/ Start(p)
  BY DEF SetupStep, Load, Prune, Forget, PrepareRootfs, RootfsFails, Reserve, GenerateOK,
         GenerateFails, AllocateFails, InjectDir, WriteConf, Provision, Start, SetupFails,
         KillSwitchOK, HandshakeOK, HandshakeInterrupted, Measure, AttemptTimesOut,
         CheckUnique, CheckCollides, Retry, RetryPurge, Reclone, RecloneFails,
         ReleaseClaim, Register
<1>5. \A n \in Proc \ {p} : /\ vm'[n] = vm[n] /\ born'[n] = born[n]
                              /\ survived'[n] = survived[n]
  BY <1>4, StopEffect, StartEffect DEF machine
<1> QED BY <1>1, <1>2, <1>3, <1>4, <1>5

\* The steps of newAuto keep a registered invocation and its address as they are.
LEMMA SetupStable == ASSUME TypeOK, NEW p \in Proc, SetupStep(p) PROVE \A n \in Proc : Stable(n)
<1>1. /\ main[p] \notin Past /\ ctxDone' = ctxDone
      /\ \A n \in Proc \ {p} : main'[n] = main[n] /\ v4'[n] = v4[n]
      /\ \A n \in Proc \ {p} : vm'[n] = vm[n] /\ survived'[n] = survived[n]
  BY SetupMoves DEF TypeOK
<1>2. ctxDone[p] => vm'[p] \in {vm[p], "off"} /\ (Gone(p) => Gone(p)')
  BY SetupMoves, StopEffect, StartEffect DEF machine, Gone
<1> QED BY <1>1, <1>2 DEF Stable, Gone

\* So do the steps of the teardown closure.
LEMMA TeardownStable ==
  ASSUME TypeOK, NEW p \in Proc, NEW g \in Thread, TeardownStep(p, g)
  PROVE  \A n \in Proc : Stable(n)
<1>1. /\ ctxDone' = ctxDone /\ v4' = v4
      /\ UNCHANGED machine \/ StopVM(p)
  BY DEF TeardownStep, TdTest, TdSet, TdStop, TdPurge, TdUnreserve, TdRemove, TdVerify,
         TdAgain, TdReport,
         tunnel
<1>2. \A q \in Proc : main'[q] = main[q] \/ main'[q] \in Teardown \cup Stopped
  BY TeardownMoves
<1>3. \A n \in Proc : vm'[n] \in {vm[n], "off"} /\ (Gone(n) => Gone(n)')
  BY <1>1, StopEffect DEF machine, Gone
<1> QED BY <1>1, <1>2, <1>3 DEF TypeOK, Stable, Past

\* So does every step.
LEMMA StepStable ==
  ASSUME TypeOK, [Next]_vars PROVE \A n \in Proc : Stable(n)
<1>1. ASSUME NEW p \in Proc, SetupStep(p) PROVE \A n \in Proc : Stable(n)
  BY <1>1, SetupStable
<1>2. ASSUME NEW p \in Proc, NEW g \in Thread, TeardownStep(p, g)
      PROVE  \A n \in Proc : Stable(n)
  BY <1>2, TeardownStable
<1>3. ASSUME NEW p \in Proc, SigWake(p) \/ OpenCodeExits(p) \/ Interrupt(p) \/ Crash(p)
      PROVE  \A n \in Proc : Stable(n)
  <2> USE DEF Step, At, Goto, Halt, TypeOK, tunnel
  <2>1. /\ UNCHANGED <<v4, vm, survived>>
        /\ \A n \in Proc : ctxDone[n] => ctxDone'[n]
    BY <1>3 DEF SigWake, OpenCodeExits, Interrupt, Crash, machine
  <2>2. \A n \in Proc : main'[n] = main[n] \/ main'[n] \in Past
    BY <1>3 DEF SigWake, OpenCodeExits, Interrupt, Crash, Past, Teardown, Stopped
  <2> QED BY <2>1, <2>2 DEF Stable, Gone
<1>4. ASSUME NEW p \in Proc, Boot(p) \/ VMDies(p) PROVE \A n \in Proc : Stable(n)
  BY <1>4 DEF Boot, VMDies, MachineOff, Stable, Gone, TypeOK, tunnel
<1>5. ASSUME NEW x \in resv, Expire(x) PROVE \A n \in Proc : Stable(n)
  BY <1>5 DEF Expire, Stable, Gone, tunnel, machine
<1>6. CASE UNCHANGED vars
  BY <1>6 DEF vars, Stable, Gone, tunnel, machine
<1> QED
  BY <1>1, <1>2, <1>3, <1>4, <1>5, <1>6 DEF Next, MainStep, SigStep, Thread

-----------------------------------------------------------------------------
(***************************************************************************)
(* The kill-switch.                                                        *)
(***************************************************************************)
Guarded(n) ==
  main[n] \in {"hs", "measure", "check", "release", "register", "opencode"}
    => vm[n] \in {"off", "table", "armed"}

\* FailClosed is inductive, given the types.
LEMMA FailClosedStep == TypeOK /\ FailClosed /\ [Next]_vars => FailClosed'
<1> SUFFICES ASSUME TypeOK, FailClosed, [Next]_vars, NEW n \in Proc PROVE Guarded(n)'
  BY DEF FailClosed, Guarded
<1> USE DEF TypeOK, Guarded, Step, At, Goto, Halt, machine
<1>0. Guarded(n)
  BY DEF FailClosed
<1>1. ASSUME NEW p \in Proc, SetupStep(p) PROVE Guarded(n)'
  BY <1>0, <1>1, StopEffect DEF SetupStep, Load, Prune, Forget, PrepareRootfs, RootfsFails,
         Reserve, GenerateOK,
         GenerateFails, AllocateFails, InjectDir, WriteConf, Provision, Start, SetupFails,
         KillSwitchOK, HandshakeOK, HandshakeInterrupted, Measure, AttemptTimesOut,
         CheckUnique, CheckCollides, Retry, RetryPurge, Reclone, RecloneFails,
         ReleaseClaim, Register, Stopped
<1>2. ASSUME NEW p \in Proc, NEW g \in Thread, TeardownStep(p, g) PROVE Guarded(n)'
  <2>1. vm' = vm \/ vm' = [vm EXCEPT ![p] = "off"]
    BY <1>2, StopEffect DEF TeardownStep, TdTest, TdSet, TdStop, TdPurge, TdUnreserve,
           TdRemove, TdVerify, TdAgain, TdReport
  <2>2. main'[n] = main[n] \/ main'[n] \in Teardown \cup Stopped
    BY <1>2, TeardownMoves
  <2> QED BY <1>0, <2>1, <2>2 DEF Teardown, Stopped
<1>3. ASSUME NEW p \in Proc, SigWake(p) \/ OpenCodeExits(p) \/ Interrupt(p) \/ Crash(p)
      PROVE  Guarded(n)'
  BY <1>0, <1>3 DEF SigWake, OpenCodeExits, Interrupt, Crash
<1>4. ASSUME NEW p \in Proc, Boot(p) \/ VMDies(p) PROVE Guarded(n)'
  BY <1>0, <1>4 DEF Boot, VMDies, MachineOff
<1>5. ASSUME NEW x \in resv, Expire(x) PROVE Guarded(n)'
  BY <1>0, <1>5 DEF Expire
<1>6. CASE UNCHANGED vars
  BY <1>0, <1>6 DEF vars
<1> QED
  BY <1>1, <1>2, <1>3, <1>4, <1>5, <1>6 DEF Next, MainStep, SigStep, Thread

\* Nobody measures, registers or uses a VM whose kill-switch was not seen.
THEOREM KillSwitchFirst == Spec => []FailClosed
<1>1. Init => FailClosed
  BY DEF Init, FailClosed
<1> QED BY <1>1, TypeCorrect, FailClosedStep, PTL DEF Spec

-----------------------------------------------------------------------------
(***************************************************************************)
(* The two threads in a teardown.  While sig tears down, main may be       *)
(* anywhere; but the context is cancelled.                                 *)
(***************************************************************************)
AfterStop == {"td_purge", "td_unreserve", "td_remove", "td_verify", "td_again", "td_report"}
AfterSet  == AfterStop \cup {"td_stop"}

SigInv  == \A p \in Proc : sig[p] \in Teardown => ctxDone[p]
FlagInv == \A p \in Proc : main[p] \in AfterSet \/ sig[p] \in AfterSet => destroyed[p]
StopInv == \A p \in Proc : main[p] \in AfterStop \/ sig[p] \in AfterStop => Gone(p)

ThreadInv == TypeOK /\ SigInv /\ FlagInv /\ StopInv

\* Off, and not to come up again.
Down(n) == vm[n] = "off" /\ (main[n] \in Past \/ ctxDone[n])

\* How a thread gets into the teardown, and past the flag and the Stop.
Moves(n) ==
  /\ sig'[n] \in Teardown => sig[n] \in Teardown \/ ctxDone[n]
  /\ sig'[n] \in AfterSet => sig[n] \in AfterSet \/ destroyed'[n]
  /\ main'[n] \in AfterSet => main[n] \in AfterSet \/ destroyed'[n]
  /\ sig'[n] \in AfterStop => sig[n] \in AfterStop \/ Gone(n)'
  /\ main'[n] \in AfterStop => main[n] \in AfterStop \/ Gone(n)'
  /\ destroyed[n] => destroyed'[n]

\* How a step may move the threads, the flags and the machine of an invocation.
LEMMA ThreadMoves ==
  ASSUME TypeOK, [Next]_vars, NEW n \in Proc PROVE Moves(n)
<1> USE DEF TypeOK, Moves, Step, At, Goto, Halt, Teardown, AfterStop, AfterSet, Stopped
<1>1. ASSUME NEW p \in Proc, SetupStep(p) PROVE Moves(n)
  BY <1>1 DEF SetupStep, Load, Prune, Forget, PrepareRootfs, RootfsFails, Reserve, GenerateOK,
         GenerateFails, AllocateFails, InjectDir, WriteConf, Provision, Start, SetupFails,
         KillSwitchOK, HandshakeOK, HandshakeInterrupted, Measure, AttemptTimesOut,
         CheckUnique, CheckCollides, Retry, RetryPurge, Reclone, RecloneFails,
         ReleaseClaim, Register
<1>2. ASSUME NEW p \in Proc, NEW g \in Thread, TeardownStep(p, g) PROVE Moves(n)
  <2>1. CASE TdTest(p, g)
    BY <2>1 DEF TdTest
  <2>2. CASE TdSet(p, g)
    BY <2>2 DEF TdSet
  <2>3. CASE TdStop(p, g)
    BY <2>3, StopEffect DEF TdStop, Thread
  <2>4. CASE TdPurge(p, g)
    BY <2>4 DEF TdPurge, Thread
  <2>5. CASE TdUnreserve(p, g)
    BY <2>5 DEF TdUnreserve, Thread
  <2>6. CASE TdRemove(p, g)
    BY <2>6 DEF TdRemove, Thread
  <2>7. CASE TdVerify(p, g)
    BY <2>7 DEF TdVerify, Thread
  <2>8. CASE TdAgain(p, g)
    BY <2>8 DEF TdAgain, Thread
  <2>9. CASE TdReport(p, g)
    BY <2>9 DEF TdReport
  <2> QED BY <1>2, <2>1, <2>2, <2>3, <2>4, <2>5, <2>6, <2>7, <2>8, <2>9 DEF TeardownStep
<1>3. ASSUME NEW p \in Proc, SigWake(p) \/ OpenCodeExits(p) \/ Interrupt(p) \/ Crash(p)
      PROVE  Moves(n)
  BY <1>3 DEF SigWake, OpenCodeExits, Interrupt, Crash
<1>4. ASSUME NEW p \in Proc, Boot(p) \/ VMDies(p) PROVE Moves(n)
  BY <1>4 DEF Boot, VMDies
<1>5. ASSUME NEW x \in resv, Expire(x) PROVE Moves(n)
  BY <1>5 DEF Expire
<1>6. CASE UNCHANGED vars
  BY <1>6 DEF vars
<1> QED
  BY <1>1, <1>2, <1>3, <1>4, <1>5, <1>6 DEF Next, MainStep, SigStep, Thread

\* ThreadInv is inductive.
LEMMA ThreadStep == ThreadInv /\ TypeOK' /\ [Next]_vars => ThreadInv'
<1> SUFFICES ASSUME ThreadInv, TypeOK', [Next]_vars PROVE ThreadInv'
  OBVIOUS
<1>1. \A n \in Proc : Stable(n) /\ Moves(n)
  BY StepStable, ThreadMoves DEF ThreadInv
<1>2. SigInv'
  BY <1>1 DEF ThreadInv, SigInv, Stable, Moves
<1>3. FlagInv'
  BY <1>1 DEF ThreadInv, FlagInv, Moves
<1>4. StopInv'
  <2> SUFFICES ASSUME NEW n \in Proc, main'[n] \in AfterStop \/ sig'[n] \in AfterStop
               PROVE  Gone(n)'
    BY DEF StopInv
  <2>1. AfterStop \subseteq Teardown /\ Teardown \subseteq Past
    BY DEF AfterStop, Teardown, Past
  <2>2. \/ Gone(n)'
        \/ Gone(n) /\ (main[n] \in Past \/ ctxDone[n])
    BY <1>1, <2>1 DEF Moves, ThreadInv, StopInv, SigInv
  <2> QED BY <1>1, <2>2 DEF Stable
<1> QED BY <1>2, <1>3, <1>4 DEF ThreadInv

\* ThreadInv holds throughout.
LEMMA ThreadInvariant == Spec => []ThreadInv
<1>1. Init => TypeInv /\ ThreadInv
  BY TypeInit DEF Init, TypeInv, ThreadInv, SigInv, FlagInv, StopInv, Teardown, AfterStop,
                  AfterSet
<1>2. TypeInv /\ ThreadInv /\ [Next]_vars => TypeInv' /\ ThreadInv'
  BY TypeStep, ThreadStep DEF TypeInv
<1> QED BY <1>1, <1>2, PTL DEF Spec

\* A teardown that reaches its verification finds the VM off, or one that has
\* outlived its Stop: none was started since.
THEOREM StoppedForGood == Spec => []StoppedAtVerify
<1>1. ThreadInv => StoppedAtVerify
  BY DEF ThreadInv, StopInv, StoppedAtVerify, AfterStop, Gone
<1> QED BY <1>1, ThreadInvariant, PTL

-----------------------------------------------------------------------------
(***************************************************************************)
(* The registry.  Whatever copy of a record anybody holds is the true one. *)
(* Whoever was found dead or removed by another is down for good; whoever  *)
(* removed itself is in its teardown, up or not.                           *)
(***************************************************************************)
Lost(q, n) == Down(n) \/ (q = n /\ destroyed[n])

RecordInv ==
  /\ \A q, n \in Proc : envs[q][n] # None => main[n] \in Past /\ envs[q][n] = v4[n]
  /\ \A n \in Proc : disk[n] # None => main[n] \in Past /\ disk[n] = v4[n]
  /\ \A q, n \in Proc : n \in stale[q] => Down(n)
  /\ \A q, n \in Proc : n \in removed[q] => Lost(q, n)

LiveInv == TypeInv /\ ThreadInv /\ RecordInv /\ LiveRecorded

\* The five steps that touch the registry or a copy of it.
LEMMA StoreSteps ==
  ASSUME [Next]_vars
  PROVE  \/ UNCHANGED <<store, stale>>
         \/ \E p \in Proc : Load(p) \/ Prune(p) \/ Forget(p) \/ Register(p)
                            \/ \E g \in Thread : TdRemove(p, g)
BY DEF Next, MainStep, SigStep, OpenCodeExits, Boot, VMDies, Interrupt, Crash, Expire,
       SigWake, TeardownStep, TdTest, TdSet, TdStop, TdPurge, TdUnreserve, TdVerify,
       TdAgain, TdReport, SetupStep, PrepareRootfs, RootfsFails, Reserve, GenerateOK,
       GenerateFails, AllocateFails, InjectDir, WriteConf, Provision, Start, SetupFails,
       KillSwitchOK, HandshakeOK, HandshakeInterrupted, Measure, AttemptTimesOut,
       CheckUnique, CheckCollides, Retry, RetryPurge, Reclone, RecloneFails,
       ReleaseClaim, vars, Thread

\* Persisting one's own copy without m, for an m that is lost to it, loses no record
\* but those of lost VMs, and changes none otherwise.
LEMMA RemovePersist ==
  ASSUME LiveInv, NEW p \in Proc, NEW m \in Proc, RemoveRecord(p, m), Lost(p, m)
  PROVE  /\ \A q, n \in Proc : envs'[q][n] # None => envs'[q][n] = v4[n] /\ main[n] \in Past
         /\ \A n \in Proc : disk'[n] # None => disk'[n] = v4[n] /\ main[n] \in Past
         /\ \A q, n \in Proc : n \in removed'[q] => Lost(q, n)
         /\ \A n \in Proc : disk[n] # None /\ disk'[n] # disk[n] => Lost(p, n)
<1> USE DEF LiveInv, TypeInv, TypeOK, RecordInv, RemoveRecord, Persist, Merge
<1>1. \A q, n \in Proc : envs'[q][n] # None => envs'[q][n] = envs[q][n]
  OBVIOUS
<1>2. \A q, n \in Proc : n \in removed'[q] => n \in removed[q] \/ (q = p /\ n = m)
  OBVIOUS
<1>3. \A n \in Proc : \/ disk'[n] = envs[p][n] /\ envs[p][n] # None
                      \/ disk'[n] = None /\ n \in removed[p] \cup {m}
                      \/ disk'[n] = disk[n]
  OBVIOUS
<1> QED BY <1>1, <1>2, <1>3

\* Register adds the true record of an invocation that has none anywhere.
LEMMA RegisterPersist ==
  ASSUME LiveInv, NEW p \in Proc, Register(p)
  PROVE  /\ main' = [main EXCEPT ![p] = "opencode"] /\ UNCHANGED <<v4, vm, stale, destroyed>>
         /\ \A q, n \in Proc : envs'[q][n] # None => envs'[q][n] = envs[q][n] \/ n = p
         /\ \A q \in Proc : envs'[q][p] # None => envs'[q][p] = v4[p]
         /\ \A q \in Proc : removed'[q] \subseteq removed[q]
         /\ disk[p] = None /\ disk'[p] = v4[p]
         /\ \A n \in Proc \ {p} : \/ disk'[n] = envs[p][n] /\ envs[p][n] # None
                                  \/ disk'[n] = None /\ n \in removed[p]
                                  \/ disk'[n] = disk[n]
<1> USE DEF LiveInv, TypeInv, TypeOK, Register, Step, At, Goto, tunnel, machine
<1>1. main[p] = "register" /\ main[p] \notin Past /\ v4[p] # None
  BY NoneAssumption DEF AddressInv, Past, Teardown, Stopped
<1>2. main' = [main EXCEPT ![p] = "opencode"] /\ UNCHANGED <<v4, vm, stale, destroyed>>
  OBVIOUS
<1>3. disk[p] = None /\ \A q \in Proc : envs[q][p] = None
  BY <1>1 DEF RecordInv
<1> QED BY <1>1, <1>2, <1>3 DEF Persist, Merge

\* A VM comes into use in Register only.
LEMMA UseStarts ==
  ASSUME TypeOK, [Next]_vars, NEW n \in Proc, InUse(n)' PROVE InUse(n) \/ Register(n)
<1>1. Stable(n)
  BY StepStable
<1>2. /\ main'[n] = "opencode" => main[n] = "opencode" \/ Register(n)
      /\ destroyed[n] => destroyed'[n]
  <2> DEFINE Goal == /\ main'[n] = "opencode" => main[n] = "opencode" \/ Register(n)
                     /\ destroyed[n] => destroyed'[n]
  <2> USE DEF TypeOK, Step, At, Goto, Halt
  <2>1. ASSUME NEW p \in Proc, SetupStep(p) PROVE Goal
    <3>1. CASE Register(p)
      BY <3>1 DEF Register
    <3>2. CASE ~Register(p)
      BY <2>1, <3>2 DEF SetupStep, Load, Prune, Forget, PrepareRootfs, RootfsFails,
             Reserve, GenerateOK,
         GenerateFails, AllocateFails, InjectDir, WriteConf, Provision, Start, SetupFails,
         KillSwitchOK, HandshakeOK, HandshakeInterrupted, Measure, AttemptTimesOut,
         CheckUnique, CheckCollides, Retry, RetryPurge, Reclone, RecloneFails,
         ReleaseClaim, Stopped
    <3> QED BY <3>1, <3>2
  <2>2. ASSUME NEW p \in Proc, NEW g \in Thread, TeardownStep(p, g) PROVE Goal
    <3>1. main'[n] = main[n] \/ main'[n] \in Teardown \cup Stopped
      BY <2>2, TeardownMoves
    <3>2. destroyed' = destroyed \/ destroyed' = [destroyed EXCEPT ![p] = TRUE]
      BY <2>2 DEF TeardownStep, TdTest, TdSet, TdStop, TdPurge, TdUnreserve, TdRemove,
                  TdVerify, TdAgain, TdReport
    <3> QED BY <3>1, <3>2 DEF Teardown, Stopped
  <2>3. ASSUME NEW p \in Proc, \/ SigWake(p) \/ OpenCodeExits(p) \/ Interrupt(p)
                               \/ Crash(p) \/ Boot(p) \/ VMDies(p)
        PROVE  Goal
    BY <2>3 DEF SigWake, OpenCodeExits, Interrupt, Crash, Boot, VMDies
  <2>4. ASSUME NEW x \in resv, Expire(x) PROVE Goal
    BY <2>4 DEF Expire
  <2>5. CASE UNCHANGED vars
    BY <2>5 DEF vars
  <2> QED
    BY <2>1, <2>2, <2>3, <2>4, <2>5 DEF Next, MainStep, SigStep, Thread
<1> QED BY <1>1, <1>2 DEF InUse, Stable, Past

\* A record that changes on disk is that of a VM that is off, or is removed by its own
\* teardown after a Stop that failed.
Kept ==
  \A n \in Proc :
    disk[n] # None /\ disk'[n] # disk[n]
      => vm[n] = "off" \/ (survived[n] /\ \E g \in Thread : TdRemove(n, g))

\* What the registry says of running VMs is kept by every step.
LEMMA RecordStep ==
  LiveInv /\ [Next]_vars => RecordInv' /\ LiveRecorded' /\ Kept
<1> SUFFICES ASSUME LiveInv, [Next]_vars PROVE RecordInv' /\ LiveRecorded' /\ Kept
  OBVIOUS
<1> USE DEF LiveInv, TypeInv
<1>1. \A n \in Proc : Stable(n)
  BY StepStable
<1>2. /\ \A n \in Proc : Down(n) => Down(n)'
      /\ \A q, n \in Proc : Lost(q, n) => Lost(q, n)'
  <2>1. \A n \in Proc : Down(n) => Down(n)'
    BY <1>1 DEF Down, Stable
  <2>2. \A n \in Proc : destroyed[n] => destroyed'[n]
    BY ThreadMoves DEF Moves
  <2> QED BY <2>1, <2>2 DEF Lost
<1>3. \A n \in Proc : InUse(n)' => InUse(n) \/ Register(n)
  BY UseStarts
<1>4. \A n \in Proc : InUse(n) => ~Down(n) /\ main[n] \in Past /\ \A q \in Proc : ~Lost(q, n)
  BY DEF InUse, Down, Past, Lost
<1>5. \A n \in Proc : Register(n) => main[n] \notin Past
  BY DEF Register, Step, At, Past, Teardown, Stopped
<1>6. CASE UNCHANGED <<store, stale>>
  <2>1. \A n \in Proc : ~Register(n) \/ disk'[n] = v4'[n]
    BY <1>6, RegisterPersist DEF store, TypeOK
  <2>2. RecordInv'
    BY <1>1, <1>2, <1>6 DEF RecordInv, Stable, store
  <2>3. LiveRecorded'
    BY <1>1, <1>3, <1>4, <1>6, <2>1 DEF LiveRecorded, Stable, store
  <2> QED BY <1>6, <2>2, <2>3 DEF Kept, store
<1>7. ASSUME NEW p \in Proc, Load(p) PROVE RecordInv' /\ LiveRecorded' /\ Kept
  <2>1. /\ \A q, n \in Proc : envs'[q][n] = envs[q][n] \/ envs'[q][n] = disk[n]
        /\ UNCHANGED <<removed, disk, stale>>
    BY <1>7 DEF Load, TypeOK
  <2>2. \A n \in Proc : ~Register(n)
    BY <1>7 DEF Load, Register, Step, At, Goto, TypeOK
  <2>3. RecordInv'
    BY <1>1, <1>2, <2>1 DEF RecordInv, Stable
  <2> QED BY <1>1, <1>3, <1>4, <2>1, <2>2, <2>3 DEF LiveRecorded, Stable, Kept
<1>8. ASSUME NEW p \in Proc, Prune(p) PROVE RecordInv' /\ LiveRecorded' /\ Kept
  <2>1. /\ \A q, n \in Proc : n \in stale'[q] => n \in stale[q] \/ Down(n)
        /\ UNCHANGED store
    BY <1>8 DEF Prune, DeadRecords, TypeOK, RecordInv, Down
  <2>2. \A n \in Proc : ~Register(n)
    BY <1>8 DEF Prune, Register, Step, At, Goto, TypeOK
  <2>3. RecordInv'
    BY <1>1, <1>2, <2>1 DEF RecordInv, Stable, store
  <2> QED BY <1>1, <1>3, <1>4, <2>1, <2>2, <2>3 DEF LiveRecorded, Stable, Kept, store
<1>9. ASSUME NEW p \in Proc, NEW m \in Proc, RemoveRecord(p, m), Lost(p, m), ~Register(p),
             \A n \in Proc : ~Register(n), \A q \in Proc : stale'[q] \subseteq stale[q],
             disk[p] = None \/ (Gone(p) /\ \E g \in Thread : TdRemove(p, g))
      PROVE  RecordInv' /\ LiveRecorded' /\ Kept
  <2>1. /\ \A q, n \in Proc : envs'[q][n] # None => envs'[q][n] = v4[n] /\ main[n] \in Past
        /\ \A n \in Proc : disk'[n] # None => disk'[n] = v4[n] /\ main[n] \in Past
        /\ \A q, n \in Proc : n \in removed'[q] => Lost(q, n)
        /\ \A n \in Proc : disk[n] # None /\ disk'[n] # disk[n] => Lost(p, n)
    BY <1>9, RemovePersist
  <2>2. RecordInv'
    BY <1>1, <1>2, <1>9, <2>1 DEF RecordInv, Stable
  <2>3. Kept
    BY <1>9, <2>1 DEF Kept, Down, Lost, Gone
  <2>4. LiveRecorded'
    <3>1. ASSUME NEW n \in Proc, InUse(n)' PROVE disk'[n] = v4'[n]
      <4>1. InUse(n) /\ ~Lost(p, n) /\ v4'[n] = v4[n] /\ disk[n] = v4[n]
        BY <1>1, <1>3, <1>4, <1>9, <3>1 DEF LiveRecorded, Stable
      <4> QED BY <2>1, <4>1
    <3> QED BY <3>1 DEF LiveRecorded
  <2> QED BY <2>2, <2>3, <2>4
<1>10. ASSUME NEW p \in Proc, Forget(p) PROVE RecordInv' /\ LiveRecorded' /\ Kept
  <2>1. PICK m \in stale[p] : RemoveRecord(p, m) /\ stale' = [stale EXCEPT ![p] = @ \ {m}]
    BY <1>10 DEF Forget
  <2>2. m \in Proc /\ Lost(p, m) /\ \A q \in Proc : stale'[q] \subseteq stale[q]
    BY <2>1 DEF TypeOK, RecordInv, Lost
  <2>3. \A n \in Proc : ~Register(n)
    BY <1>10 DEF Forget, Register, Step, At, Goto, TypeOK
  <2>4. disk[p] = None
    BY <1>10 DEF Forget, Step, At, RecordInv, Past, Teardown, Stopped
  <2> QED BY <1>9, <2>1, <2>2, <2>3, <2>4
<1>11. ASSUME NEW p \in Proc, NEW g \in Thread, TdRemove(p, g)
       PROVE  RecordInv' /\ LiveRecorded' /\ Kept
  <2>1. At(p, g, "td_remove") /\ RemoveRecord(p, p) /\ stale' = stale
    BY <1>11 DEF TdRemove
  <2>2. Lost(p, p) /\ Gone(p)
    BY <2>1 DEF ThreadInv, FlagInv, StopInv, AfterSet, AfterStop, At, Thread, Lost
  <2>3. \A n \in Proc : ~Register(n)
    BY <1>11, <1>5 DEF TdRemove, Register, Step, At, Goto, TypeOK, Thread, Past, Teardown
  <2> QED BY <1>9, <1>11, <2>1, <2>2, <2>3
<1>12. ASSUME NEW p \in Proc, Register(p) PROVE RecordInv' /\ LiveRecorded' /\ Kept
  <2>1. /\ main' = [main EXCEPT ![p] = "opencode"] /\ UNCHANGED <<v4, vm, stale, destroyed>>
        /\ \A q, n \in Proc : envs'[q][n] # None => envs'[q][n] = envs[q][n] \/ n = p
        /\ \A q \in Proc : envs'[q][p] # None => envs'[q][p] = v4[p]
        /\ \A q \in Proc : removed'[q] \subseteq removed[q]
        /\ disk[p] = None /\ disk'[p] = v4[p]
        /\ \A n \in Proc \ {p} : \/ disk'[n] = envs[p][n] /\ envs[p][n] # None
                                 \/ disk'[n] = None /\ n \in removed[p]
                                 \/ disk'[n] = disk[n]
    BY <1>12, RegisterPersist
  <2>2. main'[p] \in Past /\ \A n \in Proc : v4'[n] = v4[n]
    BY <2>1 DEF TypeOK, Past
  <2>3. \A n \in Proc : \/ disk'[n] = v4[n] /\ main'[n] \in Past
                        \/ disk'[n] = None /\ Down(n) /\ n # p
                        \/ disk'[n] = disk[n] /\ n # p
    BY <1>1, <2>1, <2>2 DEF RecordInv, Stable, Lost
  <2>4. RecordInv'
    BY <1>1, <1>2, <2>1, <2>2, <2>3 DEF RecordInv, Stable
  <2>5. Kept
    BY <2>1, <2>3 DEF Kept, Down, RecordInv
  <2>6. \A n \in Proc \ {p} : InUse(n)' => InUse(n)
    BY <2>1 DEF InUse, TypeOK
  <2>7. LiveRecorded'
    BY <1>4, <2>1, <2>2, <2>3, <2>6 DEF LiveRecorded
  <2> QED BY <2>4, <2>5, <2>7
<1> QED
  BY <1>6, <1>7, <1>8, <1>10, <1>11, <1>12, StoreSteps

\* LiveInv holds throughout.
LEMMA LiveInvariant == Spec => []LiveInv
<1>1. Init => RecordInv /\ LiveRecorded
  BY DEF Init, RecordInv, LiveRecorded, InUse
<1>2. Spec => []TypeInv
  BY TypeInit, TypeStep, PTL DEF Spec
<1>3. TypeInv /\ ThreadInv /\ RecordInv /\ LiveRecorded => LiveInv
  BY DEF LiveInv
<1>4. LiveInv /\ [Next]_vars => RecordInv' /\ LiveRecorded'
  BY RecordStep
<1> QED BY <1>1, <1>2, <1>3, <1>4, ThreadInvariant, PTL DEF Spec

\* What the other invocations compare with is complete: a VM in use is on
\* record under its address.
THEOREM RecordsComplete == Spec => []LiveRecorded
<1>1. LiveInv => LiveRecorded
  BY DEF LiveInv
<1> QED BY <1>1, LiveInvariant, PTL

\* No step of another drops or changes the record of a VM that runs; its own
\* teardown does, if the Stop before it failed.
THEOREM RecordsKept == Spec => RecordKept
<1>1. LiveInv /\ [Next]_vars
        => [\A n \in Proc :
              disk[n] # None /\ disk'[n] # disk[n]
                => vm[n] = "off" \/ (survived[n] /\ \E g \in Thread : TdRemove(n, g))]_vars
  BY RecordStep DEF Kept
<1> QED BY <1>1, LiveInvariant, PTL DEF Spec, RecordKept

-----------------------------------------------------------------------------
(***************************************************************************)
(* Duplicate addresses.  Between its check and its Register an invocation  *)
(* holds an address nobody can see; whoever checks then is its rival.      *)
(***************************************************************************)
RaceInv ==
  \A p, q \in Proc :
    p # q /\ Holds(p) /\ Holds(q) /\ v4[p] = v4[q] => q \in rivals[p] \/ p \in rivals[q]

\* Only CheckUnique makes an invocation hold an address, or a rival.
LEMMA HoldStarts ==
  ASSUME TypeInv, [Next]_vars,
         \A p \in Proc : ~CheckUnique(p)
  PROVE  /\ rivals' = rivals
         /\ \A n \in Proc : Holds(n)' => Holds(n) /\ v4'[n] = v4[n]
<1>0. TypeOK
  BY DEF TypeInv
<1>1. rivals' = rivals
  <2>1. ASSUME NEW p \in Proc, SetupStep(p) PROVE rivals' = rivals
    BY <2>1 DEF SetupStep, Load, Prune, Forget, PrepareRootfs, RootfsFails, Reserve, GenerateOK,
         GenerateFails, AllocateFails, InjectDir, WriteConf, Provision, Start, SetupFails,
         KillSwitchOK, HandshakeOK, HandshakeInterrupted, Measure, AttemptTimesOut,
         CheckCollides, Retry, RetryPurge, Reclone, RecloneFails, ReleaseClaim, Register
  <2>2. ASSUME NEW p \in Proc, NEW g \in Thread, TeardownStep(p, g) PROVE rivals' = rivals
    BY <2>2 DEF TeardownStep, TdTest, TdSet, TdStop, TdPurge, TdUnreserve, TdRemove,
                TdVerify, TdAgain, TdReport
  <2>3. ASSUME NEW p \in Proc, \/ SigWake(p) \/ OpenCodeExits(p) \/ Interrupt(p)
                               \/ Crash(p) \/ Boot(p) \/ VMDies(p)
        PROVE  rivals' = rivals
    BY <2>3 DEF SigWake, OpenCodeExits, Interrupt, Crash, Boot, VMDies
  <2>4. ASSUME NEW x \in resv, Expire(x) PROVE rivals' = rivals
    BY <2>4 DEF Expire
  <2>5. CASE UNCHANGED vars
    BY <2>5 DEF vars
  <2> QED
    BY <2>1, <2>2, <2>3, <2>4, <2>5 DEF Next, MainStep, SigStep, Thread
<1> SUFFICES ASSUME NEW n \in Proc, Holds(n)' PROVE Holds(n) /\ v4'[n] = v4[n]
  BY <1>1
<1>2. Stable(n) /\ (InUse(n)' => InUse(n) \/ Register(n))
  BY StepStable, UseStarts DEF TypeInv
<1>3. CASE InUse(n)'
  <2>1. CASE InUse(n)
    BY <1>2, <2>1 DEF InUse, Holds, Stable, Past
  <2>2. CASE Register(n)
    BY <2>2 DEF Register, Step, At, Goto, Holds, tunnel
  <2> QED BY <1>2, <1>3, <2>1, <2>2
<1>4. CASE main'[n] \in {"release", "register"}
  <2> DEFINE Goal == main[n] \in {"release", "register"} /\ v4'[n] = v4[n]
  <2> USE <1>0, <1>4 DEF TypeOK, Step, At, Goto, Halt, tunnel
  <2>1. ASSUME NEW p \in Proc, SetupStep(p) PROVE Goal
    BY <2>1 DEF SetupStep, Load, Prune, Forget, PrepareRootfs, RootfsFails, Reserve, GenerateOK,
         GenerateFails, AllocateFails, InjectDir, WriteConf, Provision, Start, SetupFails,
         KillSwitchOK, HandshakeOK, HandshakeInterrupted, Measure, AttemptTimesOut,
         CheckCollides, Retry, RetryPurge, Reclone, RecloneFails, ReleaseClaim, Register, Stopped
  <2>2. ASSUME NEW p \in Proc, NEW g \in Thread, TeardownStep(p, g) PROVE Goal
    <3>1. main'[n] = main[n] \/ main'[n] \in Teardown \cup Stopped
      BY <2>2, TeardownMoves
    <3>2. v4' = v4
      BY <2>2 DEF TeardownStep, TdTest, TdSet, TdStop, TdPurge, TdUnreserve, TdRemove,
                  TdVerify, TdAgain, TdReport
    <3> QED BY <3>1, <3>2 DEF Teardown, Stopped
  <2>3. ASSUME NEW p \in Proc, \/ SigWake(p) \/ OpenCodeExits(p) \/ Interrupt(p)
                               \/ Crash(p) \/ Boot(p) \/ VMDies(p)
        PROVE  Goal
    BY <2>3 DEF SigWake, OpenCodeExits, Interrupt, Crash, Boot, VMDies
  <2>4. ASSUME NEW x \in resv, Expire(x) PROVE Goal
    BY <2>4 DEF Expire
  <2>5. ASSUME UNCHANGED vars PROVE Goal
    BY <2>5 DEF vars
  <2>6. Goal
    BY <2>1, <2>2, <2>3, <2>4, <2>5 DEF Next, MainStep, SigStep, Thread
  <2> QED BY <2>6 DEF Holds
<1> QED BY <1>3, <1>4 DEF Holds

\* RaceInv is inductive, given LiveInv.
LEMMA RaceStep == LiveInv /\ RaceInv /\ [Next]_vars => RaceInv'
<1> SUFFICES ASSUME LiveInv, RaceInv, [Next]_vars PROVE RaceInv'
  OBVIOUS
<1>1. CASE \A p \in Proc : ~CheckUnique(p)
  BY <1>1, HoldStarts DEF LiveInv, RaceInv
<1>2. ASSUME NEW c \in Proc, CheckUnique(c) PROVE RaceInv'
  <2> USE <1>2 DEF LiveInv, TypeInv, TypeOK
  <2>1. /\ main[c] = "check" /\ main' = [main EXCEPT ![c] = "release"]
        /\ UNCHANGED <<v4, vm, destroyed>>
        /\ rivals' = [rivals EXCEPT ![c] =
                        {q \in Proc \ {c} : main[q] \in {"release", "register"}}]
        /\ \A n \in Proc \ {c} : disk[n] # v4[c]
    BY DEF CheckUnique, Step, At, Goto, machine
  <2>2. \A n \in Proc \ {c} : Holds(n)' => Holds(n)
    BY <2>1 DEF Holds, InUse
  <2>3. \A n \in Proc \ {c} :
          Holds(n) /\ v4[n] = v4[c] => main[n] \in {"release", "register"}
    BY <2>1 DEF Holds, LiveRecorded
  <2>4. \A n \in Proc \ {c} : Holds(n)' /\ v4'[n] = v4'[c] => n \in rivals'[c]
    BY <2>1, <2>2, <2>3
  <2>5. \A n, m \in Proc \ {c} :
          n # m /\ Holds(n)' /\ Holds(m)' /\ v4'[n] = v4'[m]
            => n \in rivals'[m] \/ m \in rivals'[n]
    BY <2>1, <2>2 DEF RaceInv
  <2> QED BY <2>4, <2>5 DEF RaceInv
<1> QED BY <1>1, <1>2

\* Two VMs in use have one address only if the two invocations raced between
\* check and Register: everything else keeps addresses apart.
THEOREM DuplicatesNeedARace == Spec => []DuplicateOnlyIfRaced
<1>1. Init => RaceInv
  BY DEF Init, RaceInv, Holds, InUse
<1>2. RaceInv => DuplicateOnlyIfRaced
  BY DEF RaceInv, DuplicateOnlyIfRaced, Holds
<1> QED BY <1>1, <1>2, LiveInvariant, RaceStep, PTL DEF Spec

-----------------------------------------------------------------------------
(***************************************************************************)
(* newAuto as an allocator of identities.                                  *)
(***************************************************************************)
Unchecked == (Early \cup Setup) \ {"release", "register"}

\* Whoever has an address has one, and its rivals are those of its only check.
GrantInv ==
  /\ \A p \in Proc : Holds(p) => v4[p] \in IP
  /\ \A p \in Proc : main[p] \in Unchecked => rivals[p] = {}
  /\ rivals \in [Proc -> SUBSET Proc]

\* An invocation that has passed its check never comes back to it.
LEMMA CheckedOnce ==
  ASSUME TypeOK, [Next]_vars, NEW n \in Proc, main'[n] \in Unchecked
  PROVE  main[n] \in Unchecked
<1> USE DEF TypeOK, Unchecked, Early, Setup, Step, At, Goto, Halt
<1>1. ASSUME NEW p \in Proc, SetupStep(p) PROVE main[n] \in Unchecked
  BY <1>1 DEF SetupStep, Load, Prune, Forget, PrepareRootfs, RootfsFails, Reserve, GenerateOK,
         GenerateFails, AllocateFails, InjectDir, WriteConf, Provision, Start, SetupFails,
         KillSwitchOK, HandshakeOK, HandshakeInterrupted, Measure, AttemptTimesOut,
         CheckUnique, CheckCollides, Retry, RetryPurge, Reclone, RecloneFails,
         ReleaseClaim, Register
<1>2. ASSUME NEW p \in Proc, NEW g \in Thread, TeardownStep(p, g) PROVE main[n] \in Unchecked
  BY <1>2, TeardownMoves DEF Teardown, Stopped
<1>3. ASSUME NEW p \in Proc, \/ SigWake(p) \/ OpenCodeExits(p) \/ Interrupt(p)
                             \/ Crash(p) \/ Boot(p) \/ VMDies(p)
      PROVE  main[n] \in Unchecked
  BY <1>3 DEF SigWake, OpenCodeExits, Interrupt, Crash, Boot, VMDies
<1>4. ASSUME NEW x \in resv, Expire(x) PROVE main[n] \in Unchecked
  BY <1>4 DEF Expire
<1>5. CASE UNCHANGED vars
  BY <1>5 DEF vars
<1> QED BY <1>1, <1>2, <1>3, <1>4, <1>5 DEF Next, MainStep, SigStep, Thread

\* What decides whether an invocation has an address.
Same(n) ==
  main'[n] = main[n] /\ v4'[n] = v4[n] /\ destroyed'[n] = destroyed[n] /\ vm'[n] = vm[n]

\* A step is one invocation's.
LEMMA OneAtATime ==
  ASSUME TypeOK, [Next]_vars
  PROVE  \/ \A n \in Proc : Same(n)
         \/ \E p \in Proc : \A n \in Proc \ {p} : Same(n)
<1> USE DEF TypeOK, Same, Step, At, Goto, Halt, tunnel, machine
<1>1. ASSUME NEW p \in Proc, SetupStep(p) PROVE \A n \in Proc \ {p} : Same(n)
  <2>1. destroyed' = destroyed
    BY <1>1 DEF SetupStep, Load, Prune, Forget, PrepareRootfs, RootfsFails, Reserve, GenerateOK,
         GenerateFails, AllocateFails, InjectDir, WriteConf, Provision, Start, SetupFails,
         KillSwitchOK, HandshakeOK, HandshakeInterrupted, Measure, AttemptTimesOut,
         CheckUnique, CheckCollides, Retry, RetryPurge, Reclone, RecloneFails,
         ReleaseClaim, Register
  <2> QED BY <1>1, <2>1, SetupMoves
<1>2. ASSUME NEW p \in Proc, NEW g \in Thread, TeardownStep(p, g)
      PROVE  \A n \in Proc \ {p} : Same(n)
  BY <1>2, StopEffect DEF TeardownStep, TdTest, TdSet, TdStop, TdPurge, TdUnreserve,
         TdRemove, TdVerify, TdAgain, TdReport
<1>3. ASSUME NEW p \in Proc, \/ SigWake(p) \/ OpenCodeExits(p) \/ Interrupt(p)
                             \/ Crash(p) \/ Boot(p) \/ VMDies(p)
      PROVE  \A n \in Proc \ {p} : Same(n)
  BY <1>3 DEF SigWake, OpenCodeExits, Interrupt, Crash, Boot, VMDies, MachineOff
<1>4. ASSUME NEW x \in resv, Expire(x) PROVE \A n \in Proc : Same(n)
  BY <1>4 DEF Expire
<1>5. CASE UNCHANGED vars
  BY <1>5 DEF vars
<1> QED BY <1>1, <1>2, <1>3, <1>4, <1>5 DEF Next, MainStep, SigStep, Thread

\* The check, in the terms of the refinement's proof.
LEMMA CheckEffect ==
  ASSUME TypeInv, NEW c \in Proc, CheckUnique(c)
  PROVE  /\ main[c] = "check" /\ main' = [main EXCEPT ![c] = "release"]
         /\ UNCHANGED <<v4, vm, destroyed>> /\ v4[c] \in IP
         /\ rivals' = [rivals EXCEPT ![c] =
                         {q \in Proc \ {c} : main[q] \in {"release", "register"}}]
         /\ \A n \in Proc \ {c} : disk[n] # v4[c]
BY DEF TypeInv, TypeOK, AddressInv, CheckUnique, Step, At, Goto, machine

\* GrantInv is inductive, given TypeInv.
LEMMA GrantStep == TypeInv /\ GrantInv /\ [Next]_vars => GrantInv'
<1> SUFFICES ASSUME TypeInv, GrantInv, [Next]_vars PROVE GrantInv'
  OBVIOUS
<1>1. \A n \in Proc : main'[n] \in Unchecked => main[n] \in Unchecked
  BY CheckedOnce DEF TypeInv
<1>2. CASE \A p \in Proc : ~CheckUnique(p)
  BY <1>1, <1>2, HoldStarts DEF GrantInv
<1>3. ASSUME NEW c \in Proc, CheckUnique(c) PROVE GrantInv'
  <2>1. /\ main[c] = "check" /\ main' = [main EXCEPT ![c] = "release"]
        /\ UNCHANGED <<v4, vm, destroyed>> /\ v4[c] \in IP
        /\ rivals' = [rivals EXCEPT ![c] =
                        {q \in Proc \ {c} : main[q] \in {"release", "register"}}]
    BY <1>3, CheckEffect
  <2>2. main'[c] = "release"
    BY <2>1 DEF TypeInv, TypeOK
  <2>3. \A n \in Proc \ {c} : Holds(n)' => Holds(n)
    BY <2>1 DEF Holds, InUse
  <2> QED BY <1>1, <2>1, <2>2, <2>3 DEF GrantInv, Unchecked
<1> QED BY <1>2, <1>3

\* The variables of the allocator.
Granted == [p \in Proc |-> [v4 |-> IF Holds(p) THEN v4[p] ELSE None, v6 |-> None]]
Active  == {p \in Proc : InUse(p)}
Raced   == {pair \in SUBSET Proc : \E p \in Proc : \E q \in rivals[p] : pair = {p, q}}

\* Who has an address and is not on record with it is about to register.
LEMMA UnseenRivals ==
  ASSUME GrantInv
  PROVE  {q \in Proc \ Active : Granted[q] # Promise!Blank}
           = {q \in Proc : main[q] \in {"release", "register"}}
<1>1. \A q \in Proc : Granted[q] # Promise!Blank <=> Holds(q)
  BY NoneAssumption DEF GrantInv, Granted, Promise!Blank
<1>2. \A q \in Proc : main[q] \in {"release", "register"} => Holds(q) /\ ~InUse(q)
  BY DEF Holds, InUse
<1> QED BY <1>1, <1>2 DEF Active, Holds

\* A check that succeeds grants the address.
LEMMA CheckGrants ==
  ASSUME LiveInv, GrantInv, NEW c \in Proc, CheckUnique(c) PROVE Promise!Grant(c)
<1> DEFINE i == [v4 |-> v4[c], v6 |-> None]
<1>1. /\ main[c] = "check" /\ main' = [main EXCEPT ![c] = "release"]
      /\ UNCHANGED <<v4, vm, destroyed>> /\ v4[c] \in IP
      /\ rivals' = [rivals EXCEPT ![c] =
                      {q \in Proc \ {c} : main[q] \in {"release", "register"}}]
      /\ \A n \in Proc \ {c} : disk[n] # v4[c]
  BY CheckEffect DEF LiveInv
<1>2. main'[c] = "release" /\ \A n \in Proc \ {c} : main'[n] = main[n]
  BY <1>1 DEF LiveInv, TypeInv, TypeOK
<1>3. ~Holds(c) /\ Holds(c)' /\ \A n \in Proc \ {c} : Holds(n)' = Holds(n)
  BY <1>1, <1>2 DEF Holds, InUse
<1>4. \A n \in Proc : InUse(n)' = InUse(n)
  BY <1>1, <1>2 DEF InUse
<1>5. Granted[c] = Promise!Blank /\ Granted' = [Granted EXCEPT ![c] = i] /\ Active' = Active
  BY <1>1, <1>3, <1>4 DEF Granted, Active, Promise!Blank
<1>6. i \in Promise!Identity \ {Promise!Blank}
  BY <1>1, NoneAssumption DEF Promise!Identity, Promise!Blank
<1>7. \A q \in Active : ~Promise!Shares(i, Granted[q])
  <2> SUFFICES ASSUME NEW q \in Proc, InUse(q) PROVE v4[q] # v4[c]
    BY DEF Active, Granted, Holds, Promise!Shares
  <2> QED BY <1>1 DEF LiveInv, LiveRecorded, InUse
<1>8. Raced' = Raced \cup {{c, q} : q \in {q \in Proc \ Active : Granted[q] # Promise!Blank}}
  <2>1. rivals[c] = {}
    BY <1>1 DEF GrantInv, Unchecked, Early, Setup
  <2>2. /\ rivals'[c] = {q \in Proc : main[q] \in {"release", "register"}}
        /\ \A p \in Proc \ {c} : rivals'[p] = rivals[p]
    BY <1>1 DEF GrantInv
  <2>3. Raced' = Raced \cup {{c, q} : q \in {q \in Proc : main[q] \in {"release", "register"}}}
    BY <2>1, <2>2 DEF Raced
  <2> QED BY <2>3, UnseenRivals
<1> QED BY <1>5, <1>6, <1>7, <1>8
        DEF Promise!Grant, Promise!Unseen, Granted, Active, Raced

\* Every other step is a stutter, the registration of an invocation, or its end.
LEMMA OtherSteps ==
  ASSUME LiveInv, GrantInv, [Next]_vars, \A p \in Proc : ~CheckUnique(p)
  PROVE  \/ UNCHANGED Promise!vars
         \/ \E p \in Proc : Promise!Register(p) \/ Promise!Leave(p)
<1> USE DEF LiveInv
<1>1. /\ rivals' = rivals
      /\ \A n \in Proc : Holds(n)' => Holds(n) /\ v4'[n] = v4[n]
  BY HoldStarts
<1>2. Raced' = Raced
  BY <1>1 DEF Raced
<1>3. \A n \in Proc : Same(n) => (Holds(n)' <=> Holds(n)) /\ (InUse(n)' <=> InUse(n))
  BY DEF Same, Holds, InUse
<1>4. \A n \in Proc : InUse(n)' => InUse(n) \/ main[n] = "register"
  BY UseStarts DEF TypeInv, Register, Step, At
<1>5. ASSUME \A n \in Proc : (Holds(n)' <=> Holds(n)) /\ (InUse(n)' <=> InUse(n))
      PROVE  UNCHANGED Promise!vars
  <2>1. Granted' = Granted
    BY <1>1, <1>5 DEF Granted
  <2>2. Active' = Active
    BY <1>5 DEF Active
  <2> QED BY <1>2, <2>1, <2>2 DEF Promise!vars, Granted, Active, Raced
<1>6. ASSUME NEW p \in Proc, \A n \in Proc \ {p} : Same(n)
      PROVE  UNCHANGED Promise!vars \/ Promise!Register(p) \/ Promise!Leave(p)
  <2>1. \A n \in Proc \ {p} : (Holds(n)' <=> Holds(n)) /\ (InUse(n)' <=> InUse(n))
    BY <1>3, <1>6
  <2>2. \A n \in Proc : InUse(n) => Holds(n)
    BY DEF Holds
  <2>3. CASE ~Holds(p)
    <3>1. ~Holds(p)' /\ ~InUse(p) /\ ~InUse(p)'
      BY <1>1, <2>3 DEF Holds
    <3> QED BY <1>5, <2>1, <2>3, <3>1
  <2>4. CASE Holds(p) /\ ~Holds(p)'
    <3>1. Granted[p] # Promise!Blank
      BY <2>4, NoneAssumption DEF GrantInv, Granted, Promise!Blank
    <3>2. Granted' = [Granted EXCEPT ![p] = Promise!Blank]
      BY <1>1, <2>1, <2>4 DEF Granted, Promise!Blank
    <3>3. Active' = Active \ {p}
      BY <2>1, <2>4 DEF Active, Holds
    <3> QED BY <1>2, <3>1, <3>2, <3>3 DEF Promise!Leave, Granted, Active, Raced
  <2>5. CASE Holds(p) /\ Holds(p)'
    <3>1. Granted' = Granted
      BY <1>1, <2>1, <2>5 DEF Granted
    <3>2. CASE InUse(p)' <=> InUse(p)
      BY <1>5, <2>1, <2>5, <3>2
    <3>3. CASE ~InUse(p) /\ InUse(p)'
      <4>1. p \in {q \in Proc \ Active : Granted[q] # Promise!Blank}
        BY <2>5, <3>3, UnseenRivals, <1>4
      <4>2. Active' = Active \cup {p}
        BY <2>1, <3>3 DEF Active
      <4> QED BY <1>2, <3>1, <4>1, <4>2
              DEF Promise!Register, Promise!Unseen, Granted, Active, Raced
    <3>4. CASE InUse(p) /\ ~InUse(p)'
      <4>1. main[p] = "opencode" /\ main'[p] \in {"release", "register"}
        BY <2>5, <3>4 DEF Holds, InUse
      <4>2. Stable(p)
        BY StepStable DEF TypeInv
      <4> QED BY <4>1, <4>2 DEF Stable, Past, Teardown, Stopped
    <3> QED BY <3>2, <3>3, <3>4 DEF InUse
  <2> QED BY <2>3, <2>4, <2>5
<1> QED BY <1>3, <1>5, <1>6, OneAtATime DEF TypeInv

\* Comparing with the records of a shared file, newAuto implements the
\* allocator of identities.
THEOREM NewAutoAllocates == Spec => Promised
<1>1. Init => Promise!Init /\ GrantInv
  <2> SUFFICES ASSUME Init PROVE Promise!Init /\ GrantInv
    OBVIOUS
  <2>1. \A p \in Proc : ~Holds(p) /\ ~InUse(p)
    BY DEF Init, Holds, InUse
  <2>2. \A p \in Proc : rivals[p] = {}
    BY DEF Init
  <2> QED BY <2>1, <2>2 DEF Init, GrantInv, Promise!Init, Promise!Blank
<1>2. LiveInv /\ GrantInv /\ [Next]_vars => GrantInv'
  BY GrantStep DEF LiveInv
<1>3. LiveInv /\ GrantInv /\ [Next]_vars => [Promise!Next]_(Promise!vars)
  BY CheckGrants, OtherSteps DEF Promise!Next
<1> QED BY <1>1, <1>2, <1>3, LiveInvariant, PTL DEF Spec, Promised, Promise!Spec
-----------------------------------------------------------------------------
(***************************************************************************)
(* SetupAdvances, the part of SetupEnds that is a safety property: a setup *)
(* of finitely many servers and records takes finitely many steps.         *)
(***************************************************************************)

\* Every step of newAuto up to OpenCode advances its setup.
LEMMA SetupForward ==
  ASSUME TypeOK, NEW p \in Proc, SetupStep(p) PROVE Advances(p)
<1> USE DEF TypeOK, Step, At, Goto, Halt, tunnel, Advances, Progress
<1>1. CASE Load(p)
  BY <1>1 DEF Load
<1>2. CASE Prune(p)
  BY <1>2 DEF Prune
<1>3. CASE Forget(p)
  BY <1>3 DEF Forget
<1>4. CASE PrepareRootfs(p)
  BY <1>4 DEF PrepareRootfs
<1>5. CASE RootfsFails(p)
  BY <1>5 DEF RootfsFails, Early, Setup
<1>6. CASE GenerateOK(p)
  BY <1>6 DEF GenerateOK
<1>7. CASE GenerateFails(p)
  BY <1>7 DEF GenerateFails
<1>8. CASE AllocateFails(p)
  BY <1>8 DEF AllocateFails, Early, Setup
<1>9. CASE InjectDir(p)
  BY <1>9 DEF InjectDir
<1>10. CASE WriteConf(p)
  BY <1>10 DEF WriteConf
<1>11. CASE Provision(p)
  BY <1>11 DEF Provision
<1>12. CASE Start(p)
  BY <1>12 DEF Start
<1>13. CASE SetupFails(p)
  BY <1>13 DEF SetupFails, Early, Setup
<1>14. CASE KillSwitchOK(p)
  BY <1>14 DEF KillSwitchOK
<1>15. CASE HandshakeOK(p)
  BY <1>15 DEF HandshakeOK
<1>16. CASE HandshakeInterrupted(p)
  BY <1>16 DEF HandshakeInterrupted, Early, Setup
<1>17. CASE AttemptTimesOut(p)
  BY <1>17 DEF AttemptTimesOut
<1>18. CASE CheckUnique(p)
  BY <1>18 DEF CheckUnique
<1>19. CASE CheckCollides(p)
  BY <1>19 DEF CheckCollides
<1>20. CASE Retry(p)
  BY <1>20 DEF Retry
<1>21. CASE RetryPurge(p)
  BY <1>21 DEF RetryPurge
<1>22. CASE Reclone(p)
  BY <1>22 DEF Reclone, Early, Setup
<1>23. CASE RecloneFails(p)
  BY <1>23 DEF RecloneFails, Early, Setup
<1>24. CASE ReleaseClaim(p)
  BY <1>24 DEF ReleaseClaim
<1>25. CASE Register(p)
  BY <1>25 DEF Register, Early, Setup
<1>26. ASSUME NEW k \in Key, Reserve(p, k) PROVE Advances(p)
  BY <1>26 DEF Reserve
<1>27. ASSUME NEW ip \in IP, Measure(p, ip) PROVE Advances(p)
  BY <1>27 DEF Measure
<1> QED BY <1>1, <1>2, <1>3, <1>4, <1>5, <1>6, <1>7, <1>8, <1>9, <1>10, <1>11, <1>12,
           <1>13, <1>14, <1>15, <1>16, <1>17, <1>18, <1>19, <1>20, <1>21, <1>22, <1>23,
           <1>24, <1>25, <1>26, <1>27
           DEF SetupStep

\* Whatever else happens leaves the setup of p where it is, or ends it.
LEMMA SetupKept ==
  ASSUME TypeOK, [Next]_vars, NEW p \in Proc, main[p] \in Early \cup Setup, ~SetupStep(p)
  PROVE  Advances(p) \/ UNCHANGED <<main[p], attempt[p], tried[p], stale[p]>>
<1> USE DEF TypeOK, Step, At, Goto, Halt, tunnel
<1>1. ASSUME NEW q \in Proc \ {p}, SetupStep(q)
      PROVE  UNCHANGED <<main[p], attempt[p], tried[p], stale[p]>>
  <2>1. main'[p] = main[p]
    BY <1>1, SetupMoves
  <2> DEFINE Still == attempt'[p] = attempt[p] /\ tried'[p] = tried[p] /\ stale'[p] = stale[p]
  <2>2. CASE Load(q) \/ Prune(q) \/ Forget(q) \/ PrepareRootfs(q) \/ RootfsFails(q)
    <3>1. Still BY <1>1, <2>2 DEF Load, Prune, Forget, PrepareRootfs, RootfsFails
    <3> QED BY <2>1, <3>1
  <2>3. CASE \/ \E k \in Key : Reserve(q, k)
             \/ GenerateOK(q) \/ GenerateFails(q) \/ AllocateFails(q)
    <3>1. Still BY <1>1, <2>3 DEF Reserve, GenerateOK, GenerateFails, AllocateFails
    <3> QED BY <2>1, <3>1
  <2>4. CASE InjectDir(q) \/ WriteConf(q) \/ Provision(q) \/ Start(q) \/ SetupFails(q)
    <3>1. Still BY <1>1, <2>4 DEF InjectDir, WriteConf, Provision, Start, SetupFails
    <3> QED BY <2>1, <3>1
  <2>5. CASE \/ KillSwitchOK(q) \/ HandshakeOK(q) \/ HandshakeInterrupted(q)
             \/ (\E ip \in IP : Measure(q, ip)) \/ AttemptTimesOut(q)
             \/ CheckUnique(q) \/ CheckCollides(q)
    <3>1. Still
      BY <1>1, <2>5 DEF KillSwitchOK, HandshakeOK, HandshakeInterrupted, Measure,
                        AttemptTimesOut, CheckUnique, CheckCollides
    <3> QED BY <2>1, <3>1
  <2>6. CASE \/ Retry(q) \/ RetryPurge(q) \/ Reclone(q) \/ RecloneFails(q)
             \/ ReleaseClaim(q) \/ Register(q)
    <3>1. Still
      BY <1>1, <2>6 DEF Retry, RetryPurge, Reclone, RecloneFails, ReleaseClaim, Register
    <3> QED BY <2>1, <3>1
  <2> QED BY <1>1, <2>2, <2>3, <2>4, <2>5, <2>6 DEF SetupStep
<1>2. ASSUME NEW q \in Proc, NEW g \in Thread, TeardownStep(q, g)
      PROVE  Advances(p) \/ UNCHANGED <<main[p], attempt[p], tried[p], stale[p]>>
  <2>1. UNCHANGED <<attempt, tried, stale>>
    BY <1>2 DEF TeardownStep, TdTest, TdSet, TdStop, TdPurge, TdUnreserve, TdRemove,
           TdVerify, TdAgain, TdReport
  <2>2. main'[p] = main[p] \/ main'[p] \in Teardown \cup Stopped
    BY <1>2, TeardownMoves
  <2> QED BY <2>1, <2>2 DEF Advances, Early, Setup, Teardown, Stopped
<1>3. ASSUME NEW q \in Proc, \/ SigWake(q) \/ OpenCodeExits(q) \/ Interrupt(q)
                             \/ Crash(q) \/ Boot(q) \/ VMDies(q)
      PROVE  Advances(p) \/ UNCHANGED <<main[p], attempt[p], tried[p], stale[p]>>
  <2>1. UNCHANGED <<attempt, tried, stale>>
    BY <1>3 DEF SigWake, OpenCodeExits, Interrupt, Crash, Boot, VMDies
  <2>2. main'[p] \in {main[p], "aborted", "crashed"}
    BY <1>3 DEF SigWake, OpenCodeExits, Interrupt, Crash, Boot, VMDies, Early, Setup
  <2> QED BY <2>1, <2>2 DEF Advances, Early, Setup
<1>4. ASSUME NEW x \in resv, Expire(x)
      PROVE  UNCHANGED <<main[p], attempt[p], tried[p], stale[p]>>
  BY <1>4 DEF Expire
<1>5. CASE UNCHANGED vars
  BY <1>5 DEF vars
<1> QED BY <1>1, <1>2, <1>3, <1>4, <1>5 DEF Next, MainStep, SigStep, Thread

\* Every step of a setup advances it, for any number of attempts, servers and
\* invocations, and none sets it back.
THEOREM SetupGoesOn == Spec => SetupAdvances
<1> DEFINE A == \A p \in Proc :
             main[p] \in Early \cup Setup =>
               \/ Advances(p)
               \/ ~SetupStep(p) /\ UNCHANGED <<main[p], attempt[p], tried[p], stale[p]>>
<1>1. TypeOK /\ [Next]_vars => [A]_vars
  BY SetupForward, SetupKept
<1> QED BY <1>1, TypeCorrect, PTL DEF Spec, SetupAdvances
-----------------------------------------------------------------------------
(***************************************************************************)
(* FreshMachine.  Between the Stop of one attempt and the Start of the     *)
(* next there is no machine but one that has outlived the Stop; it stays   *)
(* the machine of the next attempt until it dies.                          *)
(***************************************************************************)

\* Before Start, in the first attempt or after the purge of an earlier one.
Unstarted == Early \cup {"rootfs", "alloc", "generate", "inject", "conf", "create", "start",
                         "reclone"}
Started   == {"ks", "hs", "measure", "check", "release", "register", "opencode"}

Fresh(n) == /\ main[n] \in Unstarted => Gone(n)
            /\ main[n] \in Started => Gone(n) \/ born[n] = attempt[n]
FreshInv == \A n \in Proc : Fresh(n)

\* A step of the setup of n keeps it fresh: Start may make a machine, which is then
\* of this attempt; only Reclone begins another.
LEMMA SetupFresh == ASSUME TypeOK, NEW n \in Proc, Fresh(n), SetupStep(n) PROVE Fresh(n)'
<1> USE DEF TypeOK, Fresh, Step, At, Goto, Halt, tunnel, machine
<1>1. CASE Start(n)
  BY <1>1, StartEffect DEF Gone, Unstarted, Started, Early
<1>2. CASE RetryPurge(n)
  <2>1. main'[n] = "reclone" /\ Gone(n)'
    BY <1>2, StopEffect DEF RetryPurge
  <2> QED BY <2>1 DEF Started
<1>3. CASE Reclone(n)
  <2>1. Gone(n) /\ UNCHANGED machine /\ main'[n] \in {"alloc", "td"}
    BY <1>3 DEF Reclone, Unstarted
  <2> QED BY <2>1 DEF Gone, Unstarted, Started, Early
<1>4. CASE ~Start(n) /\ ~RetryPurge(n) /\ ~Reclone(n)
  <2>1. UNCHANGED machine /\ attempt'[n] = attempt[n]
    BY <1>4 DEF SetupStep, Load, Prune, Forget, PrepareRootfs, RootfsFails, Reserve, GenerateOK,
         GenerateFails, AllocateFails, InjectDir, WriteConf, Provision, SetupFails,
         KillSwitchOK, HandshakeOK, HandshakeInterrupted, Measure, AttemptTimesOut,
         CheckUnique, CheckCollides, Retry, RecloneFails, ReleaseClaim, Register
  <2>2. /\ main'[n] \in Unstarted => main[n] \in Unstarted
        /\ main'[n] \in Started => main[n] \in Started
    BY <1>4 DEF SetupStep, Load, Prune, Forget, PrepareRootfs, RootfsFails, Reserve, GenerateOK,
         GenerateFails, AllocateFails, InjectDir, WriteConf, Provision, SetupFails,
         KillSwitchOK, HandshakeOK, HandshakeInterrupted, Measure, AttemptTimesOut,
         CheckUnique, CheckCollides, Retry, RecloneFails, ReleaseClaim, Register,
         Unstarted, Started, Early, Stopped, Teardown
  <2> QED BY <2>1, <2>2 DEF Gone
<1> QED BY <1>1, <1>2, <1>3, <1>4

\* So does everything else that happens.
LEMMA OtherFresh ==
  ASSUME TypeOK, NEW n \in Proc, Fresh(n), [Next]_vars, ~SetupStep(n) PROVE Fresh(n)'
<1> USE DEF TypeOK, Step, At, Goto, Halt, tunnel, machine
<1>1. ASSUME main'[n] = main[n] \/ main'[n] \notin Unstarted \cup Started,
             attempt'[n] = attempt[n],
             Gone(n) => Gone(n)', Gone(n)' \/ born'[n] = born[n]
      PROVE  Fresh(n)'
  BY <1>1 DEF Fresh
<1>2. ASSUME NEW p \in Proc \ {n}, SetupStep(p) PROVE Fresh(n)'
  <2>1. main'[n] = main[n] /\ vm'[n] = vm[n] /\ born'[n] = born[n] /\ survived'[n] = survived[n]
    BY <1>2, SetupMoves
  <2>2. attempt'[n] = attempt[n]
    BY <1>2 DEF SetupStep, Load, Prune, Forget, PrepareRootfs, RootfsFails, Reserve, GenerateOK,
         GenerateFails, AllocateFails, InjectDir, WriteConf, Provision, Start, SetupFails,
         KillSwitchOK, HandshakeOK, HandshakeInterrupted, Measure, AttemptTimesOut,
         CheckUnique, CheckCollides, Retry, RetryPurge, Reclone, RecloneFails,
         ReleaseClaim, Register
  <2> QED BY <1>1, <2>1, <2>2 DEF Gone
<1>3. ASSUME NEW p \in Proc, NEW g \in Thread, TeardownStep(p, g) PROVE Fresh(n)'
  <2>1. main'[n] = main[n] \/ main'[n] \notin Unstarted \cup Started
    BY <1>3, TeardownMoves DEF Teardown, Stopped, Unstarted, Started, Early
  <2>2. attempt' = attempt /\ (UNCHANGED machine \/ StopVM(p))
    BY <1>3 DEF TeardownStep, TdTest, TdSet, TdStop, TdPurge, TdUnreserve, TdRemove, TdVerify,
                TdAgain, TdReport
  <2>3. (Gone(n) => Gone(n)') /\ (Gone(n)' \/ born'[n] = born[n])
    BY <2>2, StopEffect DEF Gone
  <2> QED BY <1>1, <2>1, <2>2, <2>3
<1>4. ASSUME NEW p \in Proc, SigWake(p) \/ OpenCodeExits(p) \/ Interrupt(p) \/ Crash(p)
      PROVE  Fresh(n)'
  <2>1. main'[n] = main[n] \/ main'[n] \notin Unstarted \cup Started
    BY <1>4 DEF SigWake, OpenCodeExits, Interrupt, Crash, Unstarted, Started, Early
  <2>2. attempt' = attempt /\ UNCHANGED machine
    BY <1>4 DEF SigWake, OpenCodeExits, Interrupt, Crash
  <2> QED BY <1>1, <2>1, <2>2 DEF Gone
<1>5. ASSUME NEW p \in Proc, Boot(p) \/ VMDies(p) PROVE Fresh(n)'
  <2>1. main' = main /\ attempt' = attempt
    BY <1>5 DEF Boot, VMDies
  <2>2. (Gone(n) => Gone(n)') /\ (Gone(n)' \/ born'[n] = born[n])
    BY <1>5 DEF Boot, VMDies, MachineOff, Gone
  <2> QED BY <1>1, <2>1, <2>2
<1>6. CASE (\E x \in resv : Expire(x)) \/ UNCHANGED vars
  BY <1>1, <1>6 DEF Expire, vars, Gone
<1> QED BY <1>2, <1>3, <1>4, <1>5, <1>6 DEF Next, MainStep, SigStep, Thread

\* What an attempt polls, measures and uses is its own machine, unless an earlier one
\* outlived its Stop.
THEOREM OwnMachine == Spec => []FreshMachine
<1>1. Init => FreshInv
  BY DEF Init, FreshInv, Fresh, Gone, Started
<1>2. TypeOK /\ FreshInv /\ [Next]_vars => FreshInv'
  BY SetupFresh, OtherFresh DEF FreshInv
<1>3. FreshInv => FreshMachine
  BY DEF FreshInv, Fresh, FreshMachine, Gone, Started
<1> QED BY <1>1, <1>2, <1>3, TypeCorrect, PTL DEF Spec
=============================================================================
