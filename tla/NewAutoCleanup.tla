--------------------------- MODULE NewAutoCleanup ---------------------------
(***************************************************************************)
(* Proof of what an invocation that ends by itself leaves (CleanExit of    *)
(* NewAuto), for any number of invocations and attempts and whatever part  *)
(* of a cleanup may fail.                                                  *)
(*                                                                         *)
(* The invariant, Tidy, follows one invocation as long as it is neither    *)
(* interrupted nor killed: where it may hold a claim and on what, what its *)
(* teardown has removed so far or could not remove, and what it said of    *)
(* its machine.  The others may drop its claims and its secrets, and add   *)
(* nothing to either.                                                      *)
(***************************************************************************)
EXTENDS NewAutoProofs

\* Between Reserve and the Release that answers it.
Held == {"generate", "inject", "conf", "create", "start", "ks", "hs", "measure",
         "check", "retry", "release"}

Ended == {"exited", "warned"}

\* After the purge of the teardown.
Purged == {"td_unreserve", "td_remove", "td_verify", "td_again", "td_report"} \cup Ended

OwnClaims(n) == {x \in resv : x.inst = n}

FilesGone(n) == /\ rootfs[n] = "none" \/ "rootfs" \in kept[n]
                /\ sdir[n] = "none" \/ "secrets" \in kept[n]

\* The machine is off, or the invocation said that it is not, if it could ask.
Reported(n) == \/ vm[n] = "off"
               \/ survived[n] /\ (main[n] = "warned" \/ "status" \in MayFail)

Tidy(n) ==
  main[n] # "crashed" /\ ~ctxDone[n] =>
    /\ \A x \in OwnClaims(n) : main[n] \in Held /\ x.key = key[n]
    /\ main[n] = "release" => resKey[n] = key[n]
    /\ destroyed[n] => main[n] \in AfterSet \cup Ended
    /\ main[n] \in Purged => FilesGone(n)
    /\ main[n] \in Ended => Reported(n)

CleanInv == ThreadInv /\ \A n \in Proc : Tidy(n)

-----------------------------------------------------------------------------
(***************************************************************************)
(* What the operations on the list do to the claims of one invocation.     *)
(***************************************************************************)

\* Release adds no claim.
LEMMA ReleaseAddsNothing ==
  ASSUME NEW k, NEW n \in Proc, resv' = WithoutClaims(resv, k)
  PROVE  OwnClaims(n)' \subseteq OwnClaims(n)
BY DEF WithoutClaims, OwnClaims

\* Release drops the claims of an invocation that has them on that server only.
LEMMA ReleaseDrops ==
  ASSUME resv \in SUBSET Entry, NEW n \in Proc, NEW k,
         \A x \in OwnClaims(n) : x.key = k,
         resv' = WithoutClaims(resv, k)
  PROVE  OwnClaims(n)' = {}
<1>1. \A x \in OwnClaims(n) : ~x.unsuitable
  BY InstanceAssumption DEF OwnClaims, Entry
<1> QED BY <1>1 DEF WithoutClaims, OwnClaims

\* A mark belongs to nobody: marking and releasing adds no claim either ...
LEMMA MarkAddsNothing ==
  ASSUME NEW k, NEW n \in Proc,
         resv' = WithoutClaims(WithMark(resv, k, Mark(k)), k)
  PROVE  OwnClaims(n)' \subseteq OwnClaims(n)
<1>1. Mark(k).inst # n
  BY InstanceAssumption DEF Mark
<1> QED BY <1>1 DEF WithoutClaims, WithMark, OwnClaims

\* ... and drops what Release drops.
LEMMA MarkDrops ==
  ASSUME resv \in SUBSET Entry, NEW n \in Proc, NEW k,
         \A x \in OwnClaims(n) : x.key = k,
         resv' = WithoutClaims(WithMark(resv, k, Mark(k)), k)
  PROVE  OwnClaims(n)' = {}
<1>1. \A x \in OwnClaims(n) : ~x.unsuitable
  BY InstanceAssumption DEF OwnClaims, Entry
<1>2. Mark(k).inst # n
  BY InstanceAssumption DEF Mark
<1> QED BY <1>1, <1>2 DEF WithoutClaims, WithMark, OwnClaims

-----------------------------------------------------------------------------
(***************************************************************************)
(* The steps of the other invocations.                                     *)
(***************************************************************************)

\* Nothing of n changes but that claims and secrets of it may be gone.
Untouched(n) ==
  /\ main'[n] = main[n] /\ ctxDone'[n] = ctxDone[n] /\ destroyed'[n] = destroyed[n]
  /\ key'[n] = key[n] /\ resKey'[n] = resKey[n]
  /\ vm'[n] = "off" \/ (vm'[n] = vm[n] /\ survived'[n] = survived[n])
  /\ rootfs'[n] = rootfs[n] /\ kept'[n] = kept[n]
  /\ sdir[n] = "none" => sdir'[n] = "none"
  /\ OwnClaims(n)' \subseteq OwnClaims(n)

\* What is left untouched stays tidy.
LEMMA UntouchedTidy == ASSUME NEW n \in Proc, Tidy(n), Untouched(n) PROVE Tidy(n)'
BY DEF Untouched, Tidy, FilesGone, Reported

\* The threads, the tunnel and the files of n are its own.
LEMMA OthersLeave ==
  ASSUME TypeOK, NEW p \in Proc, NEW n \in Proc \ {p},
         SetupStep(p) \/ \E g \in Thread : TeardownStep(p, g)
  PROVE  /\ main'[n] = main[n] /\ ctxDone'[n] = ctxDone[n] /\ destroyed'[n] = destroyed[n]
         /\ key'[n] = key[n] /\ resKey'[n] = resKey[n]
         /\ vm'[n] = vm[n] /\ survived'[n] = survived[n]
         /\ rootfs'[n] = rootfs[n] /\ kept'[n] = kept[n]
         /\ sdir[n] = "none" => sdir'[n] = "none"
<1> USE DEF TypeOK, Step, At, Goto, Halt, tunnel, files, machine
<1>1. CASE SetupStep(p)
  <2>1. /\ main'[n] = main[n] /\ ctxDone'[n] = ctxDone[n]
        /\ vm'[n] = vm[n] /\ survived'[n] = survived[n]
    BY <1>1, SetupMoves
  <2>2. destroyed'[n] = destroyed[n] /\ key'[n] = key[n] /\ resKey'[n] = resKey[n]
    BY <1>1 DEF SetupStep, Load, Prune, Forget, PrepareRootfs, RootfsFails, Reserve,
         GenerateOK, GenerateFails, AllocateFails, InjectDir, WriteConf, Provision, Start,
         SetupFails, KillSwitchOK, HandshakeOK, HandshakeInterrupted, Measure,
         AttemptTimesOut, CheckUnique, CheckCollides, Retry, RetryPurge, Reclone,
         RecloneFails, ReleaseClaim, Register
  <2>3. \/ Purge(p)
        \/ /\ rootfs' = rootfs \/ \E left : rootfs' = [rootfs EXCEPT ![p] = left]
           /\ kept' = kept
           /\ sdir' = sdir \/ \E left : sdir' = [sdir EXCEPT ![p] = left]
    BY <1>1 DEF SetupStep, Load, Prune, Forget, PrepareRootfs, RootfsFails, Reserve,
         GenerateOK, GenerateFails, AllocateFails, InjectDir, WriteConf, Provision, Start,
         SetupFails, KillSwitchOK, HandshakeOK, HandshakeInterrupted, Measure,
         AttemptTimesOut, CheckUnique, CheckCollides, Retry, RetryPurge, Reclone,
         RecloneFails, ReleaseClaim, Register, Clone, CloneFails
  <2>4. /\ rootfs'[n] = rootfs[n] /\ kept'[n] = kept[n]
        /\ sdir[n] = "none" => sdir'[n] = "none"
    BY <2>3, PurgeType
  <2> QED BY <2>1, <2>2, <2>4
<1>2. ASSUME NEW g \in Thread, TeardownStep(p, g)
      PROVE  /\ main'[n] = main[n] /\ ctxDone'[n] = ctxDone[n]
             /\ destroyed'[n] = destroyed[n]
             /\ key'[n] = key[n] /\ resKey'[n] = resKey[n]
             /\ vm'[n] = vm[n] /\ survived'[n] = survived[n]
             /\ rootfs'[n] = rootfs[n] /\ kept'[n] = kept[n]
             /\ sdir[n] = "none" => sdir'[n] = "none"
  <2>1. /\ main'[n] = main[n] /\ ctxDone'[n] = ctxDone[n] /\ destroyed'[n] = destroyed[n]
        /\ key'[n] = key[n] /\ resKey'[n] = resKey[n]
    BY <1>2 DEF TeardownStep, TdTest, TdSet, TdStop, TdPurge, TdUnreserve, TdRemove, TdVerify,
                TdAgain, TdReport
  <2>2. (StopVM(p) \/ UNCHANGED machine) /\ (Purge(p) \/ UNCHANGED files)
    BY <1>2 DEF TeardownStep, TdTest, TdSet, TdStop, TdPurge, TdUnreserve, TdRemove, TdVerify,
                TdAgain, TdReport
  <2>3. vm'[n] = vm[n] /\ survived'[n] = survived[n]
    BY <2>2 DEF StopVM, MachineOff
  <2>4. /\ rootfs'[n] = rootfs[n] /\ kept'[n] = kept[n]
        /\ sdir[n] = "none" => sdir'[n] = "none"
    BY <2>2, PurgeType
  <2> QED BY <2>1, <2>3, <2>4
<1> QED BY <1>1, <1>2

\* Nobody adds claims in the name of another.
LEMMA OthersClaims ==
  ASSUME NEW p \in Proc, NEW n \in Proc,
         \/ SetupStep(p) /\ ~\E k \in Key : n = p /\ Reserve(p, k)
         \/ \E g \in Thread : TeardownStep(p, g)
  PROVE  OwnClaims(n)' \subseteq OwnClaims(n)
<1>1. \/ resv' = resv
      \/ \E k : resv' = WithoutClaims(resv, k)
      \/ \E k : resv' = WithoutClaims(WithMark(resv, k, Mark(k)), k)
      \/ \E k \in Key : n # p /\ resv' = resv \cup {Claim(p, k)}
  BY DEF SetupStep, Load, Prune, Forget, PrepareRootfs, RootfsFails, Reserve,
         GenerateOK, GenerateFails, AllocateFails, InjectDir, WriteConf, Provision, Start,
         SetupFails, KillSwitchOK, HandshakeOK, HandshakeInterrupted, Measure,
         AttemptTimesOut, CheckUnique, CheckCollides, Retry, RetryPurge, Reclone,
         RecloneFails, ReleaseClaim, Register, TeardownStep, TdTest, TdSet, TdStop,
         TdPurge, TdUnreserve, TdRemove, TdVerify, TdAgain, TdReport
<1>2. ASSUME NEW k \in Key, n # p, resv' = resv \cup {Claim(p, k)}
      PROVE  OwnClaims(n)' \subseteq OwnClaims(n)
  BY <1>2 DEF OwnClaims, Claim
<1>3. CASE resv' = resv
  BY <1>3 DEF OwnClaims
<1> QED BY <1>1, <1>2, <1>3, ReleaseAddsNothing, MarkAddsNothing

\* The others keep an invocation tidy.
LEMMA OthersTidy ==
  ASSUME TypeOK, NEW p \in Proc, NEW n \in Proc \ {p}, Tidy(n),
         SetupStep(p) \/ \E g \in Thread : TeardownStep(p, g)
  PROVE  Tidy(n)'
<1>1. OwnClaims(n)' \subseteq OwnClaims(n)
  BY OthersClaims
<1> QED BY <1>1, OthersLeave, UntouchedTidy DEF Untouched

-----------------------------------------------------------------------------
(***************************************************************************)
(* The steps of the invocation itself.                                     *)
(***************************************************************************)

\* Where main stays in the setup, or enters the teardown, without a claim more
\* or another server, nothing changes for Tidy.
LEMMA SetupTidy ==
  ASSUME TypeOK, NEW n \in Proc, Tidy(n), SetupStep(n),
         main'[n] # "crashed" /\ ~ctxDone'[n]
  PROVE  Tidy(n)'
<1> USE DEF TypeOK, Step, At, Goto
<1>0. /\ main[n] # "crashed" /\ ~ctxDone[n] /\ main[n] \notin Past
      /\ ctxDone' = ctxDone
  BY SetupMoves DEF Past, Stopped
<1>1. /\ \A x \in OwnClaims(n) : main[n] \in Held /\ x.key = key[n]
      /\ main[n] = "release" => resKey[n] = key[n]
      /\ ~destroyed[n]
  BY <1>0 DEF Tidy, Past, Teardown, Stopped, AfterSet, AfterStop, Ended
<1>2. main'[n] \notin Purged /\ ~destroyed'[n]
  BY <1>0, <1>1 DEF SetupStep, Load, Prune, Forget, PrepareRootfs, RootfsFails, Reserve,
         GenerateOK, GenerateFails, AllocateFails, InjectDir, WriteConf, Provision, Start,
         SetupFails, KillSwitchOK, HandshakeOK, HandshakeInterrupted, Measure,
         AttemptTimesOut, CheckUnique, CheckCollides, Retry, RetryPurge, Reclone,
         RecloneFails, ReleaseClaim, Register, Purged, Ended, Halt
<1>3. main'[n] = "release" => resKey'[n] = key'[n]
  BY <1>0, <1>1 DEF SetupStep, Load, Prune, Forget, PrepareRootfs, RootfsFails, Reserve,
         GenerateOK, GenerateFails, AllocateFails, InjectDir, WriteConf, Provision, Start,
         SetupFails, KillSwitchOK, HandshakeOK, HandshakeInterrupted, Measure,
         AttemptTimesOut, CheckUnique, CheckCollides, Retry, RetryPurge, Reclone,
         RecloneFails, ReleaseClaim, Register, Halt
<1>4. \A x \in OwnClaims(n)' : main'[n] \in Held /\ x.key = key'[n]
  <2>1. ASSUME NEW k \in Key, Reserve(n, k)
        PROVE  \A x \in OwnClaims(n)' : main'[n] \in Held /\ x.key = key'[n]
    BY <2>1, <1>1 DEF Reserve, OwnClaims, Claim, Held
  <2>2. CASE GenerateFails(n) \/ SetupFails(n) \/ HandshakeInterrupted(n)
    BY <2>2, <1>1, ReleaseDrops DEF GenerateFails, SetupFails, HandshakeInterrupted
  <2>3. CASE ReleaseClaim(n)
    BY <2>3, <1>1, ReleaseDrops DEF ReleaseClaim
  <2>4. CASE Retry(n)
    BY <2>4, <1>1, MarkDrops DEF Retry
  <2>5. CASE \/ Load(n) \/ Prune(n) \/ Forget(n) \/ PrepareRootfs(n) \/ RootfsFails(n)
             \/ AllocateFails(n) \/ RetryPurge(n) \/ Reclone(n) \/ RecloneFails(n)
             \/ Register(n)
    <3>1. main[n] \notin Held /\ resv' = resv
      BY <2>5 DEF Load, Prune, Forget, PrepareRootfs, RootfsFails, AllocateFails,
                  RetryPurge, Reclone, RecloneFails, Register, Held
    <3> QED BY <3>1, <1>1 DEF OwnClaims
  <2>6. CASE \/ GenerateOK(n) \/ InjectDir(n) \/ WriteConf(n) \/ Provision(n) \/ Start(n)
             \/ KillSwitchOK(n) \/ HandshakeOK(n) \/ (\E ip \in IP : Measure(n, ip))
             \/ AttemptTimesOut(n) \/ CheckUnique(n) \/ CheckCollides(n)
    <3>1. main'[n] \in Held /\ resv' = resv /\ key' = key
      BY <2>6 DEF GenerateOK, InjectDir, WriteConf, Provision, Start, KillSwitchOK,
                  HandshakeOK, Measure, AttemptTimesOut, CheckUnique, CheckCollides, Held,
                  tunnel
    <3> QED BY <3>1, <1>1 DEF OwnClaims
  <2> QED BY <2>1, <2>2, <2>3, <2>4, <2>5, <2>6 DEF SetupStep
<1> QED BY <1>2, <1>3, <1>4 DEF Tidy, Purged

\* The teardown stops the machine, removes the files and reports, in this order;
\* there is no claim left when it starts.
LEMMA TeardownTidy ==
  ASSUME ThreadInv, NEW n \in Proc, Tidy(n), NEW g \in Thread, TeardownStep(n, g),
         ~ctxDone'[n]
  PROVE  Tidy(n)'
<1> USE DEF ThreadInv, TypeOK, At, Goto, Halt
<1>1. ctxDone' = ctxDone /\ g = "main"
  <2>1. ctxDone' = ctxDone
    BY DEF TeardownStep, TdTest, TdSet, TdStop, TdPurge, TdUnreserve, TdRemove, TdVerify,
           TdAgain, TdReport
  <2>2. g = "sig" => sig[n] \in Teardown
    BY DEF TeardownStep, TdTest, TdSet, TdStop, TdPurge, TdUnreserve, TdRemove, TdVerify,
           TdAgain, TdReport, Teardown
  <2> QED BY <2>1, <2>2 DEF SigInv, Thread
<1>2. main[n] \in Teardown /\ TeardownStep(n, "main")
  BY <1>1 DEF TeardownStep, TdTest, TdSet, TdStop, TdPurge, TdUnreserve, TdRemove, TdVerify,
              TdAgain, TdReport, Teardown
<1>3. /\ ~ctxDone[n] /\ \A x \in OwnClaims(n) : FALSE
      /\ destroyed[n] => main[n] \in AfterSet
      /\ main[n] \in Purged => FilesGone(n)
  BY <1>1, <1>2 DEF Tidy, Teardown, Held, Ended
<1>4. OwnClaims(n)' \subseteq OwnClaims(n)
  BY OthersClaims
<1>5. main'[n] # "release" /\ (destroyed'[n] => main'[n] \in AfterSet \cup Ended)
  BY <1>2, <1>3 DEF TeardownStep, TdTest, TdSet, TdStop, TdPurge, TdUnreserve, TdRemove,
                    TdVerify, TdAgain, TdReport, AfterSet, AfterStop, Ended
<1>6. main'[n] \in Purged => FilesGone(n)'
  <2>1. CASE TdPurge(n, "main")
    BY <2>1, PurgeType DEF TdPurge, FilesGone
  <2>2. CASE ~TdPurge(n, "main")
    <3>1. main'[n] \in Purged => main[n] \in Purged
      BY <1>2, <1>3, <2>2 DEF TeardownStep, TdTest, TdSet, TdStop, TdUnreserve, TdRemove,
           TdVerify, TdAgain, TdReport, AfterSet, AfterStop, Purged, Ended
    <3>2. UNCHANGED files
      BY <1>2, <2>2 DEF TeardownStep, TdTest, TdSet, TdStop, TdUnreserve, TdRemove,
           TdVerify, TdAgain, TdReport
    <3> QED BY <1>3, <3>1, <3>2 DEF FilesGone, files
  <2> QED BY <2>1, <2>2
<1>7. main'[n] \in Ended => Reported(n)'
  <2>1. CASE TdReport(n, "main")
    <3>1. vm[n] = "off" \/ survived[n]
      BY <2>1 DEF TdReport, StopInv, Gone, AfterStop
    <3>2. PICK yes \in SaysStopped(n) : main'[n] = IF yes THEN "exited" ELSE "warned"
      BY <2>1 DEF TdReport
    <3>3. vm[n] = "off" \/ "status" \in MayFail \/ main'[n] = "warned"
      BY <1>3, <3>2 DEF SaysStopped
    <3>4. vm' = vm /\ survived' = survived
      BY <2>1 DEF TdReport, machine
    <3> QED BY <3>1, <3>3, <3>4 DEF Reported
  <2>2. CASE ~TdReport(n, "main")
    BY <1>2, <1>3, <2>2 DEF TeardownStep, TdTest, TdSet, TdStop, TdPurge, TdUnreserve,
         TdRemove, TdVerify, TdAgain, AfterSet, AfterStop, Ended
  <2> QED BY <2>1, <2>2
<1> QED BY <1>3, <1>4, <1>5, <1>6, <1>7 DEF Tidy

\* Every step keeps every invocation tidy.
LEMMA CleanStep == CleanInv /\ [Next]_vars => \A n \in Proc : Tidy(n)'
<1> SUFFICES ASSUME CleanInv, [Next]_vars, NEW n \in Proc PROVE Tidy(n)'
  OBVIOUS
<1> USE DEF CleanInv, ThreadInv
<1>1. ASSUME NEW p \in Proc, SetupStep(p) PROVE Tidy(n)'
  <2>1. CASE p # n
    BY <1>1, <2>1, OthersTidy
  <2>2. CASE p = n
    <3>1. CASE main'[n] # "crashed" /\ ~ctxDone'[n]
      BY <1>1, <2>2, <3>1, SetupTidy
    <3>2. CASE ~(main'[n] # "crashed" /\ ~ctxDone'[n])
      BY <3>2 DEF Tidy
    <3> QED BY <3>1, <3>2
  <2> QED BY <2>1, <2>2
<1>2. ASSUME NEW p \in Proc, NEW g \in Thread, TeardownStep(p, g) PROVE Tidy(n)'
  <2>1. CASE p # n
    BY <1>2, <2>1, OthersTidy
  <2>2. CASE p = n
    <3>1. CASE ~ctxDone'[n]
      BY <1>2, <2>2, <3>1, TeardownTidy
    <3>2. CASE ctxDone'[n]
      BY <3>2 DEF Tidy
    <3> QED BY <3>1, <3>2
  <2> QED BY <2>1, <2>2
<1>3. ASSUME NEW p \in Proc, SigWake(p) PROVE Tidy(n)'
  BY <1>3, UntouchedTidy DEF SigWake, Goto, Untouched, OwnClaims, tunnel, files, machine
<1>4. ASSUME NEW p \in Proc, OpenCodeExits(p) PROVE Tidy(n)'
  <2>1. /\ main[p] = "opencode" /\ main' = [main EXCEPT ![p] = "td"]
        /\ UNCHANGED <<ctxDone, destroyed, key, resKey, vm, survived, rootfs, sdir, kept>>
        /\ OwnClaims(n)' = OwnClaims(n)
    BY <1>4 DEF OpenCodeExits, Step, At, Goto, OwnClaims, tunnel, files,
                   machine
  <2>2. CASE p # n
    BY <2>1, <2>2, UntouchedTidy DEF Untouched, TypeOK
  <2>3. CASE p = n
    <3>1. main'[n] = "td" /\ ctxDone' = ctxDone
      BY <2>1, <2>3 DEF TypeOK
    <3>2. ~ctxDone[n] => ~destroyed'[n] /\ OwnClaims(n)' = {}
      BY <2>1, <2>3 DEF Tidy, Held, AfterSet, AfterStop, Ended
    <3> QED BY <3>1, <3>2 DEF Tidy, Purged, Ended
  <2> QED BY <2>2, <2>3
<1>5. ASSUME NEW p \in Proc, Boot(p) PROVE Tidy(n)'
  <2>1. vm[n] = "off" => vm'[n] = "off"
    BY <1>5 DEF Boot, TypeOK
  <2> QED BY <1>5, <2>1 DEF Boot, Tidy, OwnClaims, tunnel, files, FilesGone, Reported
<1>6. ASSUME NEW p \in Proc, VMDies(p) PROVE Tidy(n)'
  BY <1>6, UntouchedTidy DEF VMDies, MachineOff, Untouched, OwnClaims, tunnel, files, TypeOK
<1>7. ASSUME NEW p \in Proc, Interrupt(p) PROVE Tidy(n)'
  BY <1>7 DEF Interrupt, Halt, Running, Stopped, Early, Tidy, OwnClaims, tunnel, files,
              machine, TypeOK, Held, Purged, Ended, FilesGone, Reported, AfterSet, AfterStop
<1>8. ASSUME NEW p \in Proc, Crash(p) PROVE Tidy(n)'
  BY <1>8 DEF Crash, Halt, Tidy, OwnClaims, tunnel, files, machine, FilesGone, Reported,
              TypeOK
<1>9. ASSUME NEW x \in resv, Expire(x) PROVE Tidy(n)'
  BY <1>9, UntouchedTidy DEF Expire, Untouched, OwnClaims, tunnel, files, machine
<1>10. ASSUME UNCHANGED vars PROVE Tidy(n)'
  BY <1>10, UntouchedTidy DEF vars, Untouched, OwnClaims, tunnel, files, machine
<1> QED
  BY <1>1, <1>2, <1>3, <1>4, <1>5, <1>6, <1>7, <1>8, <1>9, <1>10
     DEF Next, MainStep, SigStep, Thread

\* An invocation that ends by itself leaves no claim, and no VM, rootfs or secrets but
\* what it tried to remove and could not; of the VM it has said so.
THEOREM EndsClean == Spec => []CleanExit
<1>1. Init => \A n \in Proc : Tidy(n)
  BY DEF Init, Tidy, OwnClaims, Held, Purged, Ended, AfterStop
<1>2. ThreadInv /\ (\A n \in Proc : Tidy(n)) => CleanExit
  BY DEF CleanExit, Tidy, OwnClaims, Held, Purged, Ended, FilesGone, Reported
<1>3. ThreadInv /\ (\A n \in Proc : Tidy(n)) /\ [Next]_vars => \A n \in Proc : Tidy(n)'
  BY CleanStep DEF CleanInv
<1> DEFINE T == \A n \in Proc : Tidy(n)
<1>4. Init => T
  BY <1>1
<1>5. ThreadInv /\ T => CleanExit
  BY <1>2
<1>6. ThreadInv /\ T /\ [Next]_vars => T'
  BY <1>3
<1> HIDE DEF T
<1> QED BY <1>4, <1>5, <1>6, ThreadInvariant, PTL DEF Spec
=============================================================================
