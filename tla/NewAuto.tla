------------------------------- MODULE NewAuto -------------------------------
(***************************************************************************)
(* `new` (cmd/new/main.go, newAuto): every invocation creates one VM,      *)
(* gives it a VPN tunnel with a public address no other VM has, runs       *)
(* OpenCode in it and destroys it.  Invocations are processes of one host  *)
(* and share                                                               *)
(*   the reservation list    reservations.json, flocked (ReservationStore) *)
(*   the registry of VMs     state.json, flocked (internal/state)          *)
(*   the secrets directory   stateDir/secrets, no lock                     *)
(*   the machines            systemd-nspawn                                *)
(* An invocation is two threads over the same variables: main, and sig,    *)
(* the goroutine that waits for the context SIGINT and SIGTERM cancel.     *)
(*                                                                         *)
(* An invocation is named by itself: its number and env<number> are unique *)
(* as long as the allocator's are (module Allocator).  Flocked operations  *)
(* are one step.  I/O errors of the two JSON files are not modelled.       *)
(***************************************************************************)
EXTENDS Integers, FiniteSets, ReservationStore

CONSTANTS
  Proc,           \* invocations of `new`, and the VMs they make
  Key,            \* country:station of the servers the API recommends
  IP,             \* public IPv4 addresses
  None,           \* no key, no address, no record
  MaxAttempts,    \* tunnels tried before giving up (20 in the code)
  Interruptible,  \* invocations that may get SIGINT or SIGTERM
  Crashable,      \* invocations that may be killed outright
  MayFail         \* parts of a cleanup that may fail, which the code ignores

ASSUME NoneAssumption == None \notin Key /\ None \notin IP
ASSUME AttemptsAssumption == MaxAttempts \in Nat \ {0}
ASSUME FaultAssumption == Interruptible \subseteq Proc /\ Crashable \subseteq Proc
ASSUME CleanupAssumption == MayFail \subseteq {"stop", "status", "rootfs", "secrets"}
ASSUME InstanceAssumption == NoInstance \notin Proc

VARIABLES
  \* threads of an invocation, and what they share
  main,       \* where newAuto is
  sig,        \* where the signal goroutine is
  ctxDone,    \* the signal-aware context is cancelled
  destroyed,  \* the flag of the teardown closure
  key,        \* server of the current attempt
  resKey,     \* server of the attempt that succeeded
  v4,         \* address measured in the current attempt
  attempt,    \* attempts finished
  tried,      \* servers allocateVPN has reserved in this call
  envs,       \* state.Store.envs
  removed,    \* state.Store.removed
  stale,      \* records pruneStaleState has still to remove
  \* the host
  resv,       \* reservations.json: entries that have not expired
  disk,       \* state.json: the recorded address of each VM
  vm,         \* the machine, as far as its boot script has got
  rootfs,     \* rootfsCache/<name>
  sdir,       \* stateDir/secrets/<name>
  \* history, for properties only
  rivals,     \* whoever stood between check and Register when p's check passed
  born,       \* attempt in which the machine was started
  survived,   \* the machine has outlived a Stop
  kept        \* what the last cleanup could not remove

store     == <<envs, removed, disk>>
tunnel    == <<key, resKey, v4, attempt, tried>>
files     == <<rootfs, sdir, kept>>
machine   == <<vm, born, survived>>
vars == <<main, sig, ctxDone, destroyed, tunnel, store, stale, resv, machine, files, rivals>>

(***************************************************************************)
(* States of the threads, in the order of newAuto.  "td" to "td_report"    *)
(* are the teardown closure, which either thread may run.                  *)
(***************************************************************************)
Early    == {"load", "prune", "forget"}         \* before signal.NotifyContext
Setup    == {"rootfs", "alloc", "generate", "inject", "conf", "create", "start",
             "ks", "hs", "measure", "check", "retry", "purge", "reclone",
             "release", "register"}
Teardown == {"td", "td_set", "td_stop", "td_purge", "td_unreserve", "td_remove",
             "td_verify", "td_again", "td_report"}
Stopped  == {"exited",    \* after a teardown that says CLEAN, or is left to the other thread
             "warned",    \* after one that says WARN
             "aborted",   \* os.Exit, or the signal's default action, before it
             "crashed"}
MainLoc  == Early \cup Setup \cup {"opencode"} \cup Teardown \cup Stopped
SigLoc   == {"unarmed", "wait", "idle"} \cup Teardown \cup Stopped
Thread   == {"main", "sig"}

\* A machine is off, running its boot script, without a tunnel (wg-quick
\* failed: traffic leaves through the host), with a tunnel only, with the
\* nftables table lgkill but no chain in it, or with the kill-switch in force.
VM == {"off", "boot", "open", "tunnel", "table", "armed"}

\* A directory that is not there, has no etc, or has one and is taken for a rootfs.
Rootfs == {"none", "bare", "etc"}

Entry == [key : Key, inst : Proc, unsuitable : {FALSE}]
           \cup [key : Key, inst : {NoInstance}, unsuitable : {TRUE}]

Claim(p, k) == [key |-> k, inst |-> p, unsuitable |-> FALSE]
Mark(k)     == [key |-> k, inst |-> NoInstance, unsuitable |-> TRUE]

TypeOK ==
  /\ main \in [Proc -> MainLoc] /\ sig \in [Proc -> SigLoc]
  /\ ctxDone \in [Proc -> BOOLEAN] /\ destroyed \in [Proc -> BOOLEAN]
  /\ key \in [Proc -> Key \cup {None}] /\ resKey \in [Proc -> Key \cup {None}]
  /\ v4 \in [Proc -> IP \cup {None}]
  /\ attempt \in [Proc -> 0..MaxAttempts] /\ tried \in [Proc -> SUBSET Key]
  /\ envs \in [Proc -> [Proc -> IP \cup {None}]]
  /\ removed \in [Proc -> SUBSET Proc] /\ stale \in [Proc -> SUBSET Proc]
  /\ resv \in SUBSET Entry
  /\ disk \in [Proc -> IP \cup {None}]
  /\ vm \in [Proc -> VM]
  /\ rootfs \in [Proc -> Rootfs]
  /\ sdir \in [Proc -> {"none", "dir", "conf"}]
  /\ rivals \in [Proc -> SUBSET Proc]
  /\ born \in [Proc -> 0..MaxAttempts] /\ survived \in [Proc -> BOOLEAN]
  /\ kept \in [Proc -> SUBSET {"rootfs", "secrets"}]

Init ==
  /\ main = [p \in Proc |-> "load"] /\ sig = [p \in Proc |-> "unarmed"]
  /\ ctxDone = [p \in Proc |-> FALSE] /\ destroyed = [p \in Proc |-> FALSE]
  /\ key = [p \in Proc |-> None] /\ resKey = [p \in Proc |-> None]
  /\ v4 = [p \in Proc |-> None]
  /\ attempt = [p \in Proc |-> 0] /\ tried = [p \in Proc |-> {}]
  /\ envs = [p \in Proc |-> [n \in Proc |-> None]]
  /\ removed = [p \in Proc |-> {}] /\ stale = [p \in Proc |-> {}]
  /\ resv = {}
  /\ disk = [p \in Proc |-> None]
  /\ vm = [p \in Proc |-> "off"]
  /\ rootfs = [p \in Proc |-> "none"] /\ sdir = [p \in Proc |-> "none"]
  /\ rivals = [p \in Proc |-> {}]
  /\ born = [p \in Proc |-> 0] /\ survived = [p \in Proc |-> FALSE]
  /\ kept = [p \in Proc |-> {}]

Running(p) == main[p] \notin Stopped

At(p, g, l)   == IF g = "main" THEN main[p] = l ELSE sig[p] = l
Goto(p, g, l) ==
  IF g = "main" THEN main' = [main EXCEPT ![p] = l] /\ UNCHANGED sig
                ELSE sig' = [sig EXCEPT ![p] = l] /\ UNCHANGED main
Step(p, from, to) == At(p, "main", from) /\ Goto(p, "main", to)

\* The end of the process ends both of its threads.
Halt(p, l) == main' = [main EXCEPT ![p] = l] /\ sig' = [sig EXCEPT ![p] = l]

(***************************************************************************)
(* The registry.  persist writes what is on disk, without the records the  *)
(* process ever removed, overlaid with its own copy of ALL the records: the*)
(* copy is as old as the process's state.New.                              *)
(***************************************************************************)
\* Mutant of Merge: the file is overwritten without being read again.
MergeOwnOnly(d, own, gone) == own

Merge(d, own, gone) ==
  [n \in Proc |-> IF own[n] # None THEN own[n]
                  ELSE IF n \in gone THEN None ELSE d[n]]

Persist(p, own, gone) ==
  /\ envs' = [envs EXCEPT ![p] = own]
  /\ removed' = [removed EXCEPT ![p] = gone]
  /\ disk' = Merge(disk, own, gone)

RemoveRecord(p, n) == Persist(p, [envs[p] EXCEPT ![n] = None], removed[p] \cup {n})

(***************************************************************************)
(* Cleanup, in a retry and in the teardown.  No caller looks at an error.  *)
(***************************************************************************)
MachineOff(p) ==
  /\ vm' = [vm EXCEPT ![p] = "off"]
  /\ born' = [born EXCEPT ![p] = 0] /\ survived' = [survived EXCEPT ![p] = FALSE]

\* b.Stop (and b.Destroy, the same): machinectl may fail, or not know the machine
\* yet, or terminate it some time later; Stop returns nil.
StopVM(p) ==
  \/ MachineOff(p)
  \/ /\ "stop" \in MayFail /\ vm[p] # "off"
     /\ survived' = [survived EXCEPT ![p] = TRUE]
     /\ UNCHANGED <<vm, born>>

\* What there is after a RemoveAll that may fail: part of what was there.
RootfsLeft  == [none |-> {"none"}, bare |-> {"none", "bare"}, etc |-> Rootfs]
SecretsLeft == [none |-> {"none"}, dir |-> {"none", "dir"}, conf |-> {"none", "dir", "conf"}]
AfterRemoveAll(part, left) == IF part \in MayFail THEN left ELSE {"none"}

\* os.RemoveAll(rootfsDir) and os.RemoveAll(stateDir/secrets): the latter is the
\* directory of every VM, not of one.
Purge(p) ==
  /\ \E left \in AfterRemoveAll("rootfs", RootfsLeft[rootfs[p]]) :
       rootfs' = [rootfs EXCEPT ![p] = left]
  /\ sdir' \in [Proc -> {"none", "dir", "conf"}]
  /\ \A q \in Proc : sdir'[q] \in AfterRemoveAll("secrets", SecretsLeft[sdir[q]])
  /\ kept' = [kept EXCEPT ![p] = (IF rootfs'[p] = "none" THEN {} ELSE {"rootfs"})
                                  \cup (IF sdir'[p] = "none" THEN {} ELSE {"secrets"})]

\* ensureRootfs takes a directory with an etc for a rootfs; otherwise rsync clones
\* the base image, under the context.
Clone(p) ==
  /\ rootfs[p] = "etc" \/ ~ctxDone[p]
  /\ rootfs' = [rootfs EXCEPT ![p] = "etc"]

\* There is no base image, or rsync fails or is killed on the way.
CloneFails(p) ==
  \E left \in {rootfs[p]} \cup (IF rootfs[p] = "etc" THEN {} ELSE {"bare", "etc"}) :
    rootfs' = [rootfs EXCEPT ![p] = left]

-----------------------------------------------------------------------------
(***************************************************************************)
(* Start-up: state.New and pruneStaleState.                                *)
(***************************************************************************)
Load(p) ==
  /\ Step(p, "load", "prune")
  /\ envs' = [envs EXCEPT ![p] = disk]
  /\ UNCHANGED <<ctxDone, destroyed, tunnel, removed, disk, stale, resv, machine, files, rivals>>

\* Mutant of DeadRecords: every record counts as dead.
AllRecords(p) == {n \in Proc : envs[p][n] # None}

DeadRecords(p) == {n \in Proc : envs[p][n] # None /\ vm[n] = "off"}

\* machinectl list says which records have no machine; on an error, nothing.
Prune(p) ==
  \E dead \in {{}, DeadRecords(p)} :
    /\ Step(p, "prune", IF dead = {} THEN "rootfs" ELSE "forget")
    /\ stale' = [stale EXCEPT ![p] = dead]
    /\ UNCHANGED <<ctxDone, destroyed, tunnel, store, resv, machine, files, rivals>>

\* One st.Remove of the loop.  The Release that follows names the VM where a
\* server is expected, and so releases nothing.
Forget(p) ==
  \E n \in stale[p] :
    /\ Step(p, "forget", IF stale[p] = {n} THEN "rootfs" ELSE "forget")
    /\ RemoveRecord(p, n)
    /\ stale' = [stale EXCEPT ![p] = @ \ {n}]
    /\ UNCHANGED <<ctxDone, destroyed, tunnel, resv, machine, files, rivals>>

\* ensureRootfs; then the teardown closure exists and the signal goroutine starts.
PrepareRootfs(p) ==
  /\ main[p] = "rootfs"
  /\ Clone(p)
  /\ main' = [main EXCEPT ![p] = "alloc"]
  /\ sig' = [sig EXCEPT ![p] = "wait"]
  /\ UNCHANGED <<ctxDone, destroyed, tunnel, store, stale, resv, machine, sdir, kept, rivals>>

\* It fails: os.Exit before there is a teardown to call.
RootfsFails(p) ==
  /\ main[p] = "rootfs"
  /\ CloneFails(p)
  /\ Halt(p, "aborted")
  /\ UNCHANGED <<ctxDone, destroyed, tunnel, store, stale, resv, machine, sdir, kept, rivals>>

-----------------------------------------------------------------------------
(***************************************************************************)
(* One attempt at a tunnel.                                                *)
(***************************************************************************)

\* allocateVPN takes a recommended server nobody holds.  The API's list is
\* arbitrary; IsReservedByOther and IsUnsuitable, read without the lock, only
\* skip servers, which Reserve checks again under it.
Reserve(p, k) ==
  /\ k \notin tried[p]
  /\ CanReserve(resv, k, p)
  /\ Step(p, "alloc", "generate")
  /\ resv' = resv \cup {Claim(p, k)}
  /\ key' = [key EXCEPT ![p] = k]
  /\ tried' = [tried EXCEPT ![p] = @ \cup {k}]
  /\ UNCHANGED <<ctxDone, destroyed, resKey, v4, attempt, store, stale, machine, files, rivals>>

\* GenerateForServer returns a WireGuard configuration.
GenerateOK(p) ==
  /\ Step(p, "generate", "inject")
  /\ tried' = [tried EXCEPT ![p] = {}]
  /\ UNCHANGED <<ctxDone, destroyed, key, resKey, v4, attempt, store, stale, resv, machine,
                 files, rivals>>

\* Mutant of GenerateFails: the same server is tried again.
GenerateFailsForever(p) ==
  /\ Step(p, "generate", "alloc")
  /\ resv' = WithoutClaims(resv, key[p])
  /\ key' = [key EXCEPT ![p] = None] /\ tried' = [tried EXCEPT ![p] = {}]
  /\ UNCHANGED <<ctxDone, destroyed, resKey, v4, attempt, store, stale, machine, files, rivals>>

\* ... or fails, and allocateVPN goes on to the next server.
GenerateFails(p) ==
  /\ Step(p, "generate", "alloc")
  /\ resv' = WithoutClaims(resv, key[p])
  /\ key' = [key EXCEPT ![p] = None]
  /\ UNCHANGED <<ctxDone, destroyed, resKey, v4, attempt, tried, store, stale, machine,
                 files, rivals>>

\* No (further) server in any country's list.
AllocateFails(p) ==
  /\ Step(p, "alloc", "td")
  /\ tried' = [tried EXCEPT ![p] = {}]
  /\ UNCHANGED <<ctxDone, destroyed, key, resKey, v4, attempt, store, stale, resv, machine,
                 files, rivals>>

\* secrets.InjectDir makes the directory if it is not there.
InjectDir(p) ==
  /\ Step(p, "inject", "conf")
  /\ sdir' = [sdir EXCEPT ![p] = "dir"]
  /\ UNCHANGED <<ctxDone, destroyed, tunnel, store, stale, resv, machine, rootfs, kept, rivals>>

\* lgwg0.conf, which needs the directory.
WriteConf(p) ==
  /\ sdir[p] # "none"
  /\ Step(p, "conf", "create")
  /\ sdir' = [sdir EXCEPT ![p] = "conf"]
  /\ UNCHANGED <<ctxDone, destroyed, tunnel, store, stale, resv, machine, rootfs, kept, rivals>>

\* b.Create (host network, module Isolation) and opencode.ProvisionConfig,
\* which makes the directories it needs, rootfs or not.
Provision(p) ==
  /\ Step(p, "create", "start")
  /\ rootfs' = [rootfs EXCEPT ![p] = IF @ = "none" THEN "bare" ELSE @]
  /\ UNCHANGED <<ctxDone, destroyed, tunnel, store, stale, resv, machine, sdir, kept, rivals>>

\* Mutant of Start: exec.Command instead of exec.CommandContext.
StartWithoutContext(p) ==
  /\ Step(p, "start", "ks")
  /\ IF vm[p] = "off" /\ rootfs[p] = "etc" /\ sdir[p] # "none"
     THEN vm' = [vm EXCEPT ![p] = "boot"] /\ born' = [born EXCEPT ![p] = attempt[p]]
     ELSE UNCHANGED <<vm, born>>
  /\ UNCHANGED <<ctxDone, destroyed, tunnel, store, stale, resv, survived, files, rivals>>

\* b.Start forks systemd-nspawn under the context and does not wait for it: that
\* there is no rootfs or secrets directory, or that a machine of this name is
\* still up, is not an error of Start.
Start(p) ==
  /\ ~ctxDone[p]
  /\ Step(p, "start", "ks")
  /\ IF vm[p] = "off" /\ rootfs[p] = "etc" /\ sdir[p] # "none"
     THEN vm' = [vm EXCEPT ![p] = "boot"] /\ born' = [born EXCEPT ![p] = attempt[p]]
     ELSE UNCHANGED <<vm, born>>
  /\ UNCHANGED <<ctxDone, destroyed, tunnel, store, stale, resv, survived, files, rivals>>

\* Mutant of SetupFails: the server is not released.
SetupFailsKeepsClaim(p) ==
  /\ main[p] \in {"inject", "conf", "create", "start"}
  /\ Goto(p, "main", "td")
  /\ UNCHANGED <<ctxDone, destroyed, tunnel, store, stale, resv, machine, files, rivals>>

\* Any of these four calls returns an error: release the server, tear down.
SetupFails(p) ==
  /\ main[p] \in {"inject", "conf", "create", "start"}
  /\ Goto(p, "main", "td")
  /\ resv' = WithoutClaims(resv, key[p])
  /\ key' = [key EXCEPT ![p] = None]
  /\ UNCHANGED <<ctxDone, destroyed, resKey, v4, attempt, tried, store, stale, machine,
                 files, rivals>>

\* Mutant of KillSwitchOK: a poll that fails counts as armed.
KillSwitchAssumed(p) ==
  /\ Step(p, "ks", "hs")
  /\ UNCHANGED <<ctxDone, destroyed, tunnel, store, stale, resv, machine, files, rivals>>

\* Six polls over three seconds for the nftables TABLE of the kill-switch.
KillSwitchOK(p) ==
  /\ vm[p] \in {"table", "armed"}
  /\ Step(p, "ks", "hs")
  /\ UNCHANGED <<ctxDone, destroyed, tunnel, store, stale, resv, machine, files, rivals>>

\* Fifteen polls over thirty seconds for a WireGuard handshake.
HandshakeOK(p) ==
  /\ vm[p] \in {"table", "armed"}
  /\ Step(p, "hs", "measure")
  /\ UNCHANGED <<ctxDone, destroyed, tunnel, store, stale, resv, machine, files, rivals>>

\* The only wait of newAuto that looks at the context.
HandshakeInterrupted(p) ==
  /\ ctxDone[p]
  /\ Step(p, "hs", "td")
  /\ resv' = WithoutClaims(resv, key[p])
  /\ key' = [key EXCEPT ![p] = None]
  /\ UNCHANGED <<ctxDone, destroyed, resKey, v4, attempt, tried, store, stale, machine,
                 files, rivals>>

\* The address the measuring services see.
Measure(p, ip) ==
  /\ vm[p] \in {"table", "armed"}
  /\ Step(p, "measure", "check")
  /\ v4' = [v4 EXCEPT ![p] = ip]
  /\ UNCHANGED <<ctxDone, destroyed, key, resKey, attempt, tried, store, stale, resv, machine,
                 files, rivals>>

\* The polls for the kill-switch, the handshake or the address run out.
AttemptTimesOut(p) ==
  /\ main[p] \in {"ks", "hs", "measure"}
  /\ Goto(p, "main", "retry")
  /\ UNCHANGED <<ctxDone, destroyed, tunnel, store, stale, resv, machine, files, rivals>>

\* Mutant of CheckUnique: the records are not compared.
CheckNothing(p) ==
  /\ Step(p, "check", "release")
  /\ resKey' = [resKey EXCEPT ![p] = key[p]]
  /\ rivals' = [rivals EXCEPT ![p] =
                  {q \in Proc \ {p} : main[q] \in {"release", "register"}}]
  /\ UNCHANGED <<ctxDone, destroyed, key, v4, attempt, tried, store, stale, resv, machine, files>>

\* sharedVPNv4 finds no other record with the address.  (Its second part asks
\* the live VMs that are on record, and takes their silence for a no.)
CheckUnique(p) ==
  /\ \A n \in Proc \ {p} : disk[n] # v4[p]
  /\ Step(p, "check", "release")
  /\ resKey' = [resKey EXCEPT ![p] = key[p]]
  /\ rivals' = [rivals EXCEPT ![p] =
                  {q \in Proc \ {p} : main[q] \in {"release", "register"}}]
  /\ UNCHANGED <<ctxDone, destroyed, key, v4, attempt, tried, store, stale, resv, machine, files>>

\* It finds one, or the address of a live VM has moved to this one since it
\* was recorded.
CheckCollides(p) ==
  /\ \E n \in Proc \ {p} : disk[n] = v4[p] \/ (disk[n] # None /\ vm[n] # "off")
  /\ Step(p, "check", "retry")
  /\ UNCHANGED <<ctxDone, destroyed, tunnel, store, stale, resv, machine, files, rivals>>

\* MarkUnsuitable, then Release.
Retry(p) ==
  /\ Step(p, "retry", "purge")
  /\ resv' = WithoutClaims(WithMark(resv, key[p], Mark(key[p])), key[p])
  /\ key' = [key EXCEPT ![p] = None] /\ v4' = [v4 EXCEPT ![p] = None]
  /\ UNCHANGED <<ctxDone, destroyed, resKey, attempt, tried, store, stale, machine, files, rivals>>

\* Mutant of RetryPurge: the machine is not stopped before the next attempt.
RetryPurgeKeepsVM(p) ==
  /\ Step(p, "purge", "reclone")
  /\ Purge(p)
  /\ UNCHANGED <<ctxDone, destroyed, tunnel, store, stale, resv, machine, rivals>>

\* Stop, Destroy and RemoveAll of the rootfs and of the secrets.  Nobody looks
\* whether the machine is gone.
RetryPurge(p) ==
  /\ Step(p, "purge", "reclone")
  /\ StopVM(p) /\ Purge(p)
  /\ UNCHANGED <<ctxDone, destroyed, tunnel, store, stale, resv, rivals>>

\* Mutant of Reclone: one attempt too many.
RecloneOnceMore(p) ==
  /\ Clone(p)
  /\ Step(p, "reclone", IF attempt[p] + 1 <= MaxAttempts THEN "alloc" ELSE "td")
  /\ attempt' = [attempt EXCEPT ![p] = @ + 1]
  /\ UNCHANGED <<ctxDone, destroyed, key, resKey, v4, tried, store, stale, resv, machine,
                 sdir, kept, rivals>>

\* ensureRootfs for the next attempt, if there is one.
Reclone(p) ==
  /\ Clone(p)
  /\ Step(p, "reclone", IF attempt[p] + 1 < MaxAttempts THEN "alloc" ELSE "td")
  /\ attempt' = [attempt EXCEPT ![p] = @ + 1]
  /\ UNCHANGED <<ctxDone, destroyed, key, resKey, v4, tried, store, stale, resv, machine,
                 sdir, kept, rivals>>

RecloneFails(p) ==
  /\ Step(p, "reclone", "td")
  /\ CloneFails(p)
  /\ UNCHANGED <<ctxDone, destroyed, tunnel, store, stale, resv, machine, sdir, kept, rivals>>

\* The server is released before the address is on record.
ReleaseClaim(p) ==
  /\ Step(p, "release", "register")
  /\ resv' = WithoutClaims(resv, resKey[p])
  /\ key' = [key EXCEPT ![p] = None]
  /\ UNCHANGED <<ctxDone, destroyed, resKey, v4, attempt, tried, store, stale, machine,
                 files, rivals>>

Register(p) ==
  /\ Step(p, "register", "opencode")
  /\ Persist(p, [envs[p] EXCEPT ![p] = v4[p]], removed[p] \ {p})
  /\ UNCHANGED <<ctxDone, destroyed, tunnel, stale, resv, machine, files, rivals>>

\* The user leaves OpenCode, or it dies with the VM or the context.
OpenCodeExits(p) ==
  /\ Step(p, "opencode", "td")
  /\ UNCHANGED <<ctxDone, destroyed, tunnel, store, stale, resv, machine, files, rivals>>

-----------------------------------------------------------------------------
(***************************************************************************)
(* The teardown closure, run by thread g.  Its flag is neither locked nor  *)
(* atomic; a caller that finds it set returns, and ends the process.       *)
(***************************************************************************)
TdTest(p, g) ==
  /\ At(p, g, "td")
  /\ IF destroyed[p] THEN Halt(p, "exited") ELSE Goto(p, g, "td_set")
  /\ UNCHANGED <<ctxDone, destroyed, tunnel, store, stale, resv, machine, files, rivals>>

TdSet(p, g) ==
  /\ At(p, g, "td_set") /\ Goto(p, g, "td_stop")
  /\ destroyed' = [destroyed EXCEPT ![p] = TRUE]
  /\ UNCHANGED <<ctxDone, tunnel, store, stale, resv, machine, files, rivals>>

TdStop(p, g) ==
  /\ At(p, g, "td_stop") /\ Goto(p, g, "td_purge")
  /\ StopVM(p)
  /\ UNCHANGED <<ctxDone, destroyed, tunnel, store, stale, resv, files, rivals>>

TdPurge(p, g) ==
  /\ At(p, g, "td_purge") /\ Goto(p, g, "td_unreserve")
  /\ Purge(p)
  /\ UNCHANGED <<ctxDone, destroyed, tunnel, store, stale, resv, machine, rivals>>

\* resKey is set only by an attempt that succeeded.
TdUnreserve(p, g) ==
  /\ At(p, g, "td_unreserve") /\ Goto(p, g, "td_remove")
  /\ resv' = IF resKey[p] = None THEN resv
             ELSE WithoutClaims(WithMark(resv, resKey[p], Mark(resKey[p])), resKey[p])
  /\ UNCHANGED <<ctxDone, destroyed, tunnel, store, stale, machine, files, rivals>>

\* The record goes before anybody has looked whether the machine has gone.
TdRemove(p, g) ==
  /\ At(p, g, "td_remove") /\ Goto(p, g, "td_verify")
  /\ RemoveRecord(p, p)
  /\ UNCHANGED <<ctxDone, destroyed, tunnel, stale, resv, machine, files, rivals>>

\* verifyVMStopped asks machinectl under the context and takes any answer without
\* "running" for a yes: it says yes of a machine that is off, always once the
\* context is cancelled, and when machinectl fails or takes more than 4 seconds.
SaysStopped(p) ==
  IF ctxDone[p] \/ vm[p] = "off" THEN {TRUE}
  ELSE IF "status" \in MayFail THEN BOOLEAN ELSE {FALSE}

TdVerify(p, g) ==
  /\ At(p, g, "td_verify")
  /\ \E yes \in SaysStopped(p) : Goto(p, g, IF yes THEN "td_report" ELSE "td_again")
  /\ UNCHANGED <<ctxDone, destroyed, tunnel, store, stale, resv, machine, files, rivals>>

\* "retry once if still running"
TdAgain(p, g) ==
  /\ At(p, g, "td_again") /\ Goto(p, g, "td_report")
  /\ StopVM(p)
  /\ UNCHANGED <<ctxDone, destroyed, tunnel, store, stale, resv, files, rivals>>

\* Mutant of TdReport: after the second Stop nobody asks again.
TdReportClean(p, g) ==
  /\ At(p, g, "td_report") /\ Halt(p, "exited")
  /\ UNCHANGED <<ctxDone, destroyed, tunnel, store, stale, resv, machine, files, rivals>>

\* CLEAN or WARN; then os.Exit, or the return from newAuto.
TdReport(p, g) ==
  /\ At(p, g, "td_report")
  /\ \E yes \in SaysStopped(p) : Halt(p, IF yes THEN "exited" ELSE "warned")
  /\ UNCHANGED <<ctxDone, destroyed, tunnel, store, stale, resv, machine, files, rivals>>

\* Mutant of SigWake: the goroutine leaves the cleanup to main.
SigWakeIdle(p) ==
  /\ ctxDone[p] /\ At(p, "sig", "wait")
  /\ Goto(p, "sig", "idle")
  /\ UNCHANGED <<ctxDone, destroyed, tunnel, store, stale, resv, machine, files, rivals>>

\* The signal goroutine.
SigWake(p) ==
  /\ ctxDone[p] /\ At(p, "sig", "wait")
  /\ Goto(p, "sig", IF destroyed[p] THEN "idle" ELSE "td")
  /\ UNCHANGED <<ctxDone, destroyed, tunnel, store, stale, resv, machine, files, rivals>>

-----------------------------------------------------------------------------
(***************************************************************************)
(* What the program does not control.                                      *)
(***************************************************************************)

\* The boot script in the guest: wg-quick up, which needs the bound
\* lgwg0.conf, and after it the kill-switch, whose commands may fail midway.
Boot(p) ==
  /\ \/ /\ vm[p] = "boot"
        /\ \E up \in IF sdir[p] = "conf" THEN {"tunnel", "open"} ELSE {"open"} :
             vm' = [vm EXCEPT ![p] = up]
     \/ vm[p] = "tunnel" /\ vm' = [vm EXCEPT ![p] = "table"]
     \/ vm[p] = "table" /\ vm' = [vm EXCEPT ![p] = "armed"]
  /\ UNCHANGED <<main, sig, ctxDone, destroyed, tunnel, store, stale, resv, born, survived,
                 files, rivals>>

\* A machine can die at any time, of a Stop before too; a cancelled context kills
\* its supervisor.
VMDies(p) ==
  /\ vm[p] # "off"
  /\ MachineOff(p)
  /\ UNCHANGED <<main, sig, ctxDone, destroyed, tunnel, store, stale, resv, files, rivals>>

\* A claim lapses after 10 minutes, a mark after 30 (ReservationProtocol).
Expire(x) ==
  /\ resv' = resv \ {x}
  /\ UNCHANGED <<main, sig, ctxDone, destroyed, tunnel, store, stale, machine, files, rivals>>

\* SIGINT or SIGTERM: before NotifyContext it kills the process.
Interrupt(p) ==
  /\ p \in Interruptible /\ Running(p) /\ ~ctxDone[p]
  /\ IF main[p] \in Early THEN Halt(p, "aborted") /\ UNCHANGED ctxDone
     ELSE ctxDone' = [ctxDone EXCEPT ![p] = TRUE] /\ UNCHANGED <<main, sig>>
  /\ UNCHANGED <<destroyed, tunnel, store, stale, resv, machine, files, rivals>>

\* SIGKILL, or a crash: nothing is cleaned up, and the VM lives on.
Crash(p) ==
  /\ p \in Crashable /\ Running(p)
  /\ Halt(p, "crashed")
  /\ UNCHANGED <<ctxDone, destroyed, tunnel, store, stale, resv, machine, files, rivals>>

-----------------------------------------------------------------------------
TeardownStep(p, g) ==
  \/ TdTest(p, g) \/ TdSet(p, g) \/ TdStop(p, g) \/ TdPurge(p, g)
  \/ TdUnreserve(p, g) \/ TdRemove(p, g)
  \/ TdVerify(p, g) \/ TdAgain(p, g) \/ TdReport(p, g)

SetupStep(p) ==
  \/ Load(p) \/ Prune(p) \/ Forget(p) \/ PrepareRootfs(p) \/ RootfsFails(p)
  \/ \E k \in Key : Reserve(p, k)
  \/ GenerateOK(p) \/ GenerateFails(p) \/ AllocateFails(p)
  \/ InjectDir(p) \/ WriteConf(p) \/ Provision(p) \/ Start(p) \/ SetupFails(p)
  \/ KillSwitchOK(p) \/ HandshakeOK(p) \/ HandshakeInterrupted(p)
  \/ \E ip \in IP : Measure(p, ip)
  \/ AttemptTimesOut(p) \/ CheckUnique(p) \/ CheckCollides(p)
  \/ Retry(p) \/ RetryPurge(p) \/ Reclone(p) \/ RecloneFails(p)
  \/ ReleaseClaim(p) \/ Register(p)

MainStep(p) == SetupStep(p) \/ TeardownStep(p, "main")
SigStep(p)  == SigWake(p) \/ TeardownStep(p, "sig")

Next ==
  \/ \E p \in Proc : MainStep(p) \/ SigStep(p) \/ OpenCodeExits(p)
                     \/ Boot(p) \/ VMDies(p) \/ Interrupt(p) \/ Crash(p)
  \/ \E x \in resv : Expire(x)

Spec == Init /\ [][Next]_vars

\* Both threads run; every wait of the setup is bounded by a timeout; nobody
\* has to leave OpenCode, answer, boot or stay alive.
Fairness == \A p \in Proc : WF_vars(MainStep(p)) /\ WF_vars(SigStep(p))
FairSpec == Spec /\ Fairness
-----------------------------------------------------------------------------
(***************************************************************************)
(* Properties.                                                             *)
(***************************************************************************)

\* A VM in which OpenCode runs, as far as its invocation knows.
InUse(p) == main[p] = "opencode" /\ ~destroyed[p] /\ vm[p] # "off"

\* Fail closed: from the wait for the handshake to the end of OpenCode, the
\* VM is gone or its kill-switch table was seen; never a VM whose wg-quick
\* failed and whose traffic leaves through the host (main.go:472-495).
FailClosed ==
  \A p \in Proc :
    main[p] \in {"hs", "measure", "check", "release", "register", "opencode"}
      => vm[p] \in {"off", "table", "armed"}

\* A VM in use is on record under the address it was measured with, whatever
\* the other invocations load, prune and persist: what sharedVPNv4 compares
\* against is complete but for VMs about to register.
LiveRecorded == \A p \in Proc : InUse(p) => disk[p] = v4[p]

\* Two VMs in use have the same address only if one of them checked while the
\* other stood between its own check and its Register (main.go:570-606).
DuplicateOnlyIfRaced ==
  \A p, q \in Proc :
    p # q /\ InUse(p) /\ InUse(q) /\ v4[p] = v4[q] => q \in rivals[p] \/ p \in rivals[q]

\* p has an address that nobody else is to get: from its check on, as long as
\* the VM is in use.
Holds(p) == main[p] \in {"release", "register"} \/ InUse(p)

\* An address is granted by CheckUnique, made known by Register, and given up
\* with the VM, or before it ever was on record.
Promise ==
  INSTANCE IdentityAllocator WITH
    V4 <- IP, V6 <- {}, NoAddr <- None,
    granted <- [p \in Proc |-> [v4 |-> IF Holds(p) THEN v4[p] ELSE None, v6 |-> None]],
    active <- {p \in Proc : InUse(p)},
    raced <- {pair \in SUBSET Proc : \E p \in Proc : \E q \in rivals[p] : pair = {p, q}}

\* README.md:5, "measured-unique egress": newAuto, which compares with the
\* records of state.json instead of asking anybody, is an allocator like that of
\* vpn.Client, although other invocations rewrite the records at any time.
Promised == Promise!Spec

\* What an invocation that ended by itself leaves, however it ended (OpenCode left,
\* setup failed, no tunnel, no attempts left): a VM only if its last Stop failed,
\* and then it has said so unless machinectl status failed too; rootfs or secrets
\* only if their removal in the teardown failed; and never a claim.
CleanExit ==
  \A p \in Proc :
    main[p] \in {"exited", "warned"} /\ ~ctxDone[p] =>
      /\ \/ vm[p] = "off"
         \/ survived[p] /\ (main[p] = "warned" \/ "status" \in MayFail)
      /\ rootfs[p] = "none" \/ "rootfs" \in kept[p]
      /\ sdir[p] = "none" \/ "secrets" \in kept[p]
      /\ \A x \in resv : x.inst # p

\* A VM that is up when a teardown verifies is one its Stop was called for and did
\* not end, never one started since: though main may be anywhere in the setup while
\* sig tears down, a cancelled context starts no machine any more.
StoppedAtVerify ==
  \A p \in Proc :
    {main[p], sig[p]} \cap {"td_verify", "td_again", "td_report"} # {}
      => vm[p] = "off" \/ survived[p]

\* Nobody but the invocation itself drops or changes the record of a VM that runs:
\* prune removes what its List saw dead, and persist overlays only older copies of
\* the same record.  It does so itself in its teardown only, which removes the
\* record before it verifies the Stop (main.go:406-408), if the Stop has failed.
RecordKept ==
  [][\A n \in Proc :
       disk[n] # None /\ disk'[n] # disk[n]
         => vm[n] = "off" \/ (survived[n] /\ \E g \in Thread : TdRemove(n, g))]_vars

\* The VM an attempt polls, measures and hands to OpenCode is the one it started,
\* with its own server and configuration: one of an earlier attempt only if it has
\* outlived the Stop in between, which no retry verifies (main.go:487, 524, 560, 579).
FreshMachine ==
  \A p \in Proc :
    main[p] \in {"ks", "hs", "measure", "check", "release", "register", "opencode"}
      => vm[p] = "off" \/ survived[p] \/ born[p] = attempt[p]

\* How far newAuto is within an attempt; alloc and generate are one loop.
Progress ==
  [load |-> 0, prune |-> 1, forget |-> 2, rootfs |-> 3, alloc |-> 4, generate |-> 4,
   inject |-> 5, conf |-> 6, create |-> 7, start |-> 8, ks |-> 9, hs |-> 10,
   measure |-> 11, check |-> 12, retry |-> 13, purge |-> 14, reclone |-> 15,
   release |-> 16, register |-> 17]

\* The setup of p ends, gets to another attempt, or on in this one: to a later
\* call, to a stale record less, or to another server after one it has tried.
Advances(p) ==
  \/ main'[p] \notin Early \cup Setup
  \/ attempt'[p] > attempt[p]
  \/ /\ attempt'[p] = attempt[p]
     /\ \/ Progress[main'[p]] > Progress[main[p]]
        \/ /\ main[p] = "forget" /\ main'[p] = "forget"
           /\ stale'[p] \subseteq stale[p] /\ stale'[p] # stale[p]
        \/ /\ main[p] = "alloc" /\ main'[p] = "generate"
           /\ tried[p] \subseteq tried'[p] /\ tried'[p] # tried[p]
        \/ main[p] = "generate" /\ main'[p] = "alloc" /\ tried'[p] = tried[p]

\* main.go:429, "for attempt := 0; attempt < 20; attempt++": every step of a
\* setup advances it, and nobody else sets it back, the signal goroutine and
\* other invocations included; attempts, servers and records are finitely many.
SetupAdvances ==
  [][\A p \in Proc :
       main[p] \in Early \cup Setup =>
         \/ Advances(p)
         \/ ~SetupStep(p) /\ UNCHANGED <<main[p], attempt[p], tried[p], stale[p]>>]_vars

\* A setup comes to an end, in OpenCode or out of the process.
SetupEnds == \A p \in Proc : main[p] = "load" ~> main[p] \in {"opencode"} \cup Stopped

\* An interrupted invocation ends, whatever its two threads find of each
\* other's teardown.
InterruptEnds == \A p \in Proc : ctxDone[p] ~> main[p] \in Stopped

(***************************************************************************)
(* What the repository says, and the code does not keep (README.md).       *)
(***************************************************************************)

\* "per-VM VPN tunnel with a measured-unique egress": no two VMs in use share
\* an address.
UniqueEgress ==
  \A p, q \in Proc : p # q /\ InUse(p) /\ InUse(q) => v4[p] # v4[q]

\* "Destroy on exit": an invocation that tore down, interrupted or not, leaves
\* no machine, rootfs or secrets.
FullTeardown ==
  \A p \in Proc :
    main[p] = "exited" => vm[p] = "off" /\ rootfs[p] = "none" /\ sdir[p] = "none"

\* "purges its rootfs/secrets": a VM's secrets are there when it starts.
SecretsPresentAtStart ==
  \A p \in Proc : main[p] \in {"create", "start"} /\ ~ctxDone[p] => sdir[p] = "conf"

\* "writers never clobber each other": a removed record stays removed.
NoGhostRecord ==
  \A p \in Proc : main[p] = "exited" /\ ~ctxDone[p] => disk[p] = None
=============================================================================
