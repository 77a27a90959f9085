# new-opencode-vm in TLA+

`new` creates a throw-away systemd-nspawn VM with its own NordVPN WireGuard
tunnel, checks that the public address it got is not the one of another VM, runs
OpenCode in it and destroys everything again. Every invocation is a process of
its own; there is no daemon. All coordination goes through files in the state
directory, most of them under an flock, and through what `machinectl` says. This
directory holds a model of that program, its model-checking runs, and proofs.

Line numbers refer to the sources in this repository (`cmd/new/main.go` is
"main.go" below).

## 1. The system

| Component | State | Operations | Modelled in |
| --- | --- | --- | --- |
| main flow (`newAuto`, main.go) | local variables of one invocation; the `destroyed` flag and the context, shared with the signal goroutine | start-up and prune, rootfs clone, up to 20 tunnel attempts, registration, OpenCode, teardown | `NewAuto` |
| signal handler (main.go 419-427) | waits for the cancelled context | runs the same teardown, then `os.Exit` | `NewAuto`, thread `"sig"` |
| VM registry (`internal/state`) | `state.json`; per process `envs` and `removed` | `New`, `Register`, `Remove`, `persist` (read, merge, write, rename under an flock) | `Registry` step by step, which implements `VMRegistry`; one step in `NewAuto` |
| server reservations (`internal/vpn/reservations.go`) | `reservations.json`: claims (10 min) and unsuitability marks (30 min) | `Reserve`, `Release`, `MarkUnsuitable`, `IsReservedByOther`, `IsUnsuitable` | `ReservationStore`; in time `ReservationProtocol` |
| instance numbers (`internal/allocator`) | counter file | `Allocate` under an flock | `Allocator` |
| addresses (`Config.IPForInstance`) | none | number to bridge address | `Allocator` |
| rootfs cache (`ensureRootfs`, main.go 258) | `rootfsCache/env<number>` | clone unless there is an `etc`, remove | `Allocator`; per invocation in `NewAuto` |
| secrets (`internal/secrets`, main.go 379-380) | `stateDir/secrets/<name>`, parent directory shared | `InjectDir`, `lgwg0.conf`, `RemoveAll` | `NewAuto` (`sdir`) |
| nspawn backend (`internal/backend/nspawn`) | machines known to machined | `Create`, `Start`, `Stop`, `Destroy`, `Exec`, `List` | `Machine`, implemented by `Isolation`; `NewAuto` (`vm`) |
| guest boot script and kill-switch | wg interface and nftables in the guest | `wg-quick up`, then table, chains, rules | `Isolation`, command by command; `NewAuto` (`Boot`) |
| host network (`internal/network`) | host nftables tables, bridge, UFW rule | `EnsureBridge`, `ApplyFilter`, `AllowForward` | `Isolation` |
| NordVPN client (`internal/vpn/vpn.go`) | caches | `countryID`, `RecommendN`, `Allocate`; `GenerateForServer` | `VpnClient`, which implements `IdentityAllocator`; `GenerateForServer` as an outcome in `NewAuto` |
| OpenCode (`internal/opencode`) | files in the rootfs | `ProvisionConfig`, launch command | `NewAuto` (outcome only) |
| configuration, limits, status, command line | none, or read-only | | not modelled |

How they interact. The main flow calls everything else. Processes meet in seven
places: the counter file, the rootfs cache, the reservation list, the registry,
the secrets directory (which has no lock), the host's nftables tables and the
host's machines. Inside one process, main
and the signal goroutine share the `destroyed` flag and all variables, without
any synchronisation.

What is hard. (a) The address is measured, compared with the registry and
registered in separate steps. (b) `persist` overlays the file with a copy that
is as old as the process. (c) Two threads may tear down the same VM. (d) Claims
lapse under their holders, and are released by server, not by owner. (e) An
invocation can be killed anywhere, and the next ones have to cope. (f) Starting
the VM does not wait for its boot script. (g) All secrets live under one
directory. (h) Every invocation deletes and reloads the host's filter, which
protects the VMs of all others. (i) No command of the boot script is checked.
(j) The API is asked in loops within loops, each with its own way to give up.
(k) `Stop` and `RemoveAll` may fail, and nobody looks at their errors; only the
teardown asks whether the VM is gone, and no retry does. Each is a hazard in
`PROJECT.json`, with the properties that watch it.

What makes the components correct:

* main flow: no VM is used without its kill-switch's nftables table (`FailClosed`;
  what the table without a chain is worth is `Isolation`'s subject); an invocation
  that ends by itself leaves no claim, and of VM, rootfs and secrets nothing but what
  it could not remove, and it warns of the VM (`CleanExit`); a VM that is up when the
  teardown verifies is one its `Stop` did not end (`StoppedAtVerify`); an attempt uses
  its own VM, or one that no `Stop` has ended (`FreshMachine`); setups and interrupts come to an end
  (`SetupEnds`, `InterruptEnds`), because each step advances them
  (`SetupAdvances`); addresses are unique but for one race
  (`DuplicateOnlyIfRaced`), and given out as the abstract allocator does
  (`Promised`).
* machines: what a poll has seen of a VM stays until it stops (`LifeCycle`).
* registry: VMs in use are on record, correctly (`LiveRecorded`), and nobody drops
  the record of another's running VM (`RecordKept`).
* registry files: a persist that fails, dies or races others has its effect in
  one step or none (`OneStepEach`), loses nobody's record (`UnremovedStay`), and
  never keeps others waiting for ever (`PersistEnds`).
* reservations: one holder per server (`ExclusiveUnlessLate`), marks stay until
  they expire (`MarksLast`).
* allocator: numbers are unique and never reused (`UniqueIds`, `NeverReused`); an
  address comes again only after 253 numbers (`AddressesApart`), and the bridge's own
  with number 253 (`GatewayKept`); a VM has a whole rootfs of its own, although
  leftovers stay in the cache, unless its own retry could not remove the last one
  (`WholeRootfs`).
* host network and kill-switch: the reload is one invocation's alone
  (`NeverBusy`), and the tables are up outside it (`FilterUp`); nothing leaves a VM
  in use but through the tunnel, whatever part of its kill-switch is missing, if the
  `output` chain was there when the poll saw the table (`NoFallback`), and the LAN is behind two barriers (`TwoBarriers`); everybody's
  turn at the flock comes (`CreateEnds`).
* NordVPN client: a claim that counts is alone on its server (`ClaimAlone`), no claim left behind
  (`ClaimInUse`), identities that were measured and that nobody active has
  (`Promised`, `UniqueUnlessRaced`), steps that go forward only
  (`AllocateAdvances`), and an end of every call (`AllocateEnds`).

## 2. The modules

| Module | What it is |
| --- | --- |
| `ReservationStore` | the list operations of `reservations.go` as functions on sets of entries; no state |
| `NewAuto` | the core: any number of invocations, two threads each, with the registry, the reservation list, the secrets and the machines |
| `MCNewAuto` | its instances for TLC |
| `NewAutoProofs` | type correctness, kill-switch, teardown, registry and address theorems; that it implements `IdentityAllocator`; that an attempt uses its own VM |
| `NewAutoCleanup` | the theorem that a normal end is clean |
| `VMRegistry` | the abstract registry: one map, copies of it, one step per call |
| `Registry` | the registry's files and lock, every step of `persist`; implements `VMRegistry` |
| `MCRegistry`, `RegistryProofs` | its instance; the refinement theorem, and that no record is lost |
| `ReservationProtocol` | the reservations with a clock and expiry |
| `MCReservationProtocol`, `ReservationProofs` | its instance and its theorems |
| `Allocator` | numbers and addresses, the file operations one by one |
| `MCAllocator`, `AllocatorProofs` | its instance and its theorems |
| `Isolation` | the two barriers around a VM: kill-switch and host filter, with the packets they let through |
| `MCIsolation`, `IsolationProofs` | its instance and its theorems |
| `Machine` | the life of a VM: one variable, a step for each thing that can happen to it |
| `IdentityAllocator` | what an allocation of addresses promises, with the theorem that it is enough; `VpnClient` and `NewAuto` implement it |
| `VpnClient` | `Client.Allocate` over `RecommendN` and `countryID`; uses `ReservationStore`, implements `IdentityAllocator` |
| `MCVpnClient`, `VpnClientProofs` | its instance; its invariants and the refinement |

### NewAuto

An invocation `p` is at `main[p]` and `sig[p]`; the locations are named after
the code in its order (`load`, `prune`, `rootfs`, `alloc`, ..., `opencode`,
`td`, ..., `td_report`). The constants are the invocations, servers, addresses,
the number of attempts, who may be interrupted or killed, and what may fail in a
cleanup (`MayFail`).

* Start-up: `Load` is `state.New`; `Prune` and `Forget` are `pruneStaleState`,
  one `Remove` per step. Its `Release(r.Name)` releases nothing, because
  reservations are filed under servers: that is why it is not in `Forget`.
* An attempt: `Reserve`, `GenerateOK`, `GenerateFails` and `AllocateFails` are
  `allocateVPN` (the list of servers is arbitrary, `tried` keeps a server from
  being tried twice); then `InjectDir`, `WriteConf`, `Provision`, `Start`, any of
  which may fail (`SetupFails`); the three polls (`KillSwitchOK`, `HandshakeOK`,
  `Measure`) or their timeout (`AttemptTimesOut`); and `CheckUnique` or
  `CheckCollides` for `sharedVPNv4`. A failed attempt goes through `Retry`,
  `RetryPurge`, `Reclone`.
* The end: `ReleaseClaim`, `Register`, `OpenCodeExits`, and the teardown closure
  `TdTest` ... `TdReport`, each for either thread `g`. Test and set of the flag
  are two steps, as they are in the code. The record goes (`TdRemove`) before the
  stop is verified (`TdVerify`), stopped once more (`TdAgain`) and reported
  (`TdReport`): `exited` after CLEAN, `warned` after WARN.
* Cleanup, in a teardown and in a retry: no caller looks at an error, so each part in
  `MayFail` may fail. `StopVM` (`"stop"`) may leave the machine up (machinectl fails,
  does not know the machine yet, or terminates it later), which the history variable
  `survived` remembers. `Purge` may leave the rootfs, with or without its `etc`
  (`"rootfs"`), or some of the secrets (`"secrets"`); `kept` is what the last one
  left. `verifyVMStopped` (`SaysStopped`) says yes of a machine that is off, of any
  under a cancelled context, and of any when `machinectl status` fails (`"status"`). What
  is left matters later: an `etc` makes `Clone` skip rsync, and a machine that is up
  makes systemd-nspawn refuse the next attempt's `Start`, whose polls then see the
  old one. `born` is the attempt in which the machine was started.
* The environment: `Boot` (the guest's script, which takes its time and may
  fail), `VMDies`, `Expire` (of any entry at any time), `Interrupt`, `Crash`.

A machine is `off`, `boot` (script running), `open` (wg-quick failed: traffic
would leave through the host), `tunnel`, `table` (the kill-switch table exists,
which is all the poll looks at) or `armed`. The order in which it may be these is
module `Machine`. `NewAuto` has the variable itself; `Isolation` has the commands
of the script instead, and `State` reads from what they left how far the machine
is. So the one is a promise to the poll, the other what keeps it.

`IdentityAllocator` is implemented with these: an invocation has a grant (`Holds`)
from its check to the end of OpenCode, it is active while its VM is in use, and
raced are the pairs that `rivals` records. An invocation that is killed between
check and `Register` gives its grant back without ever having been active.

Abstractions, and why they are harmless here:

* Operations under an flock are one step; nobody else sees their inside. For the
  registry that is the refinement of `VMRegistry` by `Registry`. I/O errors of
  the two files are left out here.
* An invocation and its VM have the same name, since numbers are unique; when
  they are is the subject of `Allocator`.
* `sharedVPNv4` is one step, at the moment it reads the file. Its later `curl`
  into other VMs can only report a further collision (`CheckCollides`) and
  counts silence as none, so `CheckUnique` does not depend on it.
* `Stop` and `Destroy` are the same `machinectl terminate`; two in a row are one
  step, which fails if both do. So are the two `RemoveAll` of a purge, each of which
  may fail, and the mark and release of a retry.
* machined learns of a machine some time after `Start`, and ends it some time after
  a `Stop`. A `Stop` that comes too early is one that failed; one that takes its time
  is one that failed before the machine died (`VMDies`).

### Registry and VMRegistry

`Registry` has `state.json` (`file`), its temporary file, the flock, and for
each invocation its `Store` (`envs`, `removed`) and the local `merged` of
`persist`. `Open` is `state.New`, which takes no lock; `Register` and `Remove`
change the copy and enter `persist`: `Lock`, `Read`, `Create` (the truncation by
`os.WriteFile`), `Write`, `Rename`. `Fail` is an error at any of them, which all
callers ignore; `Exit` is the end or the death of the process anywhere. An
invocation removes records it takes for dead, registers at most once, and removes
its own. A file that is absent or cannot be parsed has no records (`Contents`).

`VMRegistry` has the map (`disk`), the copies, and who is inside `persist`
(`busy`). The mapping: `disk` is what a reader makes of `file`, `busy` is who is
between `lock` and `rename`; `Rename` is `Commit`, `Fail` is `Abort`, and the other
steps of `persist` are stutters. The stale copies are part of the promise, because
they are part of the code (section 5, `v_ghost`).

### ReservationProtocol

The same list with the expiry of each entry. An invocation is `idle`, `holding`
a claim, `releasing` after a mark, `using` (in OpenCode, its claim released but
`resKey` still set, so that its teardown will mark and release the server again),
or `done`. `late` records who still held or was about to release when its own
entry lapsed. Each call is one step under its flock, but `save` rewrites the
file in place: `Tear` is a death between truncation and write, after which `load`
fails and no call changes the file any more (`torn`). `NewAuto` allows any expiry at any time, so nothing is lost there;
what time buys is shown here.

### Allocator

A slot is a terminal in which invocations follow each other. `Lock`, `Read`,
`Truncate`, `Write` are `Allocate`; `End` may come anywhere. `os.WriteFile`
truncates and then writes: a death in between leaves an empty file, which the
next call takes for 0 (`torn`). `IPForInstance` is taken literally, with `Hosts` for
its 253. The rootfs of
an invocation has its number for a name: `EnsureRootfs` takes what is there if it
has an `etc`, else rsync runs until `Cloned`; `Reclone` is the retry, `Teardown`
removes it, and either `RemoveAll` may fail (`RemoveAllFails`): a retry then goes on
with what is left if that has an `etc` (`kept`). A teardown that fails, a process that
dies or whose first clone fails leaves it in `part` or `whole`. A number handed out
twice would meet such leftovers.

### Isolation

An invocation goes through `nspawn.Create`: `EnsureBridge`; `ApplyFilter` as
`Lock`, `DeleteFilter`, `DeleteNat`, `Load`; `AllowForward` as `ListForward` and
`InsertForward`. Each may fail (`CreateFails`) and the process may die anywhere
(`Die`), which frees the flock. Then its VM boots, `KillSwitchOK` is the poll,
`Stop` a failed attempt or the end. `lost` remembers an `ApplyFilter` that ended
between its deletes and its load; `unchained` the VMs whose table was seen without
the `output` chain, since the poll looks at the table only: a moment too early, or
after nft has refused the chain for good.

The boot script runs command by command (`WgQuick`, `AddTable`, `AddChain`,
`AddRules`), and each command in `MayFail` may fail without consequence for the
next ones, as in the script. (`output6` is created with `family inet` inside the
chain's braces, vpn.go:523. Should nft refuse that, the chain is missing, and
its rules with it: one of the cases `NoFallback` covers.)

A packet is a VM, a destination (public, LAN, the host, another VM), a source
address (the guest's own or the tunnel's) and an interface. `Route` is what
`wg-quick` sets up for `AllowedIPs = 0.0.0.0/0`; `GuestPasses` are the chains in
the guest, `FilterPasses`, `UfwPasses` and `HostPasses` those of the host. A
connection that was ever made is known, and its packets may be routed elsewhere
when the tunnel is lost (`TunnelLost`): they still have the tunnel's address, which
is why the host does not take them for a guest's.

Left out: the NAT of the host (`nat` is only loaded or not), the rules for IPv6
guests, which the source itself calls inert (network.go:157-162), a reload of UFW,
frames below IP. `BridgeNF` says whether packets between guests pass the host's
nftables at all, which the code does not control; the theorems hold either way.

### IdentityAllocator and VpnClient

`IdentityAllocator` knows who has which identity (`granted`) and who is `active`;
`Grant` needs an identity that is not blank and shares no address with an active
one. `raced` records the pairs of which one was granted while the other had its
identity and was not active yet.

In `VpnClient`, `call[p]` is the frame of `Allocate`: the country, the failed
attempts of the current request, the servers not looked at, the server in hand,
the identity. `known` is `countryIDCache`, `resv` the live entries of
`reservations.json`, of which any may lapse at any time (`Lapse`): the ten minutes
of a claim against a connector and a measurer of any duration. `RequestFails` is
every failure that is retried (transport, 429, status, JSON); `CountryUnknown` and
an empty recommendation are not. `Consider` reads without the lock: what it reads
may be old, or nothing at all while another process saves, so it may let any server
through, and `Reserve` looks again. `Connect` and `Measure` are the callbacks,
`Register` and `Leave` the caller's later moves; `Others` are the identities of VMs that
are active throughout. Marks have their maker in them (`by`): two processes, of which
one has lost its claim to time, may mark one server, and the JSON array then has two
entries that count. Only tests call `Allocate`;
`allocateVPN`, which `new` uses, is the same up to `Reserve` (in `NewAuto`), so that
`AllocateEnds` and `ClaimAlone` concern it as well. Keys are left out:
`mustPrivateKey` always returns something.

## 3. The runs

All configurations allow deadlock, as the program ends.

| Run | Instance | Shows |
| --- | --- | --- |
| `newvm_pair` | 2 invocations that may be killed, 2 servers, 2 addresses, 1 attempt; `Stop` may fail | `TypeOK`, `FailClosed`, `DuplicateOnlyIfRaced`, `CleanExit`, `LiveRecorded`, `RecordKept`, `Promised` (refinement) |
| `newvm_alone` | 1 invocation, 2 attempts, interrupts and kills; every part of a cleanup may fail; fairness | `CleanExit`, `StoppedAtVerify`, `FreshMachine`, `SetupAdvances`, `SetupEnds`, `InterruptEnds` |
| `reservations` | 3 invocations, 1 server, TTLs 2 and 6, clock up to 8 | `TypeOK`, `ExclusiveUnlessLate`, `MarksLast` |
| `registry` | 3 invocations, fairness of `persist` | `TypeOK` (the file is never torn), `OneStepEach` (refinement), `UnremovedStay`, `PersistEnds` |
| `allocator` | 3 slots, 5 calls, 3 addresses, counter starting at 0 or 7 | `TypeOK`, `UniqueIds`, `AddressesApart`, `GatewayKept`, `WholeRootfs`, `NeverReused` |
| `network` | 2 invocations, both of which boot a VM, traffic in one; wg-quick and both chains may fail; fairness of `Create` | `TypeOK`, `NeverBusy`, `FilterUp`, `NoFallback`, `TwoBarriers`, `LifeCycle` (refinement), `CreateEnds` |
| `vpnclient` | 2 processes and a VM active throughout, 2 countries, 2 servers, 2 attempts, identities of one IPv4 and one IPv6 address; fairness of `Allocate` | `TypeOK`, `ClaimAlone`, `ClaimInUse`, `UniqueUnlessRaced`, `Promised` (refinement), `AllocateAdvances`, `AllocateEnds` |
| `v_egress`, `v_teardown`, `v_secrets`, `v_ghost` | 1 or 2 invocations | violations, section 5 |
| `v_torn` | as `reservations` | violation, section 5 |

Bounds. Two invocations are the least with interference, and each property
relates at most two. Two servers let `GenerateFails` move on and let both
invocations hold one; two addresses let them collide or not. One attempt in
`newvm_pair` takes a failed attempt through its retry's cleanup and clone to the
end. `newvm_alone` has a second attempt, the interrupts and all the failures of a
cleanup: its subject is the two threads of one invocation and what it leaves. There a
VM of the first attempt that outlives its `Stop` is there in the second. Interrupts
or failing removals of two together, and a surviving VM with a second invocation
and a second attempt, are covered by the theorems only, which hold for any
`MayFail`; so is what others do to a setup in `SetupAdvances`, and its loop
over stale records, of which an invocation that is alone finds none. Three invocations in `reservations` make a
holder, one that releases its server from outside, and a newcomer; one server
suffices because no operation relates two; one unit of time is five minutes, so
that the TTLs have the ratio of 10 and 30 minutes, and `MaxClock` lets a mark
expire and a claim be made and lapse after it. Three invocations in `registry`
make one that registers, one that removes, and one with an old copy; a record
has one possible content, as each is registered once. `allocator` has three addresses
instead of 253, so that within `MaxCalls` they come again while older VMs run: two VMs
do share one there, at a distance of three numbers, and with a remainder that is one
too small (its mutant) at two. In `network` two invocations
reload the tables under each other's VMs; `Busy` restricts traffic and the loss of
the tunnel to one VM, since no rule relates the traffic of two, `MayFail` to
wg-quick, on which the rest of the script depends, and the chains, on which all
rules do (a missing rule only lets less pass), and
`BridgeNF` is off, the weaker case for a guest. In `vpnclient` two servers in the
preferred country make `Consider` go on, the fallback, where none is, `NextCountry`;
two of four attempts exercise retry and giving up; identities with one address of
either family can share the one, the other or neither. The VM that is active
throughout has the IPv6 address, so that both processes can collide with it on one
server, where each leaves its mark.

Symmetry: servers and addresses are interchangeable, and so are invocations with
the same faults; it is used in the safety runs only.

Fairness of `registry`: weak fairness of each invocation's `persist`, whose steps
are system calls. It is enough for the flock, since each invocation makes a bounded
number of calls.

Fairness (`newvm_alone`): weak fairness of the main thread and of the signal
goroutine. The Go scheduler and the bounded waits justify it in part: 6 polls of
half a second, 15 of two seconds, one minute of measuring, 4 seconds for
`verifyVMStopped` and `List`, and timeouts of the HTTP client. The rest is assumed:
`machinectl terminate` (nspawn.go:153), the status call in `leaderPID`
(nspawn.go:165), on which every poll of the guest waits, and rsync have no timeout, and
fairness says that they return, with a success or not. If one never does, the
setup or the teardown hangs there, and neither `SetupEnds` nor `InterruptEnds` holds.
None is assumed for the user leaving OpenCode, for the guest's boot, for answers
or for signals.

Fairness of `network`: weak for the commands of `Create`, which are short, and
strong for `Lock`, because the kernel queues those who wait in `flock` and wakes
them in turn. None for the guest. Fairness of `vpnclient`: weak for the next step of
a call, whatever its outcome: requests have a timeout of 20 seconds, four attempts
and pauses of at most 16; no request need ever succeed.

## 4. The proofs

`tlapm` checks every proof; each theorem holds for any number of invocations,
servers, addresses, attempts, slots and any TTLs the assumptions allow. The
assumptions on constants are the named `ASSUME`s of the modules: that `None` and
`NoInstance` are no proper values, at least one attempt, at least one address
(`Hosts`), `Others` of `VpnClient` identities that are not blank, and `ReserveTTL <= UnsuitableTTL`.

**NewAutoProofs.** `TypeInv` strengthens `TypeOK` by where main is: who marks or
releases has a server (`KeyInv`), who registers has an address (`AddressInv`),
who sets up has an attempt left (`AttemptInv`). From it `TypeCorrect`, and
`KillSwitchFirst` for `FailClosed`, which is inductive with the types.

`ThreadInv` is about the two threads: the goroutine is in the teardown only when
the context is cancelled (`SigInv`), and after the `Stop` of either thread the
machine is off or has outlived it (`StopInv`, `Gone`). It needs the fact,
`StepStable`, that no machine comes up once main is past the setup or the context is
cancelled, because `Start` refuses a cancelled context. This gives `StoppedForGood`:
when `verifyVMStopped` says yes under a cancelled context, as it always does, it is
wrong only of a machine that has outlived its `Stop`, never of one that main has
started meanwhile.

`RecordInv` explains why stale copies do no harm to VMs in use: every copy of a
record anywhere is the true one, because an invocation registers once, and every
VM whose record anybody ever found dead or removed is down for good, or removed
by its own teardown (`Lost`). `RecordsComplete` (`LiveRecorded`) and `RecordsKept`
(`RecordKept`) follow: the record of a running VM is dropped by its own teardown
only, after a `Stop` that failed. Stale copies do revive
records of VMs that are gone: section 5.

`RaceInv` follows an invocation from its check to the end of OpenCode. Together
with `LiveRecorded` it shows that two equal addresses need one invocation
checking while the other stands between check and `Register`
(`DuplicatesNeedARace`).

`NewAutoAllocates` is `Spec => IdentityAllocator!Spec`. `LiveInv` is all of the
above; `GrantInv` adds that a grant is an address and that nobody has rivals before
its check, which is what `CheckUnique` needs to be one `Grant`: who holds the
address and is active is on record, so the check would have seen it, and who holds
it and is not active becomes a rival in that step. `Register` makes active,
the end of OpenCode, the death of the process or the death of the VM end it, and
all other steps are stutters.

`SetupGoesOn` is the safety half of `SetupEnds`. `SetupForward` goes through
the setup's steps, each of which is at a later call, or at a further server or
attempt; `SetupKept` shows that nobody else touches where a setup is. The order is
well-founded for finitely many servers and records; that it therefore ends when
its thread keeps running is what TLC checks.

`OwnMachine` (`FreshMachine`) needs `FreshInv`: whenever an invocation is before
`Start`, in the first attempt or a later one, its VM is off or has outlived a `Stop`,
and after it was born in the attempt. Every way to another attempt leads through a
`Stop` (`RetryPurge`), and nothing but `Start` brings a VM up.

**NewAutoCleanup.** `Tidy` says of an invocation that is neither interrupted nor
killed where it can hold a claim and on which server, what its teardown has
removed so far or could not remove, and what its report was based on. The steps of
the others only take from it (`OthersTidy`): they may remove its secrets, too. Theorem
`EndsClean` for `CleanExit`.

**RegistryProofs.** `Inv` adds to the types that only the holder of the flock is
between `Lock` and `Rename` (`LockInv`), and that what it is about to write is
still the merge with the file as it is, and sits whole in the temporary file
before the rename (`MergeInv`). `TypeCorrect` needs it, since the file is never
torn only because of that; `StepRefines` maps each step under it, and
`RegistryRefines` is `Spec => VMRegistry!Spec` under the mapping.

`UnremovedKept` is about stale copies. A step that writes an old copy over the file
changes nothing of a record that nobody removed, for `CopyInv`: until somebody
removes it, all copies of it that exist, in the file, the temporary one and in
anybody's memory, are equal, and there is none before its owner registers. A removed
record is remembered as removed by whoever did it, so that
`Unremoved` is never true again; it is what makes `CopyInv` inductive.

**ReservationProofs.** `OneHolderPerServer` rests on three facts about an
invocation that is not late: the entry it relies on is in the list and fresh,
its claim is covered by its own entry or by a mark that outlives it (this is
where `ReserveTTL <= UnsuitableTTL` is needed), and nobody reserves a covered
server. In a torn file nothing can be reserved at all, so the
first two facts are not needed there. `MarksAreKept` is by cases on the operations.

**AllocatorProofs.** `Inv` ties the flock's holder to its stage and the counter
to the highest number handed out, outside the window between `Truncate` and
`Write`. `IdsAreUnique`, `IdsAreNeverReused`, and, as different numbers of running
VMs are at most the highest one handed out (`LiveInv`) and those with one remainder
`Hosts` apart (`AddressReturns`), `AddressesComeLate`.

`GatewayIsKept` adds `PositiveInv`: a number is at least 1 from the moment it is
computed, whatever the file held, and below `Hosts` it is its own remainder.

`WholeRootfs` needs `CacheInv`: whatever is in the cache has a number that was
handed out, so that an invocation finds nothing under its own but what it failed to
remove itself (`RootfsIsWhole`).

**IsolationProofs.** `CycleInv` says who is inside the cycle by the flock and which
table that invocation has deleted (`CycleIndivisible`); `UpInv` makes the tables
present whenever nobody is between a delete and the load and none was lost
(`FilterStaysUp`). `GuestInv` is the guest's half: a VM in use has its own table,
and its `output` chain too unless it is in `unchained`; `ScriptInv` that a script not
yet past the table has not loaded it. `ConnInv` says where each connection comes
from and goes to: one that left by `host0` in the clear belongs to a VM in `unchained`
(`TunnelOnly`, `BothBarriers`). `GuestsLive` is `Spec => Machine!Spec` under
`State`: with `TunnelInv`, that the script gets to the table only with a tunnel, each
of its commands is a step of the machine or a stutter (`ScriptForward`). They hold for any set of failing commands, and for
either value of `BridgeNF`.

**IdentityAllocator, VpnClientProofs.** `Unique` is the theorem of the abstract
allocator. `Inv` of the client adds to its invariants that a call past `Reserve` has
a server in hand (`Sound`), and past `Measure` an identity. `CallStep` handles all
steps that leave the file alone, `StoreNext` the three that write it: a claim is made
only where neither another claim nor a mark counts, and a mark takes the claims away
(`ClaimsAlone`). `Implements`
is `Spec => IdentityAllocator!Spec`: every step of a call is a stutter
(`HiddenSteps`) but the last (`SucceedGrants`). `UniqueIdentities` then follows from
`Unique` and the refinement, with nothing of the client in it. `CallsGoOn` is the
safety half of `AllocateEnds`: every step of a call brings it forward (`WorkAhead`),
in an order of countries, attempts, servers and stages, and nobody else moves it
(`CallKept`).

Only model-checked: the liveness properties `SetupEnds`, `InterruptEnds`,
`PersistEnds`, `CreateEnds` and `AllocateEnds`, as fairness and `ENABLED` are out of
the prover's reach, and the well-founded induction that would lead from
`SetupAdvances` and `AllocateAdvances` to an end with them; and of course the
violations. Every safety property of a passing run is a theorem.

## 5. Where the code does not keep what is said of it

Each has a run that ends in a counterexample.

* **Egress is not always unique** (`v_egress`; README.md:5, main.go:597). The
  address is compared at main.go:570 and registered at 602, with no lock over
  both. Two invocations that measure the same address both find it free. The claim
  on the server, which might have kept them apart, is released at 597, before
  the address is "now recorded".
* **An interrupt may leave the VM** (`v_teardown`; main.go:388-390, 419). After
  Ctrl+C the goroutine tears down while main runs into an error of its own and
  calls `teardown` too. The second caller sees the flag, returns at once and exits
  the process, which stops the first in the middle.
* **Secrets of other VMs are removed** (`v_secrets`; README.md:44,
  secrets.go:109). `secretsDir` is the parent directory of all VMs. One teardown
  or retry between another's `InjectDir` and boot takes its `lgwg0.conf` away. The
  other VM then fails closed, and its attempt is wasted.
* **Records come back** (`v_ghost`; state.go:5-7, 130-131). `persist` writes the
  process's own old copies over the file. A VM that was on record when another
  invocation started returns when that one writes. `RecordsComplete` shows that
  this never hurts a VM in use; until a later prune, the ghost's address counts
  as taken.

* **A crash may block all reservations** (`v_torn`; reservations.go:24-25). `save`
  uses `os.WriteFile` on the file itself. A death between its truncation and its
  write leaves an empty file; `load` then fails with a JSON error, `withLock`
  returns before it could save, and no server can be reserved on the host until
  somebody deletes the file. A full disk does the same. The registry's temporary
  file and rename (`TypeCorrect` of `RegistryProofs`) show the way out.

Observed in the arithmetic, with no run of its own: `IPForInstance` gives number
253, and each multiple of it, host byte 1, which is the gateway; the comment at
config.go:235-237 says that it never collides for distinct numbers, which is wrong
at a distance of 253: a VM that runs while 253 more are numbered shares its address
with the last of them. `GatewayKept` and `AddressesApart` state how far it goes, and
`allocator` has the states in which two VMs share an address.

Observed while modelling, with no run of their own. The kill-switch poll is to
"verify kill-switch is armed" (main.go:472), and looks for the table alone, which
the script makes before its chains, and which is there also when nft refuses the
chain `output` for good (vpn.go:512); the exception `unchained` in `NoFallback`, and
the premise of `TwoBarriers`, are these VMs. The teardown claims "zero orphans"
(main.go:389), and removes the record of a VM (406) before it asks whether the VM is
gone (408), so that one whose `Stop` failed runs on without a record, and others may
take its address: the exceptions of `CleanExit` and `RecordKept`. A retry does not ask
at all, and the next attempt may poll, measure and use a VM with the server and keys of
the one before, while it records its own: the exception of `FreshMachine`. A retry
whose `RemoveAll` leaves an `etc` runs on what is left (main.go:265; the comment at
main.go:459-460 says that a retry "re-clones the rootfs (wiping it)"): the exception of
`WholeRootfs`. vpn.go:12 promises "an independent
WireGuard keypair per VM" on the token path; `GenerateForServer`, which `new` calls,
takes the account's key (vpn.go:351-356), the very thing the comment at
vpn.go:646-650 warns of. The pauses of the API client ignore the context
(vpn.go:183).

## 6. Not modelled, and the plan

Not modelled for good: `limits`, `status`, elevation, argument parsing, the
contents of configuration and OpenCode files: pure mappings or read-only output.

`internal/secrets` is modelled as far as several invocations meet in it; its JSON
file has one writer. `GenerateForServer` and `harvestHostKey` succeed or fail in
`NewAuto`; `GenerateSafe` and `GenerateFromHostKey` have no caller. I/O errors of the
two JSON files are left out of `NewAuto` and `ReservationProtocol`, the ignored error
of `Register` and the early returns of `sharedVPNv4`, which count as no collision,
among them.

Next, in this order:

1. A larger `newvm_pair` with a second attempt and one interrupt, if the state space
   can be cut down to it; today its properties for those rest on the theorems.
2. `GenerateForServer` with its two sources of keys in `VpnClient`, so that the use
   of one key by several VMs can be stated.
3. The other side of section 5: theorems that say when what is violated there does
   hold. Secrets are present at `Start` unless another invocation cleaned up since;
   a record comes back only from a copy older than its removal; an interrupted
   invocation whose main thread does not get to the teardown leaves nothing.
