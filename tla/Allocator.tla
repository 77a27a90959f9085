------------------------------ MODULE Allocator ------------------------------
(***************************************************************************)
(* Instance numbers and guest addresses.  allocator.Allocator              *)
(* (internal/allocator/allocator.go) numbers the invocations of `new` with *)
(* a counter file, read, incremented and written back under an flock;      *)
(* Config.IPForInstance (internal/config/config.go) derives the address of *)
(* the VM on the host bridge from the number, and newAuto the name of its  *)
(* rootfs in the cache, which ensureRootfs (cmd/new/main.go) clones unless *)
(* there is one with a directory etc.                                      *)
(*                                                                         *)
(* A slot is a terminal in which invocations run one after the other.  The *)
(* file is rewritten in place, by a truncation and a write: an invocation  *)
(* that dies, or fails to write, in between leaves it empty.  Nobody looks *)
(* whether a rootfs could be removed: what is left of it stays.            *)
(***************************************************************************)
EXTENDS Integers

CONSTANTS
  Slot,      \* invocations that may run at the same time
  None,      \* nobody holds the flock
  Counters,  \* what the file may hold from earlier invocations
  Hosts,     \* host bytes that IPForInstance gives out (253 in the code)
  MaxCalls   \* bound of the runs on the calls of Allocate

ASSUME NoneAssumption == None \notin Slot
ASSUME CounterAssumption == Counters \subseteq Nat /\ MaxCalls \in Nat
ASSUME HostsAssumption == Hosts \in Nat \ {0}

VARIABLES
  calls,   \* invocations so far, for MaxCalls
  file,    \* the counter; 0 also stands for a file that is missing or empty
  lock,    \* holder of the flock
  stage,   \* where the invocation of a slot is
  n,       \* its local variable n, then its number
  whole,   \* numbers with a rootfs in the cache,
  part,    \* and with one that is not complete but has its etc
  \* history, for properties only
  issued,  \* the highest number ever handed out
  torn,    \* the file was left empty
  kept     \* slots whose last RemoveAll of their rootfs failed

cache == <<whole, part>>
vars  == <<calls, file, lock, stage, n, cache, issued, torn, kept>>

Stage == {"idle", "lock", "read", "truncate", "write",
          "live",     \* has its number
          "clone",    \* rsync copies the base to the cache
          "running"}  \* has its rootfs
InFlock  == {"read", "truncate", "write"}
Numbered == {"live", "clone", "running"}

TypeOK ==
  /\ calls \in Nat /\ file \in Nat /\ lock \in Slot \cup {None}
  /\ stage \in [Slot -> Stage] /\ n \in [Slot -> Nat]
  /\ whole \in SUBSET Nat /\ part \in SUBSET Nat
  /\ issued \in Nat /\ torn \in BOOLEAN /\ kept \in SUBSET Slot

Init ==
  /\ calls = 0 /\ file \in Counters /\ lock = None
  /\ stage = [s \in Slot |-> "idle"] /\ n = [s \in Slot |-> 0]
  /\ whole \in SUBSET ({file} \ {0}) /\ part \in SUBSET (({file} \ {0}) \ whole)
  /\ issued = file /\ torn = FALSE /\ kept = {}

Goto(s, from, to) == stage[s] = from /\ stage' = [stage EXCEPT ![s] = to]

Begin(s) ==
  /\ calls < MaxCalls /\ calls' = calls + 1
  /\ Goto(s, "idle", "lock")
  /\ UNCHANGED <<file, lock, n, cache, issued, torn, kept>>

\* Mutant of Lock: LOCK_SH.
LockShared(s) ==
  /\ Goto(s, "lock", "read")
  /\ lock' = s
  /\ UNCHANGED <<calls, file, n, cache, issued, torn, kept>>

Lock(s) ==
  /\ lock = None
  /\ Goto(s, "lock", "read")
  /\ lock' = s
  /\ UNCHANGED <<calls, file, n, cache, issued, torn, kept>>

\* Mutant of Read: a counter that is missing or empty is handed out as it is.
ReadFromZero(s) ==
  /\ Goto(s, "read", "truncate")
  /\ n' = [n EXCEPT ![s] = IF file = 0 THEN 0 ELSE file + 1]
  /\ UNCHANGED <<calls, file, lock, cache, issued, torn, kept>>

\* Mutant of Read: the error of Atoi is not looked at, and -1 used for it.
ReadUnchecked(s) ==
  /\ Goto(s, "read", "truncate")
  /\ n' = [n EXCEPT ![s] = IF file = 0 THEN -1 ELSE file + 1]
  /\ UNCHANGED <<calls, file, lock, cache, issued, torn, kept>>

\* ReadFile, Atoi and n++: what is not a number counts as 0.
Read(s) ==
  /\ Goto(s, "read", "truncate")
  /\ n' = [n EXCEPT ![s] = file + 1]
  /\ UNCHANGED <<calls, file, lock, cache, issued, torn, kept>>

\* os.WriteFile opens with O_TRUNC ...
Truncate(s) ==
  /\ Goto(s, "truncate", "write")
  /\ file' = 0
  /\ UNCHANGED <<calls, lock, n, cache, issued, torn, kept>>

\* Mutant of Write: the number handed out is not the one written.
WriteOld(s) ==
  /\ Goto(s, "write", "live")
  /\ file' = n[s] - 1 /\ lock' = None
  /\ issued' = IF n[s] > issued THEN n[s] ELSE issued
  /\ UNCHANGED <<calls, n, cache, torn, kept>>

\* ... and writes the digits.  Allocate returns, and the flock is released.
Write(s) ==
  /\ Goto(s, "write", "live")
  /\ file' = n[s] /\ lock' = None
  /\ issued' = IF n[s] > issued THEN n[s] ELSE issued
  /\ UNCHANGED <<calls, n, cache, torn, kept>>

\* os.RemoveAll fails before it has removed anything, or after, and leaves an etc.
RemoveAllFails(s) ==
  \/ UNCHANGED cache
  \/ whole' = whole \ {n[s]} /\ part' = part \cup {n[s]}

\* Mutant of EnsureRootfs: rsync is started, and not waited for.
EnsureRootfsStarts(s) ==
  /\ stage[s] = "live" /\ stage' = [stage EXCEPT ![s] = "running"]
  /\ part' = IF n[s] \in whole \cup part THEN part ELSE part \cup {n[s]}
  /\ UNCHANGED <<calls, file, lock, n, whole, issued, torn, kept>>

\* ensureRootfs returns at once if there is a directory etc, else rsync begins.
EnsureRootfs(s) ==
  /\ stage[s] = "live"
  /\ IF n[s] \in whole \cup part
       THEN stage' = [stage EXCEPT ![s] = "running"] /\ part' = part
       ELSE stage' = [stage EXCEPT ![s] = "clone"] /\ part' = part \cup {n[s]}
  /\ UNCHANGED <<calls, file, lock, n, whole, issued, torn, kept>>

\* rsync is done.
Cloned(s) ==
  /\ Goto(s, "clone", "running")
  /\ part' = part \ {n[s]} /\ whole' = whole \cup {n[s]}
  /\ UNCHANGED <<calls, file, lock, n, issued, torn, kept>>

\* An attempt has failed: the rootfs is removed, and cloned again unless enough of
\* it could not be removed, its etc, to be taken for one.
Reclone(s) ==
  /\ stage[s] = "running"
  /\ \/ /\ stage' = [stage EXCEPT ![s] = "clone"]
        /\ whole' = whole \ {n[s]} /\ part' = part \cup {n[s]}
        /\ kept' = kept \ {s}
     \/ /\ RemoveAllFails(s) /\ UNCHANGED stage
        /\ kept' = kept \cup {s}
  /\ UNCHANGED <<calls, file, lock, n, issued, torn>>

\* The teardown removes the rootfs, also after a clone that failed in a retry; what
\* it cannot remove is left in the cache.
Teardown(s) ==
  /\ stage[s] \in {"clone", "running"}
  /\ stage' = [stage EXCEPT ![s] = "idle"] /\ n' = [n EXCEPT ![s] = 0]
  /\ \/ whole' = whole \ {n[s]} /\ part' = part \ {n[s]}
     \/ RemoveAllFails(s)
  /\ kept' = kept \ {s}
  /\ UNCHANGED <<calls, file, lock, issued, torn>>

\* The invocation is killed, its WriteFile fails, or its rsync, which leaves by
\* os.Exit: the kernel releases the flock, and the files stay as they are, but
\* a rootfs that is broken off may have no etc yet.
End(s) ==
  /\ stage[s] # "idle"
  /\ stage' = [stage EXCEPT ![s] = "idle"]
  /\ n' = [n EXCEPT ![s] = 0]
  /\ lock' = IF lock = s THEN None ELSE lock
  /\ torn' = (torn \/ stage[s] = "write")
  /\ \/ part' = part
     \/ stage[s] = "clone" /\ part' = part \ {n[s]}
  /\ kept' = kept \ {s}
  /\ UNCHANGED <<calls, file, whole, issued>>

Next ==
  \E s \in Slot :
    \/ Begin(s) \/ Lock(s) \/ Read(s) \/ Truncate(s) \/ Write(s)
    \/ EnsureRootfs(s) \/ Cloned(s) \/ Reclone(s) \/ Teardown(s) \/ End(s)

Spec == Init /\ [][Next]_vars

-----------------------------------------------------------------------------
(***************************************************************************)
(* Addresses.  Only the last byte depends on the number.  The bridge itself*)
(* has 1, which is also what every 253rd instance gets.                    *)
(***************************************************************************)
\* Mutant of IPForInstance: the remainder is taken one too small.
IPOffByOne(id) == 1 + (id % (Hosts - 1))

IPForInstance(id) == 1 + (id % Hosts)

\* The bridge's own address, 10.89.0.1.
Gateway == 1

-----------------------------------------------------------------------------
\* Two invocations that run at the same time have different numbers, and so
\* different VMs, unless an invocation died between truncation and write.
UniqueIds ==
  ~torn => \A s, t \in Slot :
    s # t /\ stage[s] \in Numbered /\ stage[t] \in Numbered => n[s] # n[t]

\* Under the same condition a number is never handed out a second time.
NeverReused ==
  [][\A s \in Slot :
       ~torn /\ stage[s] # "live" /\ stage'[s] = "live" => n'[s] > issued]_vars

\* config.go:235, "never collides for distinct IDs", as far as it goes: an address
\* comes again after Hosts numbers, so that two VMs of one address need that many
\* numbers handed out while the older of them runs.
AddressesApart ==
  ~torn => \A s, t \in Slot :
    /\ s # t /\ stage[s] \in Numbered /\ stage[t] \in Numbered
    /\ IPForInstance(n[s]) = IPForInstance(n[t])
    => issued >= n[s] + Hosts \/ issued >= n[t] + Hosts

\* No VM gets the address of the bridge it hangs on before the host has handed
\* out Hosts - 1 numbers: the counter never gives 0, also when it was torn and
\* starts over, and the remainder comes to 0 with number Hosts (config.go:243).
GatewayKept ==
  \A s \in Slot : stage[s] \in Numbered /\ n[s] < Hosts => IPForInstance(n[s]) # Gateway

\* main.go:265, ensureRootfs, takes a directory etc for a whole rootfs.  It is
\* right, although nobody removes what a clone that was broken off or a RemoveAll
\* that failed has left, because no number comes back: no invocation finds the
\* rootfs of another or loses its own to one, unless the counter was torn, and a
\* retry runs on a damaged one only if its own RemoveAll has just failed
\* (main.go:489, 526, 562, 581).
WholeRootfs ==
  ~torn => \A s \in Slot : stage[s] = "running" => n[s] \in whole \ part \/ s \in kept
=============================================================================
