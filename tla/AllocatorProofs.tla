--------------------------- MODULE AllocatorProofs ---------------------------
(***************************************************************************)
(* Proofs about Allocator, for any number of slots, any counter to start   *)
(* from and any number of calls.                                           *)
(*                                                                         *)
(* Inv says who is inside the flock and what the counter is worth there:   *)
(* outside the window between Truncate and Write the file holds the        *)
(* highest number handed out, unless it was torn.                          *)
(***************************************************************************)
EXTENDS Allocator, TLAPS

\* The holder of the flock is the one slot between Lock and Write.
LockInv == \A s \in Slot : stage[s] \in InFlock <=> lock = s

\* What the holder of the flock, and nobody else, may still hand out.
CounterInv ==
  ~torn =>
    /\ (\A s \in Slot : stage[s] # "write") => file = issued
    /\ \A s \in Slot : stage[s] \in {"truncate", "write"} => n[s] = issued + 1

\* The numbers in use were handed out, each once.
LiveInv == ~torn => \A s \in Slot : stage[s] \in Numbered => n[s] <= issued

\* No number in use is 0, torn or not.
PositiveInv ==
  \A s \in Slot : stage[s] \in {"truncate", "write"} \cup Numbered => n[s] > 0

\* What is in the cache was put there under a number handed out; an invocation
\* finds none under its own, and then has what it cloned.
CacheInv ==
  ~torn =>
    /\ \A i \in whole \cup part : i <= issued
    /\ \A s \in Slot : stage[s] = "live" => n[s] \notin whole \cup part

Inv == /\ TypeOK /\ LockInv /\ CounterInv /\ LiveInv /\ UniqueIds
       /\ CacheInv /\ WholeRootfs /\ PositiveInv

\* One step of one slot.
RootfsStep(s) == EnsureRootfs(s) \/ Cloned(s) \/ Reclone(s) \/ Teardown(s)
SlotStep(s) ==
  Begin(s) \/ Lock(s) \/ Read(s) \/ Truncate(s) \/ Write(s) \/ RootfsStep(s) \/ End(s)

\* Inv holds at the start, whatever earlier invocations left in the file.
LEMMA InvInit == Init => Inv
<1> SUFFICES ASSUME Init PROVE Inv
  OBVIOUS
<1>1. TypeOK
  <2>1. torn \in BOOLEAN
    BY DEF Init
  <2>2. QED BY <2>1, CounterAssumption DEF Init, TypeOK, Stage
<1>2. LockInv
  BY NoneAssumption DEF Init, LockInv, InFlock
<1>3. CounterInv /\ LiveInv /\ UniqueIds
  BY DEF Init, CounterInv, LiveInv, UniqueIds, Numbered
<1>4. CacheInv /\ WholeRootfs /\ PositiveInv
  <2>1. file \in Nat /\ issued = file /\ whole \cup part \subseteq {file}
    BY CounterAssumption DEF Init
  <2>2. ASSUME NEW i \in whole \cup part PROVE i <= issued
    <3>1. i = file
      BY <2>1
    <3> QED BY <2>1, <3>1
  <2>3. \A s \in Slot : stage[s] = "idle"
    BY DEF Init
  <2> QED BY <2>2, <2>3 DEF CacheInv, WholeRootfs, PositiveInv, Numbered
<1>5. QED BY <1>1, <1>2, <1>3, <1>4 DEF Inv

\* Types are kept by every step.
LEMMA TypeStep ==
  ASSUME TypeOK, NEW s \in Slot, SlotStep(s)
  PROVE  TypeOK'
<1>1. CASE End(s)
  <2>1. torn' \in BOOLEAN
    BY <1>1 DEF End
  <2>2. QED BY <1>1, <2>1 DEF TypeOK, End, Stage
<1>2. CASE RootfsStep(s)
  <2>1. n[s] \in Nat
    BY DEF TypeOK
  <2>2. stage' \in [Slot -> Stage] /\ n' \in [Slot -> Nat]
    BY <1>2 DEF RootfsStep, EnsureRootfs, Cloned, Reclone, Teardown, Goto, Stage, TypeOK
  <2>3. whole' \in SUBSET Nat /\ part' \in SUBSET Nat /\ kept' \in SUBSET Slot
    BY <1>2, <2>1 DEF RootfsStep, EnsureRootfs, Cloned, Reclone, Teardown, RemoveAllFails,
                      cache, TypeOK
  <2>4. UNCHANGED <<calls, file, lock, issued, torn>>
    BY <1>2 DEF RootfsStep, EnsureRootfs, Cloned, Reclone, Teardown
  <2> QED BY <2>2, <2>3, <2>4 DEF TypeOK
<1>3. CASE ~End(s) /\ ~RootfsStep(s)
  <2>1. UNCHANGED <<cache, kept>>
    BY <1>3 DEF SlotStep, Begin, Lock, Read, Truncate, Write
  <2>2. whole' \in SUBSET Nat /\ part' \in SUBSET Nat /\ kept' \in SUBSET Slot
    BY <2>1 DEF cache, TypeOK
  <2>3. stage' \in [Slot -> Stage] /\ n' \in [Slot -> Nat]
    BY <1>3 DEF SlotStep, Begin, Lock, Read, Truncate, Write, Goto, Stage, TypeOK
  <2>4. calls' \in Nat /\ file' \in Nat /\ lock' \in Slot \cup {None} /\ issued' \in Nat
    BY <1>3 DEF SlotStep, Begin, Lock, Read, Truncate, Write, TypeOK
  <2>5. torn' = torn
    BY <1>3 DEF SlotStep, Begin, Lock, Read, Truncate, Write
  <2> QED BY <2>2, <2>3, <2>4, <2>5 DEF TypeOK
<1>4. QED BY <1>1, <1>2, <1>3

\* The flock has one holder after every step.
LEMMA LockStep ==
  ASSUME TypeOK, LockInv, NEW s \in Slot, SlotStep(s)
  PROVE  LockInv'
<1>1. CASE Begin(s) BY <1>1 DEF Begin, Goto, TypeOK, LockInv, InFlock, Stage
<1>2. CASE Lock(s) BY <1>2, NoneAssumption DEF Lock, Goto, TypeOK, LockInv, InFlock, Stage
<1>3. CASE Read(s) BY <1>3 DEF Read, Goto, TypeOK, LockInv, InFlock, Stage
<1>4. CASE Truncate(s) BY <1>4 DEF Truncate, Goto, TypeOK, LockInv, InFlock, Stage
<1>5. CASE Write(s) BY <1>5, NoneAssumption DEF Write, Goto, TypeOK, LockInv, InFlock, Stage
<1>6. CASE End(s) BY <1>6, NoneAssumption DEF End, TypeOK, LockInv, InFlock, Stage
<1>7. CASE RootfsStep(s)
  BY <1>7 DEF RootfsStep, EnsureRootfs, Cloned, Reclone, Teardown, Goto, TypeOK, LockInv, InFlock, Stage
<1>8. QED BY <1>1, <1>2, <1>3, <1>4, <1>5, <1>6, <1>7 DEF SlotStep

\* The counter is worth its invariant after every step.
LEMMA CounterStep ==
  ASSUME Inv, NEW s \in Slot, SlotStep(s)
  PROVE  CounterInv'
<1> USE DEF Inv, TypeOK, Stage, InFlock, LockInv, CounterInv
<1>1. CASE Begin(s) BY <1>1 DEF Begin, Goto
<1>2. CASE Lock(s) BY <1>2, NoneAssumption DEF Lock, Goto
<1>3. CASE Read(s) BY <1>3 DEF Read, Goto
<1>4. CASE Truncate(s) BY <1>4 DEF Truncate, Goto
<1>5. CASE Write(s) BY <1>5 DEF Write, Goto
<1>6. CASE End(s) BY <1>6 DEF End
<1>7. CASE RootfsStep(s)
  BY <1>7 DEF RootfsStep, EnsureRootfs, Cloned, Reclone, Teardown, Goto
<1>8. QED BY <1>1, <1>2, <1>3, <1>4, <1>5, <1>6, <1>7 DEF SlotStep

\* No number in use is above the highest one handed out, and none is shared.
LEMMA LiveStep ==
  ASSUME Inv, NEW s \in Slot, SlotStep(s)
  PROVE  LiveInv' /\ UniqueIds'
<1> USE DEF Inv, TypeOK, Stage, LiveInv, UniqueIds, Numbered
<1>1. CASE Begin(s) BY <1>1 DEF Begin, Goto
<1>2. CASE Lock(s) BY <1>2 DEF Lock, Goto
<1>3. CASE Read(s) BY <1>3 DEF Read, Goto
<1>4. CASE Truncate(s) BY <1>4 DEF Truncate, Goto
<1>5. CASE Write(s) BY <1>5 DEF Write, Goto, CounterInv
<1>6. CASE End(s) BY <1>6 DEF End
<1>7. CASE RootfsStep(s)
  BY <1>7 DEF RootfsStep, EnsureRootfs, Cloned, Reclone, Teardown, Goto
<1>8. QED BY <1>1, <1>2, <1>3, <1>4, <1>5, <1>6, <1>7 DEF SlotStep

\* A number that is handed out has no rootfs in the cache, and whoever works
\* on the rootfs of a number is the only one.
LEMMA CacheStep ==
  ASSUME Inv, NEW s \in Slot, SlotStep(s)
  PROVE  CacheInv' /\ WholeRootfs'
<1> USE DEF Inv, TypeOK, Stage, CacheInv, WholeRootfs
<1>1. CASE Begin(s) BY <1>1 DEF Begin, Goto, cache
<1>2. CASE Lock(s) BY <1>2 DEF Lock, Goto, cache
<1>3. CASE Read(s) BY <1>3 DEF Read, Goto, cache
<1>4. CASE Truncate(s) BY <1>4 DEF Truncate, Goto, cache
<1>5. CASE Write(s) BY <1>5 DEF Write, Goto, cache, CounterInv
<1>6. CASE RootfsStep(s)
  <2>1. ~torn => \A t \in Slot : t # s /\ stage[t] \in Numbered => n[t] # n[s]
    BY <1>6 DEF RootfsStep, EnsureRootfs, Cloned, Reclone, Teardown, Goto, UniqueIds, Numbered
  <2>2. ~torn => n[s] <= issued
    BY <1>6 DEF RootfsStep, EnsureRootfs, Cloned, Reclone, Teardown, Goto, LiveInv, Numbered
  <2> USE <2>1, <2>2 DEF Numbered
  <2>3. CASE EnsureRootfs(s) BY <2>3 DEF EnsureRootfs
  <2>4. CASE Cloned(s) BY <2>4 DEF Cloned, Goto
  <2>5. CASE Reclone(s) BY <2>5 DEF Reclone, RemoveAllFails, cache
  <2>6. CASE Teardown(s) BY <2>6 DEF Teardown, RemoveAllFails, cache
  <2> QED BY <1>6, <2>3, <2>4, <2>5, <2>6 DEF RootfsStep
<1>7. CASE End(s)
  <2>1. ~torn /\ stage[s] = "clone" =>
          \A t \in Slot : t # s /\ stage[t] \in Numbered => n[t] # n[s]
    BY DEF UniqueIds, Numbered
  <2> QED BY <1>7, <2>1 DEF End
<1>8. QED BY <1>1, <1>2, <1>3, <1>4, <1>5, <1>6, <1>7 DEF SlotStep

\* A number is one more than what the file holds, which is not negative.
LEMMA PositiveStep ==
  ASSUME Inv, NEW s \in Slot, SlotStep(s)
  PROVE  PositiveInv'
<1> USE DEF Inv, TypeOK, Stage, PositiveInv, Numbered
<1>1. CASE Begin(s) BY <1>1 DEF Begin, Goto
<1>2. CASE Lock(s) BY <1>2 DEF Lock, Goto
<1>3. CASE Read(s) BY <1>3 DEF Read, Goto
<1>4. CASE Truncate(s) BY <1>4 DEF Truncate, Goto
<1>5. CASE Write(s) BY <1>5 DEF Write, Goto
<1>6. CASE End(s) BY <1>6 DEF End
<1>7. CASE RootfsStep(s)
  BY <1>7 DEF RootfsStep, EnsureRootfs, Cloned, Reclone, Teardown, Goto
<1>8. QED BY <1>1, <1>2, <1>3, <1>4, <1>5, <1>6, <1>7 DEF SlotStep

\* Inv is inductive.
LEMMA InvNext == Inv /\ [Next]_vars => Inv'
<1> SUFFICES ASSUME Inv, [Next]_vars PROVE Inv' OBVIOUS
<1>1. ASSUME NEW s \in Slot, SlotStep(s) PROVE Inv'
  BY <1>1, TypeStep, LockStep, CounterStep, LiveStep, CacheStep, PositiveStep DEF Inv
<1>2. ASSUME UNCHANGED vars PROVE Inv'
  BY <1>2 DEF vars, Inv, TypeOK, LockInv, CounterInv, LiveInv, UniqueIds, CacheInv, WholeRootfs,
                 PositiveInv, Numbered, cache
<1>3. QED BY <1>1, <1>2 DEF Next, SlotStep, RootfsStep

\* Inv holds throughout.
LEMMA Invariant == Spec => []Inv
  BY InvInit, InvNext, PTL DEF Spec

\* The state is well typed; in particular every number is a natural one.
THEOREM TypeCorrect == Spec => []TypeOK
  BY Invariant, PTL DEF Inv

\* Allocate gives two running invocations two numbers, unless the counter file
\* was left empty by an invocation that died inside os.WriteFile.
THEOREM IdsAreUnique == Spec => []UniqueIds
  BY Invariant, PTL DEF Inv

\* Allocate hands out no number twice, under the same condition.
THEOREM IdsAreNeverReused == Spec => NeverReused
<1> DEFINE Fresh == \A s \in Slot :
             ~torn /\ stage[s] # "live" /\ stage'[s] = "live" => n'[s] > issued
<1>1. ASSUME Inv, [Next]_vars PROVE Fresh
  <2> USE <1>1 DEF Inv, TypeOK
  <2>1. ASSUME NEW t \in Slot, SlotStep(t), ~Write(t) PROVE Fresh
    BY <2>1 DEF SlotStep, RootfsStep, EnsureRootfs, Cloned, Reclone, Teardown,
                Begin, Lock, Read, Truncate, End, Goto
  <2>2. ASSUME NEW t \in Slot, Write(t) PROVE Fresh
    BY <2>2 DEF Write, Goto, CounterInv
  <2>3. ASSUME UNCHANGED vars PROVE Fresh
    BY <2>3 DEF vars
  <2>4. QED BY <2>1, <2>2, <2>3 DEF Next, SlotStep, RootfsStep
<1>2. Inv /\ [Next]_vars => [Fresh]_vars
  BY <1>1
<1>3. QED BY <1>2, Invariant, PTL DEF Spec, NeverReused

\* A VM runs on a whole rootfs of its own, under the same condition, or on what its
\* own last RemoveAll has left: no other invocation has a hand in it.
THEOREM RootfsIsWhole == Spec => []WholeRootfs
  BY Invariant, PTL DEF Inv

\* Division by Hosts.
LEMMA DivMod ==
  ASSUME NEW i \in Nat
  PROVE  /\ i \div Hosts \in Nat /\ i % Hosts \in 0..(Hosts - 1)
         /\ i = Hosts * (i \div Hosts) + (i % Hosts)
BY HostsAssumption, SMTT(30)

\* IPForInstance gives one address only to numbers that are Hosts or more apart.
LEMMA AddressReturns ==
  ASSUME NEW i \in Nat, NEW j \in Nat, i < j, IPForInstance(i) = IPForInstance(j)
  PROVE  j >= i + Hosts
<1> DEFINE a == i \div Hosts
           b == j \div Hosts
<1>1. a \in Nat /\ b \in Nat /\ i % Hosts = j % Hosts
  BY DivMod DEF IPForInstance
<1>2. j - i = Hosts * b - Hosts * a
  BY <1>1, DivMod, HostsAssumption
<1>3. Hosts * b - Hosts * a = Hosts * (b - a)
  BY <1>1, HostsAssumption
<1> HIDE DEF a, b
<1>4. b - a >= 1
  <2>1. ASSUME b - a <= 0 PROVE FALSE
    <3>1. Hosts * (b - a) <= 0
      BY <1>1, <2>1, HostsAssumption
    <3> QED BY <3>1, <1>1, <1>2, <1>3
  <2> QED BY <2>1, <1>1
<1>5. \A d \in Int : d >= 1 => Hosts * d >= Hosts
  BY HostsAssumption, SMTT(30)
<1> QED BY <1>1, <1>2, <1>3, <1>4, <1>5, HostsAssumption

\* The address of a running VM is not given again before Hosts more invocations have
\* been numbered, whatever slots allocate, die and run on: their numbers differ, and
\* none is above the highest one handed out.
THEOREM AddressesComeLate == Spec => []AddressesApart
<1>1. ASSUME Inv, ~torn, NEW s \in Slot, NEW t \in Slot, s # t,
             stage[s] \in Numbered, stage[t] \in Numbered,
             IPForInstance(n[s]) = IPForInstance(n[t])
      PROVE  issued >= n[s] + Hosts \/ issued >= n[t] + Hosts
  <2>1. n[s] \in Nat /\ n[t] \in Nat /\ issued \in Nat
    BY <1>1 DEF Inv, TypeOK
  <2>2. n[s] # n[t] /\ n[s] <= issued /\ n[t] <= issued
    BY <1>1 DEF Inv, UniqueIds, LiveInv
  <2>3. CASE n[s] < n[t]
    BY <1>1, <2>1, <2>2, <2>3, AddressReturns, HostsAssumption
  <2>4. CASE n[t] < n[s]
    BY <1>1, <2>1, <2>2, <2>4, AddressReturns, HostsAssumption
  <2> QED BY <2>1, <2>2, <2>3, <2>4
<1>2. Inv => AddressesApart
  BY <1>1 DEF AddressesApart
<1> QED BY <1>2, Invariant, PTL

\* IPForInstance keeps the byte of the gateway from the numbers 1 to Hosts - 1.
LEMMA OwnResidue ==
  ASSUME NEW i \in Nat, i > 0, i < Hosts
  PROVE  IPForInstance(i) # Gateway
<1>1. i % Hosts = i
  BY HostsAssumption, SMTT(30)
<1> QED BY <1>1 DEF IPForInstance, Gateway

\* Up to number Hosts - 1 no VM takes the bridge's address.
THEOREM GatewayIsKept == Spec => []GatewayKept
<1>1. Inv => GatewayKept
  BY OwnResidue DEF Inv, TypeOK, PositiveInv, GatewayKept
<1> QED BY <1>1, Invariant, PTL
=============================================================================
