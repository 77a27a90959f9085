--------------------------- MODULE VpnClientProofs ---------------------------
(***************************************************************************)
(* VpnClient keeps the reservation file in order and implements            *)
(* IdentityAllocator, and every step of a call brings it forward, for any  *)
(* processes, servers, countries and numbers of attempts.                  *)
(***************************************************************************)
EXTENDS VpnClient, TLAPS

\* A process may have a claim in these stages only.
Holding == AtWork \cup {"granted", "active", "over", "dead"}

\* What a call in its stage relies on: a server, a measured identity.
Sound(c) ==
  /\ c.at \in {"reserve", "granted", "active"} \cup AtWork => c.server \in Key
  /\ c.at \in {"compare", "granted", "active"} => c.id # Blank

Inv == TypeOK /\ ClaimAlone /\ ClaimInUse /\ \A p \in Proc : Sound(call[p])

\* The calls that begin, go on or give up are calls.
LEMMA Loops ==
  /\ \A c \in 1..Countries : Enter(c) \in Call
  /\ [Enter(1) EXCEPT !.at = "idle"] \in Call
  /\ \A p \in Proc : TypeOK => NextCountry(p) \in Call /\ NextServer(p) \in Call
<1>1. \A c \in 1..Countries : Enter(c) \in Call
  BY TriesAssumption DEF Enter, Call, Stage, Request, Identity, Blank
<1>2. Enter(1) \in Call
  BY <1>1, CountryAssumption
<1>3. \A at \in {"idle", "failed"} : [Enter(1) EXCEPT !.at = at] \in Call
  BY <1>2 DEF Call, Stage
<1>4. ASSUME NEW p \in Proc, TypeOK PROVE NextCountry(p) \in Call /\ NextServer(p) \in Call
  <2>1. call[p] \in Call
    BY <1>4 DEF TypeOK
  <2>2. NextCountry(p) \in Call
    <3>1. CASE call[p].country < Countries
      <4>1. call[p].country + 1 \in 1..Countries
        BY <2>1, <3>1, CountryAssumption DEF Call
      <4> QED BY <1>1, <3>1, <4>1 DEF NextCountry
    <3>2. CASE ~(call[p].country < Countries)
      BY <1>3, <3>2 DEF NextCountry
    <3> QED BY <3>1, <3>2
  <2>3. NextServer(p) \in Call
    BY <2>1 DEF NextServer, Call, Stage, Identity, Blank
  <2> QED BY <2>2, <2>3
<1> QED BY <1>1, <1>3, <1>4

\* The invariant holds before any call.
LEMMA InitInv == Init => Inv
<1> SUFFICES ASSUME Init PROVE Inv
  OBVIOUS
<1>1. TypeOK
  BY Loops DEF Init, TypeOK
<1>2. \A p \in Proc : Sound(call[p])
  BY DEF Init, Sound, AtWork, Enter
<1> QED BY <1>1, <1>2 DEF Init, Inv, ClaimAlone, ClaimInUse

\* A step of p that leaves the file alone preserves the invariant, if the call
\* it becomes is sound and keeps to the server p may have a claim on.
LEMMA CallStep ==
  ASSUME Inv, NEW p \in Proc, NEW c \in Call, Becomes(p, c), Sound(c),
         call[p].at \in Holding => c.at \in Holding /\ c.server = call[p].server,
         known' \in [Proc -> SUBSET (1..Countries)], resv' = resv,
         raced' \in SUBSET SUBSET Proc
  PROVE  Inv'
<1>1. call' = [call EXCEPT ![p] = c] /\ call \in [Proc -> Call]
  BY DEF Becomes, Inv, TypeOK
<1>2. TypeOK'
  BY <1>1 DEF Inv, TypeOK
<1>3. ClaimAlone'
  BY DEF Inv, ClaimAlone
<1>4. ClaimInUse'
  <2> SUFFICES ASSUME NEW x \in resv, ~x.unsuitable
               PROVE call'[x.inst].at \in Holding /\ call'[x.inst].server = x.key
    BY DEF ClaimInUse, Holding
  <2>1. x.inst \in Proc
    BY DEF Inv, TypeOK, Entry
  <2>2. call[x.inst].at \in Holding /\ call[x.inst].server = x.key
    BY DEF Inv, ClaimInUse, Holding
  <2> QED BY <1>1, <2>1, <2>2
<1>5. (\A q \in Proc : Sound(call[q]))'
  <2> SUFFICES ASSUME NEW q \in Proc PROVE Sound(call'[q])
    BY DEF Sound
  <2> QED BY <1>1 DEF Inv
<1> QED BY <1>2, <1>3, <1>4, <1>5 DEF Inv

\* The steps of a call that ask the API keep the invariant.
LEMMA RequestsNext ==
  ASSUME Inv, NEW p \in Proc,
         \/ Begin(p) \/ CachedCountry(p) \/ CountryID(p) \/ CountryUnknown(p)
         \/ RequestFails(p) \/ RecommendN(p) \/ NoneLeft(p)
  PROVE  Inv'
<1> USE DEF Inv
<1>0. 0 \in 0..MaxTries - 1
  BY TriesAssumption
<1>1. /\ call[p] \in Call /\ Sound(call[p]) /\ NextCountry(p) \in Call
      /\ known \in [Proc -> SUBSET (1..Countries)] /\ raced \in SUBSET SUBSET Proc
  BY Loops DEF TypeOK
<1>2. NextCountry(p).at \in {"country", "failed"} /\ Enter(1) \in Call
      /\ Enter(1).at = "country"
  BY Loops, CountryAssumption DEF NextCountry, Enter
<1>3. \A c \in Call : c.at \in {"country", "recommend", "consider", "failed"} => Sound(c)
  BY DEF Sound, AtWork
<1>4. call[p].at \in {"idle", "failed", "consider"} \cup Request => call[p].at \notin Holding
  BY DEF Holding, AtWork, Request
<1>5. CASE Begin(p)
  BY <1>1, <1>2, <1>3, <1>4, <1>5, CallStep DEF Begin
<1>6. CASE CachedCountry(p)
  <2> DEFINE c == [call[p] EXCEPT !.at = "recommend"]
  <2>1. c \in Call /\ c.at = "recommend"
    BY <1>1 DEF Call, Stage, Request
  <2> QED BY <1>1, <1>3, <1>4, <1>6, <2>1, CallStep DEF CachedCountry, In, Request
<1>7. CASE CountryID(p)
  <2> DEFINE c == [call[p] EXCEPT !.at = "recommend", !.tries = 0]
  <2>1. c \in Call /\ c.at = "recommend"
    BY <1>0, <1>1 DEF Call, Stage, Request
  <2>2. known' \in [Proc -> SUBSET (1..Countries)]
    BY <1>1, <1>7 DEF CountryID, Call
  <2> QED BY <1>1, <1>3, <1>4, <1>7, <2>1, <2>2, CallStep DEF CountryID, In, Request
<1>8. CASE CountryUnknown(p)
  BY <1>1, <1>2, <1>3, <1>4, <1>8, CallStep DEF CountryUnknown, In, Request
<1>9. CASE RequestFails(p)
  <2> DEFINE c == [call[p] EXCEPT !.tries = @ + 1]
  <2>1. call[p].at \in Request
    BY <1>9 DEF RequestFails, In, Request
  <2>2. CASE call[p].tries + 1 < MaxTries
    <3>1. c \in Call /\ c.at = call[p].at
      BY <1>1, <2>2, TriesAssumption DEF Call
    <3> QED BY <1>1, <1>3, <1>4, <1>9, <2>1, <2>2, <3>1, CallStep DEF RequestFails, Request
  <2>3. CASE ~(call[p].tries + 1 < MaxTries)
    BY <1>1, <1>2, <1>3, <1>4, <1>9, <2>1, <2>3, CallStep DEF RequestFails
  <2> QED BY <2>2, <2>3
<1>10. CASE RecommendN(p)
  <2>1. PICK some \in SUBSET Key :
          Becomes(p, IF some = {} THEN NextCountry(p)
                     ELSE [call[p] EXCEPT !.at = "consider", !.tries = 0, !.servers = some])
    BY <1>10 DEF RecommendN
  <2> DEFINE c == [call[p] EXCEPT !.at = "consider", !.tries = 0, !.servers = some]
  <2>2. c \in Call /\ c.at = "consider"
    BY <1>0, <1>1 DEF Call, Stage
  <2> QED BY <1>1, <1>2, <1>3, <1>4, <1>10, <2>1, <2>2, CallStep DEF RecommendN, In, Request
<1>11. CASE NoneLeft(p)
  BY <1>1, <1>2, <1>3, <1>4, <1>11, CallStep DEF NoneLeft, In
<1> QED BY <1>5, <1>6, <1>7, <1>8, <1>9, <1>10, <1>11

\* So do its other steps that leave the file alone.
LEMMA TunnelNext ==
  ASSUME Inv, NEW p \in Proc,
         \/ Consider(p) \/ Connect(p) \/ Measure(p) \/ Succeed(p) \/ Collision(p)
         \/ Register(p) \/ Leave(p) \/ Die(p)
  PROVE  Inv'
<1> USE DEF Inv
<1>1. /\ call[p] \in Call /\ Sound(call[p])
      /\ known \in [Proc -> SUBSET (1..Countries)] /\ raced \in SUBSET SUBSET Proc
  BY DEF TypeOK
<1>2. ASSUME NEW to \in Holding PROVE [call[p] EXCEPT !.at = to] \in Call
  BY <1>1 DEF Call, Stage, Holding
<1>3. CASE Consider(p)
  <2>1. PICK k \in call[p].servers :
          \/ Becomes(p, [[call[p] EXCEPT !.servers = @ \ {k}] EXCEPT !.at = "reserve", !.server = k])
          \/ Becomes(p, [call[p] EXCEPT !.servers = @ \ {k}])
    BY <1>3 DEF Consider
  <2> DEFINE rest == [call[p] EXCEPT !.servers = @ \ {k}]
             try  == [rest EXCEPT !.at = "reserve", !.server = k]
  <2>2. k \in Key /\ rest \in Call /\ rest.at = "consider"
    BY <1>1, <1>3 DEF Consider, In, Call
  <2>3. try \in Call /\ try.at = "reserve" /\ try.server = k
    BY <2>2 DEF Call, Stage
  <2>4. Sound(rest) /\ Sound(try) /\ call[p].at \notin Holding
    BY <1>3, <2>2, <2>3 DEF Sound, AtWork, Holding, Consider, In
  <2> HIDE DEF rest, try
  <2>5. Becomes(p, rest) \/ Becomes(p, try)
    BY <2>1 DEF rest, try
  <2>6. known' = known /\ resv' = resv /\ raced' = raced
    BY <1>3 DEF Consider
  <2> QED BY <1>1, <2>2, <2>3, <2>4, <2>5, <2>6, CallStep
<1>4. CASE Connect(p)
  <2>1. PICK to \in {"measure", "release"} : Becomes(p, [call[p] EXCEPT !.at = to])
    BY <1>4 DEF Connect
  <2> DEFINE c == [call[p] EXCEPT !.at = to]
  <2>2. c \in Call /\ c.at = to /\ c.at \in Holding /\ c.server = call[p].server
    BY <1>1, <1>2 DEF Holding, AtWork, Call
  <2>3. Sound(c)
    BY <1>1, <1>4, <2>2 DEF Sound, Connect, In, AtWork
  <2> QED BY <1>1, <1>4, <2>1, <2>2, <2>3, CallStep DEF Connect
<1>5. CASE Measure(p)
  <2>1. PICK i \in Identity :
          Becomes(p, [call[p] EXCEPT !.id = i, !.at = IF i = Blank THEN "release" ELSE "compare"])
    BY <1>5 DEF Measure
  <2> DEFINE c == [call[p] EXCEPT !.id = i, !.at = IF i = Blank THEN "release" ELSE "compare"]
  <2>2. c \in Call /\ c.at \in Holding /\ c.server = call[p].server
    BY <1>1 DEF Holding, AtWork, Call, Stage
  <2>3. Sound(c)
    BY <1>1, <1>5, <2>2 DEF Sound, Measure, In, AtWork, Call
  <2> QED BY <1>1, <1>5, <2>1, <2>2, <2>3, CallStep DEF Measure
<1>6. CASE Succeed(p)
  <2> DEFINE c == [call[p] EXCEPT !.at = "granted"]
  <2>1. c \in Call /\ c.at \in Holding /\ c.server = call[p].server
    BY <1>1, <1>2 DEF Holding, Call
  <2>2. Sound(c)
    BY <1>1, <1>6 DEF Sound, Succeed, In, AtWork, Call
  <2>3. raced' \in SUBSET SUBSET Proc
    BY <1>1, <1>6 DEF Succeed
  <2> QED BY <1>1, <1>6, <2>1, <2>2, <2>3, CallStep DEF Succeed
<1>7. CASE Collision(p)
  <2> DEFINE c == [call[p] EXCEPT !.at = "mark"]
  <2>1. c \in Call /\ c.at \in Holding /\ c.server = call[p].server
    BY <1>1, <1>2 DEF Holding, AtWork, Call
  <2>2. Sound(c)
    BY <1>1, <1>7 DEF Sound, Collision, In, AtWork, Call
  <2> QED BY <1>1, <1>7, <2>1, <2>2, CallStep DEF Collision
<1>8. CASE Register(p)
  <2> DEFINE c == [call[p] EXCEPT !.at = "active"]
  <2>1. c \in Call /\ c.at \in Holding /\ c.server = call[p].server
    BY <1>1, <1>2 DEF Holding, Call
  <2>2. Sound(c)
    BY <1>1, <1>8 DEF Sound, Register, In, AtWork, Call
  <2> QED BY <1>1, <1>8, <2>1, <2>2, CallStep DEF Register
<1>9. CASE Leave(p) \/ Die(p)
  <2>1. PICK to \in {"over", "dead"} : Becomes(p, [call[p] EXCEPT !.at = to])
    BY <1>9 DEF Leave, Die
  <2> DEFINE c == [call[p] EXCEPT !.at = to]
  <2>2. c \in Call /\ c.at \in Holding /\ c.server = call[p].server
    BY <1>1, <1>2 DEF Holding, Call
  <2>3. Sound(c)
    BY <1>1 DEF Sound, AtWork, Call
  <2> QED BY <1>1, <1>9, <2>1, <2>2, <2>3, CallStep DEF Leave, Die
<1> QED BY <1>3, <1>4, <1>5, <1>6, <1>7, <1>8, <1>9

\* What is not a mark is a claim of its process.
LEMMA Entries ==
  \A x \in Entry : ~x.unsuitable => x.inst \in Proc /\ x = Claim(x.inst, x.key)
<1>1. ASSUME NEW x \in [key : Key, inst : Proc, unsuitable : {FALSE}]
      PROVE  ~x.unsuitable /\ x.inst \in Proc /\ x = Claim(x.inst, x.key)
  BY DEF Claim
<1>2. ASSUME NEW x \in [key : Key, inst : {NoInstance}, unsuitable : {TRUE}, by : Proc]
      PROVE  x.unsuitable
  OBVIOUS
<1> QED BY <1>1, <1>2 DEF Entry

\* A claim is alone still when a step of p has added its own, dropped the claims
\* on the server or put a mark in their place.
LEMMA StoreNext ==
  ASSUME Inv, NEW p \in Proc, Reserve(p) \/ MarkUnsuitable(p) \/ Release(p)
  PROVE  Inv'
<1> USE DEF Inv
<1> DEFINE k == call[p].server
<1>1. /\ call \in [Proc -> Call] /\ call[p] \in Call /\ Sound(call[p])
      /\ resv \in SUBSET Entry
  BY DEF TypeOK
<1>2. k \in Key
  BY <1>1 DEF Sound, AtWork, Reserve, MarkUnsuitable, Release, In
<1>4. \A x \in resv : ~x.unsuitable => /\ x.inst \in Proc /\ call[x.inst].at \in Holding
                                       /\ call[x.inst].server = x.key
  BY <1>1 DEF ClaimInUse, Holding, Entry
<1>5. NextServer(p) \in Call /\ NextServer(p).at = "consider" /\ Sound(NextServer(p))
  <2>1. NextServer(p) \in Call /\ NextServer(p).at = "consider"
    BY <1>1, Loops DEF NextServer, Call
  <2> QED BY <2>1 DEF Sound, AtWork
<1>6. ASSUME NEW c \in Call, Becomes(p, c), Sound(c),
             known' = known, raced' = raced, resv' \in SUBSET Entry, ClaimAlone',
             \A x \in resv' : ~x.unsuitable =>
               IF x.inst = p THEN c.at \in Holding /\ c.server = x.key ELSE x \in resv
      PROVE  Inv'
  <2>1. call' = [call EXCEPT ![p] = c]
    BY <1>6 DEF Becomes
  <2>2. TypeOK'
    BY <1>1, <1>6, <2>1 DEF TypeOK
  <2>3. ClaimInUse'
    <3> SUFFICES ASSUME NEW x \in resv', ~x.unsuitable
                 PROVE call'[x.inst].at \in Holding /\ call'[x.inst].server = x.key
      BY DEF ClaimInUse, Holding
    <3>1. x.inst \in Proc
      BY <1>6 DEF Entry
    <3> QED BY <1>1, <1>4, <1>6, <2>1, <3>1
  <2>4. \A q \in Proc : Sound(call'[q])
    BY <1>1, <1>6, <2>1
  <2>5. (\A q \in Proc : Sound(call[q]))'
    BY <2>4 DEF Sound
  <2> QED BY <1>6, <2>2, <2>3, <2>5
<1>7. CASE Reserve(p) /\ CanReserve(resv, k, p)
  <2> DEFINE c == [call[p] EXCEPT !.at = "connect"]
  <2>1. resv' = resv \cup {Claim(p, k)} /\ Becomes(p, c) /\ known' = known /\ raced' = raced
    BY <1>7 DEF Reserve
  <2>2. c \in Call /\ c.at \in Holding /\ c.server = k
    BY <1>1 DEF Call, Stage, Holding, AtWork
  <2>3. Sound(c)
    BY <1>1, <1>2 DEF Sound, Call
  <2>4. Claim(p, k) \in Entry /\ Claim(p, k).inst = p /\ Claim(p, k).key = k
    BY <1>2 DEF Claim, Entry
  <2>5. \A x \in resv : x.key = k => x = Claim(p, k)
    BY <1>1, <1>7, Entries DEF CanReserve, Unsuitable, ReservedByOther
  <2>6. ClaimAlone'
    BY <2>1, <2>4, <2>5 DEF ClaimAlone
  <2>7. \A x \in resv : ~x.unsuitable /\ x.inst = p => x.key = k
    BY <1>4
  <2> QED BY <1>1, <1>6, <2>1, <2>2, <2>3, <2>4, <2>6, <2>7
<1>8. CASE Reserve(p) /\ ~CanReserve(resv, k, p)
  <2>1. call[p].at \notin Holding
    BY <1>8 DEF Reserve, In, Holding, AtWork
  <2>2. \A x \in resv : ~x.unsuitable => x.inst # p
    BY <1>4, <2>1
  <2>3. resv' = resv /\ Becomes(p, NextServer(p)) /\ known' = known /\ raced' = raced
    BY <1>8 DEF Reserve
  <2>4. ClaimAlone'
    BY <2>3 DEF ClaimAlone
  <2> QED BY <1>1, <1>5, <1>6, <2>2, <2>3, <2>4
<1>9. CASE MarkUnsuitable(p)
  <2> DEFINE c == [call[p] EXCEPT !.at = "release"]
  <2>1. /\ resv' = {x \in resv : x.key # k \/ x.unsuitable} \cup {Mark(p, k)}
        /\ Becomes(p, c) /\ known' = known /\ raced' = raced
    BY <1>9 DEF MarkUnsuitable, WithMark, WithoutClaims
  <2>2. c \in Call /\ c.at \in Holding /\ c.server = k
    BY <1>1 DEF Call, Stage, Holding, AtWork
  <2>3. Sound(c)
    BY <1>1, <1>2 DEF Sound, Call
  <2>4. Mark(p, k) \in Entry /\ Mark(p, k).key = k /\ Mark(p, k).unsuitable
    BY <1>2 DEF Mark, Entry
  <2>5. ClaimAlone'
    BY <1>1, <2>1, <2>4 DEF ClaimAlone
  <2> QED BY <1>1, <1>4, <1>6, <2>1, <2>2, <2>3, <2>4, <2>5
<1>10. CASE Release(p)
  <2>1. /\ resv' = {x \in resv : x.key # k \/ x.unsuitable}
        /\ Becomes(p, NextServer(p)) /\ known' = known /\ raced' = raced
    BY <1>10 DEF Release, WithoutClaims
  <2>2. \A x \in resv' : ~x.unsuitable => x.inst # p
    BY <1>4, <2>1
  <2>3. ClaimAlone'
    BY <2>1 DEF ClaimAlone
  <2> QED BY <1>1, <1>5, <1>6, <2>1, <2>2, <2>3
<1> QED BY <1>7, <1>8, <1>9, <1>10

\* Every step keeps the invariant; time only takes entries away.
LEMMA NextInv == Inv /\ [Next]_vars => Inv'
<1> SUFFICES ASSUME Inv, [Next]_vars PROVE Inv'
  OBVIOUS
<1>1. ASSUME Lapse \/ UNCHANGED vars PROVE Inv'
  BY <1>1 DEF Lapse, vars, Inv, TypeOK, ClaimAlone, ClaimInUse, Sound
<1>2. ASSUME NEW p \in Proc, Begin(p) \/ Work(p) \/ Register(p) \/ Leave(p) \/ Die(p)
      PROVE  Inv'
  BY <1>2, RequestsNext, TunnelNext, StoreNext DEF Work
<1> QED BY <1>1, <1>2 DEF Next

\* The invariant holds throughout.
LEMMA InvAlways == Spec => []Inv
  BY InitInv, NextInv, PTL DEF Spec

\* Every reachable state is well typed; no request is made more than MaxTries
\* times.
THEOREM TypeCorrect == Spec => []TypeOK
<1>1. Inv => TypeOK
  BY DEF Inv
<1> QED BY <1>1, InvAlways, PTL

\* While a claim counts its server has no other claim that does and no mark,
\* whatever the processes have read without the lock and whatever has lapsed.
THEOREM ClaimsAlone == Spec => []ClaimAlone
<1>1. Inv => ClaimAlone
  BY DEF Inv
<1> QED BY <1>1, InvAlways, PTL

\* No call leaves a claim behind.
THEOREM NoClaimLeft == Spec => []ClaimInUse
<1>1. Inv => ClaimInUse
  BY DEF Inv
<1> QED BY <1>1, InvAlways, PTL

-----------------------------------------------------------------------------
(***************************************************************************)
(* The refinement.  Callers see an instance from "granted" to "active".    *)
(***************************************************************************)
Public == {"granted", "active"}

Granted == [p \in Proc |-> IF call[p].at \in Public THEN call[p].id ELSE Blank]

\* A step of a call in which its caller sees nothing before and after changes
\* nothing of the allocator.
LEMMA Hidden ==
  ASSUME Inv, NEW p \in Proc, NEW c, Becomes(p, c), raced' = raced,
         call[p].at \notin Public, c.at \notin Public
  PROVE  Granted' = Granted /\ Active' = Active /\ raced' = raced
<1>1. call' = [call EXCEPT ![p] = c] /\ call \in [Proc -> Call]
  BY DEF Becomes, Inv, TypeOK
<1>2. \A q \in Proc : q # p => call'[q] = call[q]
  BY <1>1
<1>3. call'[p] = c
  BY <1>1
<1>4. Granted' = Granted
  BY <1>2, <1>3 DEF Granted
<1>5. Active' = Active
  BY <1>2, <1>3 DEF Active, In, Public
<1> QED BY <1>4, <1>5

\* All steps within a call are of this kind, but for the last.
LEMMA HiddenSteps ==
  ASSUME Inv, NEW p \in Proc,
         \/ Begin(p) \/ Die(p) \/ (Work(p) /\ ~Succeed(p))
  PROVE  Granted' = Granted /\ Active' = Active /\ raced' = raced
<1>1. call[p] \in Call
  BY DEF Inv, TypeOK
<1>2. NextCountry(p).at \notin Public /\ NextServer(p).at \notin Public /\ Enter(1).at \notin Public
  BY <1>1 DEF NextCountry, NextServer, Enter, Public, Call
<1>3. \A at \in Stage \ Public : [call[p] EXCEPT !.at = at].at \notin Public
  BY <1>1 DEF Call
<1> USE DEF In, Public
<1>4. CASE Begin(p)
  BY <1>2, <1>4, Hidden DEF Begin
<1>5. CASE Die(p)
  BY <1>1, <1>5, Hidden DEF Die, InAllocate, Request, AtWork, Call
<1>6. CASE CachedCountry(p) \/ CountryID(p)
  BY <1>1, <1>6, Hidden DEF CachedCountry, CountryID, Call
<1>7. CASE CountryUnknown(p) \/ NoneLeft(p)
  BY <1>2, <1>7, Hidden DEF CountryUnknown, NoneLeft
<1>8. CASE RequestFails(p)
  BY <1>1, <1>2, <1>8, Hidden DEF RequestFails, Call
<1>9. CASE RecommendN(p)
  <2>1. PICK some : Becomes(p, IF some = {} THEN NextCountry(p)
                     ELSE [call[p] EXCEPT !.at = "consider", !.tries = 0, !.servers = some])
    BY <1>9 DEF RecommendN
  <2> QED BY <1>1, <1>2, <1>9, <2>1, Hidden DEF RecommendN, Call
<1>10. CASE Consider(p)
  <2>1. PICK k :
          \/ Becomes(p, [[call[p] EXCEPT !.servers = @ \ {k}] EXCEPT !.at = "reserve", !.server = k])
          \/ Becomes(p, [call[p] EXCEPT !.servers = @ \ {k}])
    BY <1>10 DEF Consider
  <2> QED BY <1>1, <1>10, <2>1, Hidden DEF Consider, Call
<1>11. CASE Reserve(p)
  BY <1>1, <1>2, <1>11, Hidden DEF Reserve, Call
<1>12. CASE Connect(p)
  BY <1>1, <1>12, Hidden DEF Connect, Call
<1>13. CASE Measure(p)
  <2>1. PICK i : Becomes(p, [call[p] EXCEPT !.id = i,
                                            !.at = IF i = Blank THEN "release" ELSE "compare"])
    BY <1>13 DEF Measure
  <2> QED BY <1>1, <1>13, <2>1, Hidden DEF Measure, Call
<1>14. CASE Collision(p) \/ MarkUnsuitable(p)
  BY <1>1, <1>14, Hidden DEF Collision, MarkUnsuitable, Call
<1>15. CASE Release(p)
  BY <1>2, <1>15, Hidden DEF Release
<1> QED BY <1>4, <1>5, <1>6, <1>7, <1>8, <1>9, <1>10, <1>11, <1>12, <1>13, <1>14, <1>15 DEF Work

\* The last step of a call that succeeds grants what was measured and compared.
LEMMA SucceedGrants == ASSUME Inv, NEW p \in Proc, Succeed(p) PROVE Promise!Grant(p)
<1> DEFINE i == call[p].id
<1>1. call \in [Proc -> Call] /\ call[p] \in Call
  BY DEF Inv, TypeOK
<1>2. In(p, "compare") /\ call' = [call EXCEPT ![p] = [call[p] EXCEPT !.at = "granted"]]
  BY DEF Succeed, Becomes
<1>3. call'[p].at = "granted" /\ call'[p].id = i /\ \A q \in Proc : q # p => call'[q] = call[q]
  BY <1>1, <1>2 DEF Call
<1>4. i \in Identity \ {Blank}
  BY <1>1, <1>2 DEF Call, Inv, Sound, In
<1>5. Granted[p] = Blank /\ Granted' = [Granted EXCEPT ![p] = i] /\ Active' = Active
  <2>1. Granted[p] = Blank
    BY <1>2 DEF Granted, Public, In
  <2>2. Granted' = [Granted EXCEPT ![p] = i]
    BY <1>3 DEF Granted, Public
  <2>3. \A q \in Proc : In(q, "active")' <=> In(q, "active")
    BY <1>2, <1>3 DEF In
  <2>4. Active' = Active
    BY <2>3 DEF Active
  <2> QED BY <2>1, <2>2, <2>4
<1>6. \A q \in Active : ~Promise!Shares(i, Granted[q])
  BY DEF Succeed, collides, Identities, Active, In, Granted, Public, Promise!Shares
<1>7. {q \in Proc \ Active : Granted[q] # Blank} = {r \in Proc : In(r, "granted")}
  BY DEF Active, Granted, Public, In, Inv, Sound
<1>8. raced' = raced \cup {{p, q} : q \in {r \in Proc \ Active : Granted[r] # Blank}}
  BY <1>7 DEF Succeed
<1> QED BY <1>4, <1>5, <1>6, <1>8
        DEF Promise!Grant, Promise!Identity, Identity, Promise!Blank, Blank, Promise!Unseen,
            Granted, Public

\* What the caller does with it is what the allocator's user does.
LEMMA CallerSteps ==
  ASSUME Inv, NEW p \in Proc, Register(p) \/ Leave(p)
  PROVE  Promise!Register(p) \/ Promise!Leave(p)
<1>1. call \in [Proc -> Call] /\ call[p] \in Call /\ Sound(call[p]) /\ raced' = raced
  BY DEF Inv, TypeOK, Register, Leave
<1>2. \A q \in Proc : q # p => call'[q] = call[q]
  BY <1>1 DEF Register, Leave, Becomes
<1>3. CASE Register(p)
  <2>1. In(p, "granted") /\ call'[p].at = "active" /\ call'[p].id = call[p].id
    BY <1>1, <1>3 DEF Register, Becomes, Call
  <2>2. Granted' = Granted /\ Active' = Active \cup {p}
    BY <1>2, <2>1 DEF Granted, Public, Active, In
  <2>3. p \in Proc \ Active /\ Granted[p] # Blank
    BY <1>1, <2>1 DEF Granted, Public, Active, In, Sound
  <2> QED BY <1>1, <2>2, <2>3
          DEF Promise!Register, Promise!Unseen, Promise!Blank, Blank, Granted, Public
<1>4. CASE Leave(p)
  <2>1. In(p, "active") /\ call'[p].at = "over"
    BY <1>1, <1>4 DEF Leave, Becomes, Call
  <2>2. Granted' = [Granted EXCEPT ![p] = Blank] /\ Active' = Active \ {p}
    BY <1>2, <2>1 DEF Granted, Public, Active, In
  <2>3. Granted[p] # Blank
    BY <1>1, <2>1 DEF Granted, Public, In, Sound
  <2> QED BY <1>1, <2>2, <2>3 DEF Promise!Leave, Promise!Blank, Blank, Granted, Public
<1> QED BY <1>3, <1>4

\* Allocate, with its API, its file and its tunnels, implements the allocator
\* of identities.
THEOREM Implements == Spec => Promised
<1>1. Init => Promise!Init
  <2> SUFFICES ASSUME Init PROVE Promise!Init
    OBVIOUS
  <2>1. \A p \in Proc : call[p].at = "idle"
    BY DEF Init, Enter
  <2> QED BY <2>1 DEF Init, Promise!Init, Promise!Blank, Blank, Active, In
<1>2. Inv /\ [Next]_vars => [Promise!Next]_(Promise!vars)
  <2> SUFFICES ASSUME Inv, [Next]_vars PROVE [Promise!Next]_(Promise!vars)
    OBVIOUS
  <2>1. ASSUME Granted' = Granted, Active' = Active, raced' = raced
        PROVE  UNCHANGED Promise!vars
    BY <2>1 DEF Promise!vars, Granted, Public
  <2>2. CASE Lapse \/ UNCHANGED vars
    BY <2>1, <2>2 DEF Lapse, vars, Granted, Active, In
  <2>3. ASSUME NEW p \in Proc, Begin(p) \/ Die(p) \/ (Work(p) /\ ~Succeed(p))
        PROVE  UNCHANGED Promise!vars
    BY <2>1, <2>3, HiddenSteps
  <2>4. ASSUME NEW p \in Proc, Succeed(p) \/ Register(p) \/ Leave(p) PROVE Promise!Next
    BY <2>4, SucceedGrants, CallerSteps DEF Promise!Next
  <2> QED BY <2>2, <2>3, <2>4 DEF Next
<1> QED BY <1>1, <1>2, InvAlways, PTL DEF Spec, Promised, Promise!Spec

\* So two instances have a common address only after a race of a grant and a
\* registration.
THEOREM UniqueIdentities == Spec => []UniqueUnlessRaced
<1>1. Promise!Spec => []Promise!UniqueUnlessRaced
  BY Promise!Unique
<1>2. UniqueUnlessRaced <=> Promise!UniqueUnlessRaced
  BY DEF UniqueUnlessRaced
<1> QED BY <1>1, <1>2, Implements, PTL DEF Promised
-----------------------------------------------------------------------------
(***************************************************************************)
(* AllocateAdvances, the part of AllocateEnds that is a safety property.   *)
(***************************************************************************)

\* Giving up on a country advances a call.
LEMMA NextCountryAhead ==
  ASSUME TypeOK, NEW p \in Proc PROVE Ahead(call[p], NextCountry(p))
<1>1. call[p].country \in 1..Countries /\ Countries \in Nat
  BY CountryAssumption DEF TypeOK, Call
<1>2. CASE call[p].country < Countries
  BY <1>1, <1>2 DEF NextCountry, Enter, Ahead
<1>3. CASE ~(call[p].country < Countries)
  BY <1>3 DEF NextCountry, Enter, Ahead, InAllocate, Request, AtWork
<1> QED BY <1>2, <1>3

\* Every step of Allocate advances its call.
LEMMA WorkAhead ==
  ASSUME TypeOK, NEW p \in Proc, Work(p) PROVE Ahead(call[p], call'[p])
<1> DEFINE c == call[p]
           d == call'[p]
<1> USE DEF Becomes, In, Ahead, Progress, OnServer
<1>1. /\ c \in Call /\ c.tries \in Nat /\ call \in [Proc -> Call]
      /\ \A e : Becomes(p, e) => d = e
  BY DEF TypeOK, Call
<1>2. Ahead(c, NextCountry(p))
  BY NextCountryAhead
<1>3. CASE CachedCountry(p) \/ CountryID(p)
  <2>1. c.at = "country" /\ d.at = "recommend" /\ d.country = c.country
    BY <1>1, <1>3 DEF CachedCountry, CountryID, Call
  <2> QED BY <2>1
<1>4. CASE CountryUnknown(p) \/ NoneLeft(p)
  BY <1>1, <1>2, <1>4 DEF CountryUnknown, NoneLeft
<1>5. CASE RequestFails(p)
  <2>1. CASE c.tries + 1 < MaxTries
    BY <1>1, <1>5, <2>1 DEF RequestFails, Call
  <2>2. CASE ~(c.tries + 1 < MaxTries)
    BY <1>1, <1>2, <1>5, <2>2 DEF RequestFails
  <2> QED BY <2>1, <2>2
<1>6. CASE RecommendN(p)
  <2>1. PICK some : d = IF some = {} THEN NextCountry(p)
                     ELSE [c EXCEPT !.at = "consider", !.tries = 0, !.servers = some]
    BY <1>1, <1>6 DEF RecommendN
  <2>2. CASE some = {}
    BY <1>2, <2>1, <2>2
  <2>3. CASE some # {}
    <3>1. c.at = "recommend" /\ d.at = "consider" /\ d.country = c.country
      BY <1>1, <1>6, <2>1, <2>3 DEF RecommendN, Call
    <3> QED BY <3>1
  <2> QED BY <2>2, <2>3
<1>7. CASE Consider(p)
  <2>1. PICK k \in c.servers :
          \/ d = [[c EXCEPT !.servers = @ \ {k}] EXCEPT !.at = "reserve", !.server = k]
          \/ d = [c EXCEPT !.servers = @ \ {k}]
    BY <1>1, <1>7 DEF Consider
  <2>2. /\ c.at = "consider" /\ d.at \in {"consider", "reserve"}
        /\ d.country = c.country /\ d.tries = c.tries /\ d.servers = c.servers \ {k}
    BY <1>1, <1>7, <2>1 DEF Consider, Call
  <2>3. d.servers \subseteq c.servers /\ d.servers # c.servers
    BY <2>2
  <2> QED BY <2>2, <2>3
<1>8. CASE Reserve(p)
  <2>1. /\ c.at = "reserve" /\ d.at \in {"consider", "connect"}
        /\ d.country = c.country /\ d.tries = c.tries /\ d.servers = c.servers
    BY <1>1, <1>8 DEF Reserve, NextServer, Call
  <2> QED BY <2>1
<1>9. CASE Connect(p)
  BY <1>1, <1>9 DEF Connect, Call
<1>10. CASE Measure(p)
  BY <1>1, <1>10 DEF Measure, Call
<1>11. CASE Succeed(p)
  BY <1>1, <1>11 DEF Succeed, Call, InAllocate, Request, AtWork
<1>12. CASE Collision(p) \/ MarkUnsuitable(p)
  BY <1>1, <1>12 DEF Collision, MarkUnsuitable, Call
<1>13. CASE Release(p)
  BY <1>1, <1>13 DEF Release, NextServer, Call
<1> QED BY <1>3, <1>4, <1>5, <1>6, <1>7, <1>8, <1>9, <1>10, <1>11, <1>12, <1>13 DEF Work

\* A step of another process leaves the call as it is, a death ends it.
LEMMA CallKept ==
  ASSUME TypeOK, [Next]_vars, NEW p \in Proc, InAllocate(call[p]), ~Work(p)
  PROVE  Ahead(call[p], call'[p]) \/ call'[p] = call[p]
<1>1. ASSUME NEW q \in Proc, q # p, Begin(q) \/ Work(q) \/ Register(q) \/ Leave(q) \/ Die(q)
      PROVE  call'[p] = call[p]
  BY <1>1 DEF TypeOK, Begin, Work, Register, Leave, Die, CachedCountry, CountryID,
              CountryUnknown, RequestFails, RecommendN, Consider, NoneLeft, Reserve, Connect,
              Measure, Succeed, Collision, MarkUnsuitable, Release, Becomes
<1>2. CASE Begin(p) \/ Register(p) \/ Leave(p)
  BY <1>2 DEF Begin, Register, Leave, In, InAllocate, Request, AtWork
<1>3. CASE Die(p)
  <2>1. call'[p].at = "dead"
    BY <1>3 DEF Die, Becomes, TypeOK, Call
  <2> QED BY <2>1 DEF Ahead, InAllocate, Request, AtWork
<1>4. CASE Lapse \/ UNCHANGED vars
  BY <1>4 DEF Lapse, vars
<1> QED BY <1>1, <1>2, <1>3, <1>4 DEF Next

\* Every step of a call advances it, for any countries, servers and numbers of
\* attempts, and none of another process sets it back.
THEOREM CallsGoOn == Spec => AllocateAdvances
<1> DEFINE A == \A p \in Proc :
             InAllocate(call[p]) =>
               Ahead(call[p], call'[p]) \/ (~Work(p) /\ call'[p] = call[p])
<1>1. TypeOK /\ [Next]_vars => [A]_vars
  BY WorkAhead, CallKept
<1> QED BY <1>1, TypeCorrect, PTL DEF Spec, AllocateAdvances
=============================================================================
