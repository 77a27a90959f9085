-------------------------- MODULE ReservationProofs --------------------------
(***************************************************************************)
(* Theorems about ReservationProtocol, for any invocations, servers and    *)
(* TTLs with ReserveTTL <= UnsuitableTTL.                                  *)
(***************************************************************************)
EXTENDS ReservationProtocol, TLAPS

\* Whoever is at work with a server has one.
ServerInv ==
  \A p \in Proc : stage[p] \in {"holding", "releasing", "using"} => server[p] \in Key

TypeInv == TypeOK /\ ServerInv

Claimed(p) ==
  \E x \in resv : x.key = server[p] /\ ~x.unsuitable /\ x.inst = p /\ x.exp = until[p]

Marked(p) == \E x \in resv : x.key = server[p] /\ x.unsuitable /\ x.exp >= until[p]

\* What holds while nobody is late: nothing has lapsed (Fresh), and as long as
\* the file is whole a holder is covered by its claim or, if that was dropped, by a mark (Covered), and who
\* is about to release does so under a mark that outlasts any holder (Shielded).
Fresh ==
  \A p \in Proc : /\ stage[p] \in {"holding", "releasing"} => until[p] > now
                  /\ stage[p] = "holding" => until[p] <= now + ReserveTTL

Covered == \A p \in Proc : stage[p] = "holding" => Claimed(p) \/ Marked(p)

Shielded ==
  \A p \in Proc : stage[p] = "releasing" =>
    /\ Marked(p)
    /\ \A q \in Proc : stage[q] = "holding" /\ server[q] = server[p] => until[q] <= until[p]

OneHolder ==
  \A p, q \in Proc :
    p # q /\ stage[p] = "holding" /\ stage[q] = "holding" => server[p] # server[q]

LeaseInv == late = {} => Fresh /\ OneHolder /\ (torn \/ (Covered /\ Shielded))

Inv == TypeInv /\ LeaseInv

\* The fields of entries, old and new.
LEMMA EntryFields ==
  ASSUME NEW x \in Entry
  PROVE  x.key \in Key /\ x.unsuitable \in BOOLEAN /\ x.exp \in Nat
BY DEF Entry

\* A claim is an entry of the list, with the fields it was given.
LEMMA ClaimFields ==
  ASSUME NEW p \in Proc, NEW k \in Key, now \in Nat
  PROVE  /\ Claim(p, k) \in Entry
         /\ Claim(p, k).key = k /\ Claim(p, k).inst = p /\ ~Claim(p, k).unsuitable
         /\ Claim(p, k).exp = now + ReserveTTL
<1>1. now + ReserveTTL \in Nat
  BY TTLAssumption
<1> QED BY <1>1 DEF Claim, Entry

\* So is a mark.
LEMMA MarkFields ==
  ASSUME NEW k \in Key, now \in Nat
  PROVE  /\ Mark(k) \in Entry
         /\ Mark(k).key = k /\ Mark(k).unsuitable /\ Mark(k).exp = now + UnsuitableTTL
<1>1. now + UnsuitableTTL \in Nat
  BY TTLAssumption
<1> QED BY <1>1 DEF Mark, Entry

\* The invariant holds of the empty list.
LEMMA InitInv == Init => Inv
<1> SUFFICES ASSUME Init PROVE Inv
  OBVIOUS
<1> USE DEF Init
<1>1. TypeInv
  BY DEF TypeInv, TypeOK, Stage, ServerInv
<1>2. LeaseInv
  BY DEF LeaseInv, Fresh, Covered, Shielded, OneHolder
<1> QED BY <1>1, <1>2 DEF Inv

-----------------------------------------------------------------------------
(***************************************************************************)
(* Type correctness.                                                       *)
(***************************************************************************)
LEMMA TypeStep == TypeInv /\ [Next]_vars => TypeInv'
<1> SUFFICES ASSUME TypeInv, [Next]_vars PROVE TypeInv'
  OBVIOUS
<1> USE TTLAssumption DEF TypeInv, TypeOK, ServerInv, Stage, Become, Save
<1>1. ASSUME NEW p \in Proc, NEW k \in Key, Reserve(p, k) PROVE TypeInv'
  <2>1. Claim(p, k) \in Entry /\ Live \in SUBSET Entry
    BY ClaimFields DEF Live
  <2> QED BY <1>1, <2>1 DEF Reserve, CanTake
<1>2. ASSUME NEW p \in Proc, Succeed(p) PROVE TypeInv'
  BY <1>2 DEF Succeed, WithoutClaims
<1>3. ASSUME NEW p \in Proc, GiveUp(p) PROVE TypeInv'
  BY <1>3 DEF GiveUp, WithoutClaims
<1>4. ASSUME NEW p \in Proc, MarkUnsuitable(p) PROVE TypeInv'
  <2>1. server[p] \in Key
    BY <1>4 DEF MarkUnsuitable
  <2>2. Mark(server[p]) \in Entry
    BY <2>1, MarkFields
  <2> QED BY <1>4, <2>1, <2>2 DEF MarkUnsuitable, WithMark, WithoutClaims
<1>5. ASSUME NEW p \in Proc, Release(p) PROVE TypeInv'
  BY <1>5 DEF Release, WithoutClaims
<1>6. ASSUME NEW p \in Proc, Abandon(p) PROVE TypeInv'
  BY <1>6 DEF Abandon
<1>7. ASSUME NEW p \in Proc, Tear(p) PROVE TypeInv'
  BY <1>7 DEF Tear
<1>8. CASE Tick
  BY <1>8 DEF Tick
<1>9. CASE UNCHANGED vars
  BY <1>9 DEF vars
<1> QED BY <1>1, <1>2, <1>3, <1>4, <1>5, <1>6, <1>7, <1>8, <1>9 DEF Next

\* Every variable keeps its type.
THEOREM TypeCorrect == Spec => []TypeOK
<1>1. Init => TypeInv
  BY InitInv DEF Inv
<1>2. TypeInv => TypeOK
  BY DEF TypeInv
<1> QED BY <1>1, <1>2, TypeStep, PTL DEF Spec

-----------------------------------------------------------------------------
(***************************************************************************)
(* One holder per server.                                                  *)
(***************************************************************************)

\* A server whose holder or whose releasing invocation is not late is refused
\* to everybody else.
LEMMA Refused ==
  ASSUME TypeInv, LeaseInv, late = {}, NEW p \in Proc, NEW q \in Proc, p # q,
         stage[q] \in {"holding", "releasing"}
  PROVE  ~CanTake(p, server[q])
<1> USE DEF TypeInv, TypeOK
<1> SUFFICES ASSUME ~torn PROVE ~CanReserve(Live, server[q], p)
  BY DEF CanTake
<1>1. Claimed(q) \/ Marked(q)
  BY DEF LeaseInv, Covered, Shielded
<1>2. until[q] > now /\ until[q] \in Nat /\ now \in Nat
  BY DEF LeaseInv, Fresh
<1>3. CASE Claimed(q)
  <2>1. PICK x \in resv :
          x.key = server[q] /\ ~x.unsuitable /\ x.inst = q /\ x.exp = until[q]
    BY <1>3 DEF Claimed
  <2>2. x \in Live
    BY <1>2, <2>1 DEF Live
  <2> QED BY <2>1, <2>2 DEF CanReserve, ReservedByOther
<1>4. CASE Marked(q)
  <2>1. PICK x \in resv : x.key = server[q] /\ x.unsuitable /\ x.exp >= until[q]
    BY <1>4 DEF Marked
  <2>2. x \in Live
    BY <1>2, <2>1, EntryFields DEF Live
  <2> QED BY <2>1, <2>2 DEF CanReserve, Unsuitable
<1> QED BY <1>1, <1>3, <1>4

\* LeaseInv is inductive: as long as nobody is late, claims and marks cover their servers.
LEMMA LeaseStep == TypeInv /\ LeaseInv /\ [Next]_vars => LeaseInv'
<1> SUFFICES ASSUME TypeInv, LeaseInv, [Next]_vars, late' = {}
             PROVE  Fresh' /\ OneHolder' /\ (torn' \/ (Covered' /\ Shielded'))
  BY DEF LeaseInv
<1>0. late = {}
  BY DEF Next, vars, Reserve, Succeed, GiveUp, MarkUnsuitable, Release, Abandon, Tear, Tick
<1>a. Fresh /\ OneHolder /\ (~torn => Covered /\ Shielded)
  BY <1>0 DEF LeaseInv
<1> USE <1>a, TTLAssumption DEF TypeInv, TypeOK, Become, Save
<1>1. ASSUME NEW p \in Proc, NEW k \in Key, Reserve(p, k)
      PROVE  Fresh' /\ OneHolder' /\ (torn' \/ (Covered' /\ Shielded'))
  <2>1. ~torn /\ Covered /\ Shielded
    BY <1>1 DEF Reserve, CanTake
  <2>2. \A q \in Proc \ {p} : stage[q] \in {"holding", "releasing"} => server[q] # k
    BY <1>0, <1>1, Refused DEF Reserve
  <2>3. Fresh'
    <3>1. \A q \in Proc \ {p} : stage'[q] = stage[q] /\ until'[q] = until[q]
      BY <1>1 DEF Reserve
    <3>2. stage'[p] = "holding" /\ until'[p] = now + ReserveTTL /\ now' = now
      BY <1>1 DEF Reserve
    <3>3. now + ReserveTTL > now
      OBVIOUS
    <3> QED BY <3>1, <3>2, <3>3 DEF Fresh
  <2>4. Claimed(p)' /\ stage'[p] = "holding"
    BY <1>1, <2>1, ClaimFields DEF Reserve, Claimed
  <2>5. \A q \in Proc \ {p} :
          stage[q] \in {"holding", "releasing"} =>
            (Claimed(q) => Claimed(q)') /\ (Marked(q) => Marked(q)')
    <3>1. \A q \in Proc \ {p} : server'[q] = server[q] /\ until'[q] = until[q]
      BY <1>1 DEF Reserve
    <3>2. \A x \in resv : x.exp > now => x \in resv'
      BY <1>1, <2>1 DEF Reserve, Live
    <3>3. \A q \in Proc : stage[q] \in {"holding", "releasing"} => until[q] > now
      BY DEF Fresh
    <3>4. \A x \in resv : x.exp \in Nat
      BY EntryFields
    <3> QED BY <3>1, <3>2, <3>3, <3>4 DEF Claimed, Marked
  <2>6. Covered'
    BY <1>1, <2>1, <2>4, <2>5 DEF Reserve, Covered
  <2>7. Shielded'
    BY <1>1, <2>1, <2>2, <2>5 DEF Reserve, Shielded
  <2>8. OneHolder'
    BY <1>1, <2>2 DEF Reserve, OneHolder
  <2> QED BY <2>3, <2>6, <2>7, <2>8
<1>2. ASSUME NEW p \in Proc, Succeed(p) \/ GiveUp(p)
      PROVE  Fresh' /\ OneHolder' /\ (torn' \/ (Covered' /\ Shielded'))
  <2>1. /\ ~torn => resv' = WithoutClaims(resv, server[p])
        /\ torn' = torn /\ stage[p] = "holding"
        /\ stage'[p] \in {"using", "idle", "done"} /\ now' = now
        /\ \A q \in Proc \ {p} : stage'[q] = stage[q] /\ server'[q] = server[q]
                                 /\ until'[q] = until[q]
    BY <1>2 DEF Succeed, GiveUp
  <2>2. Fresh' /\ OneHolder'
    BY <2>1 DEF Fresh, OneHolder
  <2> SUFFICES ASSUME ~torn PROVE Covered' /\ Shielded'
    BY <2>1, <2>2
  <2>3. \A q \in Proc \ {p} : stage[q] = "holding" => server[q] # server[p]
    BY <2>1 DEF OneHolder
  <2>4. \A q \in Proc \ {p} : Marked(q) => Marked(q)'
    BY <2>1 DEF Marked, WithoutClaims
  <2>5. \A q \in Proc \ {p} : stage[q] = "holding" /\ Claimed(q) => Claimed(q)'
    BY <2>1, <2>3 DEF Claimed, WithoutClaims
  <2>6. Covered' /\ Shielded'
    BY <2>1, <2>4, <2>5 DEF Covered, Shielded
  <2> QED BY <2>6
<1>3. ASSUME NEW p \in Proc, MarkUnsuitable(p)
      PROVE  Fresh' /\ OneHolder' /\ (torn' \/ (Covered' /\ Shielded'))
  <2>1. /\ ~torn => resv' = WithMark(resv, server[p], Mark(server[p]))
        /\ torn' = torn /\ now' = now
        /\ stage'[p] = "releasing" /\ server'[p] = server[p]
        /\ until'[p] = now + UnsuitableTTL
        /\ \A q \in Proc \ {p} : stage'[q] = stage[q] /\ server'[q] = server[q]
                                 /\ until'[q] = until[q]
    BY <1>3 DEF MarkUnsuitable
  <2>2. Fresh' /\ OneHolder'
    BY <2>1 DEF Fresh, OneHolder
  <2> SUFFICES ASSUME ~torn PROVE Covered' /\ Shielded'
    BY <2>1, <2>2
  <2>3. \A q \in Proc : stage[q] = "holding" => until[q] <= now + UnsuitableTTL
    BY DEF Fresh
  <2>4. server[p] \in Key /\ Mark(server[p]) \in resv'
    BY <1>3, <2>1 DEF MarkUnsuitable, ServerInv, WithMark
  <2>5. Marked(p)'
    BY <2>1, <2>4, MarkFields DEF Marked
  <2>6. \A q \in Proc \ {p} : Marked(q) => Marked(q)'
    BY <2>1 DEF Marked, WithMark, WithoutClaims
  <2>7. \A q \in Proc \ {p} :
          stage[q] = "holding" /\ Claimed(q) => Claimed(q)' \/ Marked(q)'
    BY <2>1, <2>3, <2>4, MarkFields DEF Claimed, Marked, WithMark, WithoutClaims
  <2>8. Covered' /\ Shielded'
    BY <2>1, <2>3, <2>5, <2>6, <2>7 DEF Covered, Shielded
  <2> QED BY <2>8
<1>4. ASSUME NEW p \in Proc, Release(p)
      PROVE  Fresh' /\ OneHolder' /\ (torn' \/ (Covered' /\ Shielded'))
  <2>1. /\ ~torn => resv' = WithoutClaims(resv, server[p])
        /\ torn' = torn /\ stage[p] = "releasing"
        /\ stage'[p] \in {"idle", "done"} /\ now' = now
        /\ \A q \in Proc \ {p} : stage'[q] = stage[q] /\ server'[q] = server[q]
                                 /\ until'[q] = until[q]
    BY <1>4 DEF Release
  <2>2. Fresh' /\ OneHolder'
    BY <2>1 DEF Fresh, OneHolder
  <2> SUFFICES ASSUME ~torn PROVE Covered' /\ Shielded'
    BY <2>1, <2>2
  <2>3. \A q \in Proc \ {p} : Marked(q) => Marked(q)'
    BY <2>1 DEF Marked, WithoutClaims
  <2>4. \A q \in Proc \ {p} :
          stage[q] = "holding" /\ server[q] = server[p] => Marked(q)
    <3>1. ASSUME NEW q \in Proc \ {p}, stage[q] = "holding", server[q] = server[p]
          PROVE  Marked(q)
      <4>1. PICK x \in resv : x.key = server[p] /\ x.unsuitable /\ x.exp >= until[p]
        BY <2>1 DEF Shielded, Marked
      <4>2. until[q] <= until[p]
        BY <2>1, <3>1 DEF Shielded
      <4>3. x.exp >= until[q]
        BY <4>1, <4>2, EntryFields
      <4> QED BY <3>1, <4>1, <4>3 DEF Marked
    <3> QED BY <3>1
  <2>5. \A q \in Proc \ {p} :
          stage[q] = "holding" /\ server[q] # server[p] /\ Claimed(q) => Claimed(q)'
    BY <2>1 DEF Claimed, WithoutClaims
  <2>6. Covered' /\ Shielded'
    BY <2>1, <2>3, <2>4, <2>5 DEF Covered, Shielded
  <2> QED BY <2>6
<1>5. ASSUME NEW p \in Proc, Abandon(p)
      PROVE  Fresh' /\ OneHolder' /\ (torn' \/ (Covered' /\ Shielded'))
  BY <1>5 DEF Abandon, Fresh, Covered, Shielded, OneHolder, Claimed, Marked
<1>6. ASSUME NEW p \in Proc, Tear(p)
      PROVE  Fresh' /\ OneHolder' /\ (torn' \/ (Covered' /\ Shielded'))
  BY <1>6 DEF Tear, Fresh, OneHolder
<1>7. CASE Tick
  BY <1>7 DEF Tick, Overdue, Fresh, Covered, Shielded, OneHolder, Claimed, Marked
<1>8. CASE UNCHANGED vars
  BY <1>8 DEF vars, Fresh, Covered, Shielded, OneHolder, Claimed, Marked
<1> QED BY <1>1, <1>2, <1>3, <1>4, <1>5, <1>6, <1>7, <1>8 DEF Next

\* While no claim has lapsed under its holder no two invocations hold one
\* server, whatever teardowns mark and release.
THEOREM OneHolderPerServer == Spec => []ExclusiveUnlessLate
<1>1. Init => TypeInv /\ LeaseInv
  BY InitInv DEF Inv
<1>2. LeaseInv => ExclusiveUnlessLate
  BY DEF LeaseInv, OneHolder, ExclusiveUnlessLate
<1> QED BY <1>1, <1>2, TypeStep, LeaseStep, PTL DEF Spec

-----------------------------------------------------------------------------
\* No call removes a mark before it has expired.
THEOREM MarksAreKept == Spec => MarksLast
<1>1. [Next]_vars =>
        [~torn' => \A x \in resv : x.unsuitable /\ x.exp > now => x \in resv']_vars
  BY DEF Next, vars, Reserve, CanTake, Live, Succeed, GiveUp, MarkUnsuitable, Release, Abandon,
         Tear, Tick, Save, WithMark, WithoutClaims
<1> QED BY <1>1, PTL DEF Spec, MarksLast
=============================================================================
