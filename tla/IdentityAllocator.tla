-------------------------- MODULE IdentityAllocator --------------------------
(***************************************************************************)
(* What Client.Allocate (internal/vpn/vpn.go) promises its callers, and    *)
(* newAuto (cmd/new/main.go) its user: an identity that was measured and   *)
(* that no active instance has when it is granted, or an error.  It says   *)
(* nothing of servers, claims, records or the API; modules VpnClient and   *)
(* NewAuto, which have them, both implement it.                            *)
(***************************************************************************)
EXTENDS TLAPS

CONSTANTS
  Proc,   \* instances
  V4, V6, \* public addresses
  NoAddr  \* the empty string in their place

Identity == [v4 : V4 \cup {NoAddr}, v6 : V6 \cup {NoAddr}]
Blank    == [v4 |-> NoAddr, v6 |-> NoAddr]

\* The identities i and j have a public address in common.
Shares(i, j) ==
  \/ i.v4 # NoAddr /\ i.v4 = j.v4
  \/ i.v6 # NoAddr /\ i.v6 = j.v6

VARIABLES
  granted,  \* the identity of an instance, Blank if it has none
  active,   \* the instances active() tells of
  raced     \* history: {p, q} if one got its identity after the other had
            \* its own and before the other was active

vars == <<granted, active, raced>>

Init ==
  /\ granted = [p \in Proc |-> Blank]
  /\ active = {} /\ raced = {}

\* The instances that have an identity nobody can ask for.
Unseen == {q \in Proc \ active : granted[q] # Blank}

Grant(p) ==
  /\ granted[p] = Blank
  /\ \E i \in Identity \ {Blank} :
       /\ \A q \in active : ~Shares(i, granted[q])
       /\ granted' = [granted EXCEPT ![p] = i]
  /\ raced' = raced \cup {{p, q} : q \in Unseen}
  /\ UNCHANGED active

\* The caller makes it known,
Register(p) ==
  /\ p \in Unseen /\ active' = active \cup {p}
  /\ UNCHANGED <<granted, raced>>

\* and gives it up, or dies, before or after that.
Leave(p) ==
  /\ granted[p] # Blank /\ active' = active \ {p}
  /\ granted' = [granted EXCEPT ![p] = Blank]
  /\ UNCHANGED raced

Next == \E p \in Proc : Grant(p) \/ Register(p) \/ Leave(p)

Spec == Init /\ [][Next]_vars

-----------------------------------------------------------------------------
\* vpn.go:560-569, "unique among currently-active instances": two instances
\* have an address in common only if neither was active when the second of
\* them got it.
UniqueUnlessRaced ==
  \A p, q \in Proc : p # q /\ Shares(granted[p], granted[q]) => {p, q} \in raced

\* The granted identities are identities; with it the property is inductive.
Inv == granted \in [Proc -> Identity] /\ UniqueUnlessRaced

\* A grant adds no pair but those it records.
LEMMA GrantInv == ASSUME NEW p \in Proc, Inv, Grant(p) PROVE Inv'
<1> USE DEF Inv, Grant
<1>1. PICK i \in Identity \ {Blank} :
        /\ \A q \in active : ~Shares(i, granted[q])
        /\ granted' = [granted EXCEPT ![p] = i]
  OBVIOUS
<1>2. (granted \in [Proc -> Identity])'
  BY <1>1
<1>3. \A q \in Proc \ {p} : Shares(i, granted[q]) => {p, q} \in raced'
  <2> SUFFICES ASSUME NEW q \in Proc \ {p}, Shares(i, granted[q]) PROVE {p, q} \in raced'
    OBVIOUS
  <2>1. granted[q] # Blank
    BY DEF Shares, Blank
  <2>2. q \in Unseen
    BY <1>1, <2>1 DEF Unseen
  <2> QED BY <2>2
<1>4. \A q \in Proc : Shares(granted[q], i) => Shares(i, granted[q])
  BY DEF Shares
<1>5. UniqueUnlessRaced'
  <2> SUFFICES ASSUME NEW q \in Proc, NEW r \in Proc, q # r, Shares(granted'[q], granted'[r])
               PROVE {q, r} \in raced'
    BY DEF UniqueUnlessRaced
  <2>1. CASE q = p
    BY <1>1, <1>3, <2>1
  <2>2. CASE r = p
    <3>1. {p, q} \in raced'
      BY <1>1, <1>3, <1>4, <2>2
    <3>2. {q, r} = {p, q}
      BY <2>2
    <3> QED BY <3>1, <3>2
  <2>3. CASE q # p /\ r # p
    BY <1>1, <2>3 DEF UniqueUnlessRaced
  <2> QED BY <2>1, <2>2, <2>3
<1> QED BY <1>2, <1>5

\* The allocator keeps its promise: every pair of instances with a common
\* address got it in a race of grant and registration.
THEOREM Unique == Spec => []UniqueUnlessRaced
<1>1. Init => Inv
  BY DEF Init, Inv, UniqueUnlessRaced, Shares, Blank, Identity
<1>2. Inv /\ [Next]_vars => Inv'
  <2> SUFFICES ASSUME Inv, [Next]_vars PROVE Inv'
    OBVIOUS
  <2> USE DEF Inv
  <2>1. ASSUME NEW p \in Proc, Grant(p) PROVE Inv'
    BY <2>1, GrantInv
  <2>2. ASSUME NEW p \in Proc, Register(p) PROVE Inv'
    BY <2>2 DEF Register, UniqueUnlessRaced
  <2>3. ASSUME NEW p \in Proc, Leave(p) PROVE Inv'
    <3>1. Blank \in Identity
      BY DEF Blank, Identity
    <3>2. (granted \in [Proc -> Identity])'
      BY <2>3, <3>1 DEF Leave
    <3>3. \A i \in Identity : ~Shares(i, Blank) /\ ~Shares(Blank, i)
      BY DEF Shares, Blank
    <3>4. UniqueUnlessRaced'
      BY <2>3, <3>3 DEF Leave, UniqueUnlessRaced
    <3> QED BY <3>2, <3>4
  <2>4. CASE UNCHANGED vars
    BY <2>4 DEF vars, UniqueUnlessRaced
  <2> QED BY <2>1, <2>2, <2>3, <2>4 DEF Next
<1>3. Inv => UniqueUnlessRaced
  BY DEF Inv
<1> QED BY <1>1, <1>2, <1>3, PTL DEF Spec
=============================================================================
