------------------------------ MODULE VpnClient ------------------------------
(***************************************************************************)
(* The NordVPN client, vpn.Client (internal/vpn/vpn.go): Allocate, which   *)
(* looks for a server with a public identity nobody active has, country by *)
(* country, over RecommendN and countryID, which ask the API and retry.    *)
(* Several processes do this at once; between them is the file of          *)
(* vpn.ReservationStore, whose entries may expire at any time, also those  *)
(* of a process that is slow.                                              *)
(*                                                                         *)
(* allocateVPN (cmd/new/main.go), in module NewAuto, makes the same calls  *)
(* up to Reserve, and leaves the tunnel and its measurement to its caller. *)
(***************************************************************************)
EXTENDS Integers, ReservationStore

CONSTANTS
  Proc,       \* processes, each with one instance
  Key,        \* servers, country:station
  Countries,  \* how many countries the policy lists, preferred ones first
  CountryOf,  \* the country of a server
  MaxTries,   \* attempts of a request, 4 in the code
  V4, V6,     \* public addresses
  Others,     \* identities of the instances that stay active throughout
  None        \* no server; no address

ASSUME InstanceAssumption == NoInstance \notin Proc
ASSUME NoneAssumption == None \notin Key \cup V4 \cup V6
ASSUME CountryAssumption == Countries \in Nat \ {0} /\ CountryOf \in [Key -> 1..Countries]
ASSUME TriesAssumption == MaxTries \in Nat \ {0}

VARIABLES
  call,   \* the call of Allocate a process is in, its locals
  known,  \* countryIDCache of a process
  resv,   \* the live entries of reservations.json
  raced   \* history, see IdentityAllocator

vars == <<call, known, resv, raced>>

Identity == [v4 : V4 \cup {None}, v6 : V6 \cup {None}]
Blank    == [v4 |-> None, v6 |-> None]

ASSUME OthersAssumption == Others \subseteq Identity \ {Blank}

Request == {"country", "recommend"}
AtWork  == {"connect", "measure", "compare", "mark", "release"}
Stage   == {"idle", "consider", "reserve", "failed", "dead"} \cup Request \cup AtWork
             \cup {"granted",  \* returned, and not known to active() yet
                   "active", "over"}

Call == [at      : Stage,
         country : 1..Countries,
         tries   : 0..MaxTries - 1,   \* attempts of the request that failed
         servers : SUBSET Key,        \* recommended, and not looked at yet
         server  : Key \cup {None},
         id      : Identity]          \* as measured

\* Where the loop over the countries begins an iteration.
Enter(c) == [at |-> "country", country |-> c, tries |-> 0, servers |-> {},
             server |-> None, id |-> Blank]

Entry == [key : Key, inst : Proc, unsuitable : {FALSE}]
           \cup [key : Key, inst : {NoInstance}, unsuitable : {TRUE}, by : Proc]

TypeOK ==
  /\ call \in [Proc -> Call] /\ known \in [Proc -> SUBSET (1..Countries)]
  /\ resv \in SUBSET Entry /\ raced \in SUBSET SUBSET Proc

Init ==
  /\ call = [p \in Proc |-> [Enter(1) EXCEPT !.at = "idle"]]
  /\ known = [p \in Proc |-> {}]
  /\ resv = {} /\ raced = {}

InAllocate(c) == c.at \in {"consider", "reserve"} \cup Request \cup AtWork

In(p, stage) == call[p].at = stage

Becomes(p, c) == call' = [call EXCEPT ![p] = c]

\* Mutant of NextCountry: it starts over instead of giving up.
NextCountryAgain(p) ==
  Enter(IF call[p].country < Countries THEN call[p].country + 1 ELSE 1)

\* The loop goes on with the next country, or Allocate returns its error.
NextCountry(p) ==
  IF call[p].country < Countries THEN Enter(call[p].country + 1)
                                 ELSE [Enter(1) EXCEPT !.at = "failed"]

\* The loop goes on with the next server.
NextServer(p) == [call[p] EXCEPT !.at = "consider", !.server = None, !.id = Blank]

-----------------------------------------------------------------------------
\* The caller calls, once more after an error.
Begin(p) ==
  /\ call[p].at \in {"idle", "failed"} /\ Becomes(p, Enter(1))
  /\ UNCHANGED <<known, resv, raced>>

CachedCountry(p) ==
  /\ In(p, "country") /\ call[p].country \in known[p]
  /\ Becomes(p, [call[p] EXCEPT !.at = "recommend"])
  /\ UNCHANGED <<known, resv, raced>>

\* The API answers with a list, the country in it,
CountryID(p) ==
  /\ In(p, "country") /\ call[p].country \notin known[p]
  /\ known' = [known EXCEPT ![p] = @ \cup {call[p].country}]
  /\ Becomes(p, [call[p] EXCEPT !.at = "recommend", !.tries = 0])
  /\ UNCHANGED <<resv, raced>>

\* or not: no retry.
CountryUnknown(p) ==
  /\ In(p, "country") /\ call[p].country \notin known[p]
  /\ Becomes(p, NextCountry(p))
  /\ UNCHANGED <<known, resv, raced>>

\* No answer, or 429, another status, or a body that is not the JSON: the
\* attempt is made again after a pause.
RequestFails(p) ==
  /\ \/ In(p, "country") /\ call[p].country \notin known[p]
     \/ In(p, "recommend")
  /\ Becomes(p, IF call[p].tries + 1 < MaxTries THEN [call[p] EXCEPT !.tries = @ + 1]
                                                ELSE NextCountry(p))
  /\ UNCHANGED <<known, resv, raced>>

\* RecommendN returns the servers that have a public key, an error if none has.
RecommendN(p) ==
  /\ In(p, "recommend")
  /\ \E some \in SUBSET {k \in Key : CountryOf[k] = call[p].country} :
       Becomes(p, IF some = {} THEN NextCountry(p)
                  ELSE [call[p] EXCEPT !.at = "consider", !.tries = 0, !.servers = some])
  /\ UNCHANGED <<known, resv, raced>>

-----------------------------------------------------------------------------
\* A server is skipped for what the file says of it.  It is read without the
\* lock, and a file another process is in the middle of saving says nothing,
\* so that any server may get through.
Consider(p) ==
  /\ In(p, "consider")
  /\ \E k \in call[p].servers :
       LET rest == [call[p] EXCEPT !.servers = @ \ {k}] IN
       \/ Becomes(p, [rest EXCEPT !.at = "reserve", !.server = k])
       \/ (ReservedByOther(resv, k, p) \/ Unsuitable(resv, k)) /\ Becomes(p, rest)
  /\ UNCHANGED <<known, resv, raced>>

NoneLeft(p) ==
  /\ In(p, "consider") /\ call[p].servers = {}
  /\ Becomes(p, NextCountry(p))
  /\ UNCHANGED <<known, resv, raced>>

Claim(p, k) == [key |-> k, inst |-> p, unsuitable |-> FALSE]

\* "by" keeps marks of two processes apart.  A process has one at most: it has
\* to reserve the server again before it can make another.
Mark(p, k) == [key |-> k, inst |-> NoInstance, unsuitable |-> TRUE, by |-> p]

\* Mutant of Reserve: Consider has looked already.
ReserveUnchecked(p) ==
  /\ In(p, "reserve")
  /\ resv' = resv \cup {Claim(p, call[p].server)}
  /\ Becomes(p, [call[p] EXCEPT !.at = "connect"])
  /\ UNCHANGED <<known, raced>>

\* Reserve looks again, under the lock.
Reserve(p) ==
  /\ In(p, "reserve")
  /\ IF CanReserve(resv, call[p].server, p)
       THEN /\ resv' = resv \cup {Claim(p, call[p].server)}
            /\ Becomes(p, [call[p] EXCEPT !.at = "connect"])
       ELSE resv' = resv /\ Becomes(p, NextServer(p))
  /\ UNCHANGED <<known, raced>>

\* Mutant of Connect: the early continue forgets the claim.
ConnectKeepsClaim(p) ==
  /\ In(p, "connect")
  /\ \/ Becomes(p, [call[p] EXCEPT !.at = "measure"])
     \/ Becomes(p, NextServer(p))
  /\ UNCHANGED <<known, resv, raced>>

\* The caller's connector brings the tunnel up, or fails.
Connect(p) ==
  /\ In(p, "connect")
  /\ \E to \in {"measure", "release"} : Becomes(p, [call[p] EXCEPT !.at = to])
  /\ UNCHANGED <<known, resv, raced>>

\* Mutant of Measure: no answer through the tunnel counts as an identity.
MeasureBlank(p) ==
  /\ In(p, "measure")
  /\ \E i \in Identity : Becomes(p, [call[p] EXCEPT !.id = i, !.at = "compare"])
  /\ UNCHANGED <<known, resv, raced>>

\* The caller's measurer returns an identity; an error is as good as none.
Measure(p) ==
  /\ In(p, "measure")
  /\ \E i \in Identity :
       Becomes(p, [call[p] EXCEPT !.id = i, !.at = IF i = Blank THEN "release" ELSE "compare"])
  /\ UNCHANGED <<known, resv, raced>>

Active == {q \in Proc : In(q, "active")}

\* What active() tells.
Identities == Others \cup {call[q].id : q \in Active}

\* Mutant of collides: no check of IPv6.
CollidesV4(i) == \E j \in Identities : i.v4 # None /\ i.v4 = j.v4

collides(i) ==
  \E j \in Identities : \/ i.v4 # None /\ i.v4 = j.v4
                        \/ i.v6 # None /\ j.v6 # None /\ i.v6 = j.v6

\* active() is asked, and Allocate returns.
Succeed(p) ==
  /\ In(p, "compare") /\ ~collides(call[p].id)
  /\ Becomes(p, [call[p] EXCEPT !.at = "granted"])
  /\ raced' = raced \cup {{p, q} : q \in {r \in Proc : In(r, "granted")}}
  /\ UNCHANGED <<known, resv>>

Collision(p) ==
  /\ In(p, "compare") /\ collides(call[p].id)
  /\ Becomes(p, [call[p] EXCEPT !.at = "mark"])
  /\ UNCHANGED <<known, resv, raced>>

\* Mutant of MarkUnsuitable: the mark is the process's own.
MarkAsOwn(p) ==
  /\ In(p, "mark")
  /\ resv' = WithMark(resv, call[p].server, [Mark(p, call[p].server) EXCEPT !.inst = p])
  /\ Becomes(p, [call[p] EXCEPT !.at = "release"])
  /\ UNCHANGED <<known, raced>>

MarkUnsuitable(p) ==
  /\ In(p, "mark")
  /\ resv' = WithMark(resv, call[p].server, Mark(p, call[p].server))
  /\ Becomes(p, [call[p] EXCEPT !.at = "release"])
  /\ UNCHANGED <<known, raced>>

Release(p) ==
  /\ In(p, "release")
  /\ resv' = WithoutClaims(resv, call[p].server)
  /\ Becomes(p, NextServer(p))
  /\ UNCHANGED <<known, raced>>

-----------------------------------------------------------------------------
\* The caller registers the instance, and destroys it in the end.
Register(p) ==
  /\ In(p, "granted") /\ Becomes(p, [call[p] EXCEPT !.at = "active"])
  /\ UNCHANGED <<known, resv, raced>>

Leave(p) ==
  /\ In(p, "active") /\ Becomes(p, [call[p] EXCEPT !.at = "over"])
  /\ UNCHANGED <<known, resv, raced>>

\* The process is killed in Allocate, and leaves its claim.
Die(p) ==
  /\ InAllocate(call[p])
  /\ Becomes(p, [call[p] EXCEPT !.at = "dead"])
  /\ UNCHANGED <<known, resv, raced>>

Lapse ==
  /\ \E x \in resv : resv' = resv \ {x}
  /\ UNCHANGED <<call, known, raced>>

\* What Allocate does next.
Work(p) ==
  \/ CachedCountry(p) \/ CountryID(p) \/ CountryUnknown(p) \/ RequestFails(p) \/ RecommendN(p)
  \/ Consider(p) \/ NoneLeft(p) \/ Reserve(p) \/ Connect(p) \/ Measure(p)
  \/ Succeed(p) \/ Collision(p) \/ MarkUnsuitable(p) \/ Release(p)

Next == Lapse \/ \E p \in Proc : Begin(p) \/ Work(p) \/ Register(p) \/ Leave(p) \/ Die(p)

Spec == Init /\ [][Next]_vars

\* Requests have a timeout, and so have what the caller runs in the guest and
\* the critical sections of the store.
FairSpec == Spec /\ \A p \in Proc : WF_vars(Work(p))

-----------------------------------------------------------------------------
\* reservations.go:20-23, "two environments never pick the same server": a
\* claim that counts is the only entry of its server that does, although a
\* process decides to try a server on what it read without the lock, and claims
\* and marks of the others lapse and come in between.  (Two marks of a server
\* may well count: of two processes, the claim of one of which has lapsed.)
ClaimAlone == \A x, y \in resv : x.key = y.key /\ ~x.unsuitable => x = y

\* A claim that counts belongs to a process that works with the server, got
\* an identity from it or died with it.  No call ends in an error, or goes on
\* to another server, and leaves the last one to its TTL.
ClaimInUse ==
  \A x \in resv : ~x.unsuitable =>
    /\ call[x.inst].at \in AtWork \cup {"granted", "active", "over", "dead"}
    /\ call[x.inst].server = x.key

\* To the callers, Allocate is the allocator of IdentityAllocator.
Promise ==
  INSTANCE IdentityAllocator WITH
    NoAddr <- None,
    granted <- [p \in Proc |-> IF call[p].at \in {"granted", "active"} THEN call[p].id ELSE Blank],
    active <- Active

\* Whatever becomes of claims, requests and tunnels, Allocate grants what was
\* measured and nobody active has.
Promised == Promise!Spec

\* Two instances have a public address in common only if the second of them
\* was granted it before the first was registered, although neither the claims
\* nor the marks keep two instances from one server once they have lapsed.
UniqueUnlessRaced == Promise!UniqueUnlessRaced

\* The stages of a call, in the order of the code; "consider" is where the loop
\* over the servers comes back to.
Progress ==
  [country |-> 0, recommend |-> 1, reserve |-> 2, connect |-> 2, measure |-> 2,
   compare |-> 2, mark |-> 2, release |-> 2, consider |-> 2]

OnServer ==
  [country |-> 0, recommend |-> 0, reserve |-> 0, connect |-> 1, measure |-> 2,
   compare |-> 3, mark |-> 4, release |-> 5, consider |-> 6]

\* Between c and d a call has ended, or gone on: to another country, from the
\* requests to the servers, to another attempt, to another server, or with one.
Ahead(c, d) ==
  \/ ~InAllocate(d)
  \/ d.country > c.country
  \/ /\ d.country = c.country
     /\ \/ Progress[d.at] > Progress[c.at]
        \/ /\ Progress[d.at] = Progress[c.at]
           /\ \/ d.tries > c.tries
              \/ d.tries = c.tries /\ d.servers \subseteq c.servers /\ d.servers # c.servers
              \/ /\ d.tries = c.tries /\ d.servers = c.servers
                 /\ OnServer[d.at] > OnServer[c.at]

\* vpn.go:561-571, the algorithm: every step of Allocate brings it forward, and
\* nobody else sets it back, whatever the API answers and whoever holds, marks
\* and releases its servers; countries, attempts and servers are finitely many.
AllocateAdvances ==
  [][\A p \in Proc :
       InAllocate(call[p]) =>
         Ahead(call[p], call'[p]) \/ (~Work(p) /\ call'[p] = call[p])]_vars

\* Every call ends, whatever the API answers and whoever holds the servers.
AllocateEnds ==
  \A p \in Proc : In(p, "country") ~> ~InAllocate(call[p])
=============================================================================
