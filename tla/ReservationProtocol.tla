------------------------- MODULE ReservationProtocol -------------------------
(***************************************************************************)
(* The reservation of WireGuard servers in time: how the invocations of    *)
(* `new` use vpn.ReservationStore (internal/vpn/reservations.go) from      *)
(* allocateVPN to teardown, with the expiry of every entry.  Two           *)
(* invocations with one server would have one public address, so a server  *)
(* is to have one holder; but a claim lapses after ReserveTTL whether its  *)
(* holder is done or not, Release drops claims by server and not by owner, *)
(* and the teardown marks, and releases, a server its invocation gave up   *)
(* long ago.  Every call works on reservations.json under a lock, but save *)
(* rewrites it in place: an invocation that dies there leaves an empty     *)
(* file, which load refuses from then on.                                  *)
(*                                                                         *)
(* Everything else of an invocation is in module NewAuto, where an entry   *)
(* may lapse at any time.                                                  *)
(***************************************************************************)
EXTENDS Integers, ReservationStore

CONSTANTS
  Proc,           \* invocations
  Key,            \* servers
  None,           \* no server
  ReserveTTL,     \* 10 minutes in the code
  UnsuitableTTL,  \* 30 minutes
  MaxClock        \* bound of the runs on the clock

ASSUME InstanceAssumption == NoInstance \notin Proc
ASSUME NoneAssumption == None \notin Key
ASSUME TTLAssumption ==
  ReserveTTL \in Nat \ {0} /\ UnsuitableTTL \in Nat /\ ReserveTTL <= UnsuitableTTL

VARIABLES
  now,     \* the clock
  resv,    \* reservations.json: entries with their expiry, expired ones too
  stage,   \* where an invocation is
  server,  \* its server: key in the attempt, resKey after it
  torn,    \* whether the file is empty, that is, no list at all
  until,   \* when its claim, or the mark it is about to release under, lapses
  late     \* history: invocations whose claim or mark lapsed under them

vars == <<now, resv, torn, stage, server, until, late>>

Stage == {"idle",       \* no server
          "holding",    \* between Reserve and MarkUnsuitable or Release
          "releasing",  \* between MarkUnsuitable and the Release after it
          "using",      \* in OpenCode: released, but resKey still set
          "done"}       \* gone

Entry == [key : Key, inst : Proc, unsuitable : {FALSE}, exp : Nat]
           \cup [key : Key, inst : {NoInstance}, unsuitable : {TRUE}, exp : Nat]

Claim(p, k) == [key |-> k, inst |-> p, unsuitable |-> FALSE, exp |-> now + ReserveTTL]
Mark(k)     == [key |-> k, inst |-> NoInstance, unsuitable |-> TRUE,
                exp |-> now + UnsuitableTTL]

\* The entries a reader takes into account.
Live == {x \in resv : x.exp > now}

TypeOK ==
  /\ now \in Nat
  /\ resv \in SUBSET Entry
  /\ torn \in BOOLEAN /\ (torn => resv = {})
  /\ stage \in [Proc -> Stage]
  /\ server \in [Proc -> Key \cup {None}]
  /\ until \in [Proc -> Nat]
  /\ late \in SUBSET Proc

Init ==
  /\ now = 0 /\ resv = {} /\ torn = FALSE
  /\ stage = [p \in Proc |-> "idle"]
  /\ server = [p \in Proc |-> None]
  /\ until = [p \in Proc |-> 0]
  /\ late = {}

Become(p, s, k, t) ==
  /\ stage' = [stage EXCEPT ![p] = s]
  /\ server' = [server EXCEPT ![p] = k]
  /\ until' = [until EXCEPT ![p] = t]

\* withLock: a list that cannot be loaded is not saved either; callers ignore it.
Save(list) == resv' = (IF torn THEN resv ELSE list) /\ UNCHANGED torn

\* Reserve gives p the server k.
CanTake(p, k) == ~torn /\ CanReserve(Live, k, p)

\* Mutant of Reserve: marks are overlooked.
ReserveMarked(p, k) ==
  /\ stage[p] = "idle"
  /\ ~torn /\ ~ReservedByOther(Live, k, p)
  /\ Save(Live \cup {Claim(p, k)})
  /\ Become(p, "holding", k, now + ReserveTTL)
  /\ UNCHANGED <<now, late>>

\* Reserve: drops what has expired, and claims the server.
Reserve(p, k) ==
  /\ stage[p] = "idle"
  /\ CanTake(p, k)
  /\ Save(Live \cup {Claim(p, k)})
  /\ Become(p, "holding", k, now + ReserveTTL)
  /\ UNCHANGED <<now, late>>

\* Mutant of Succeed: resKey is not set.
SucceedForgets(p) ==
  /\ stage[p] = "holding"
  /\ Save(WithoutClaims(resv, server[p]))
  /\ Become(p, "using", None, until[p])
  /\ UNCHANGED <<now, late>>

\* The attempt succeeds: Release, and on to OpenCode with resKey set.
Succeed(p) ==
  /\ stage[p] = "holding"
  /\ Save(WithoutClaims(resv, server[p]))
  /\ Become(p, "using", server[p], until[p])
  /\ UNCHANGED <<now, late>>

\* Key generation or a step of the setup fails: Release only.
GiveUp(p) ==
  /\ stage[p] = "holding"
  /\ Save(WithoutClaims(resv, server[p]))
  /\ \E s \in {"idle", "done"} : Become(p, s, None, until[p])
  /\ UNCHANGED <<now, late>>

\* MarkUnsuitable: of a server that yields no tunnel or an address already
\* taken, and, in the teardown, of the server of the VM that is destroyed,
\* which by then may have a new holder.
MarkUnsuitable(p) ==
  /\ stage[p] \in {"holding", "using"}
  /\ Save(WithMark(resv, server[p], Mark(server[p])))
  /\ Become(p, "releasing", server[p], now + UnsuitableTTL)
  /\ UNCHANGED <<now, late>>

\* Mutant of Release: marks go too.
ReleaseMarks(p) ==
  /\ stage[p] = "releasing"
  /\ Save({x \in resv : x.key # server[p]})
  /\ \E s \in {"idle", "done"} : Become(p, s, None, until[p])
  /\ UNCHANGED <<now, late>>

\* The Release that follows it, before the next attempt or the end.
Release(p) ==
  /\ stage[p] = "releasing"
  /\ Save(WithoutClaims(resv, server[p]))
  /\ \E s \in {"idle", "done"} : Become(p, s, None, until[p])
  /\ UNCHANGED <<now, late>>

\* Interrupted or killed: the claim stays.
Abandon(p) ==
  /\ stage[p] \notin {"idle", "done"}
  /\ Become(p, "done", None, until[p])
  /\ UNCHANGED <<now, resv, torn, late>>

\* Killed inside save, between the truncation of the file and the write.
Tear(p) ==
  /\ stage[p] # "done" /\ ~torn
  /\ stage[p] = "idle" => \E k \in Key : CanTake(p, k)
  /\ resv' = {} /\ torn' = TRUE
  /\ Become(p, "done", None, until[p])
  /\ UNCHANGED <<now, late>>

Overdue(p, t) == stage[p] \in {"holding", "releasing"} /\ until[p] <= t

Tick ==
  /\ now < MaxClock
  /\ now' = now + 1
  /\ late' = late \cup {p \in Proc : Overdue(p, now + 1)}
  /\ UNCHANGED <<resv, torn, stage, server, until>>

Next ==
  \/ \E p \in Proc :
       \/ \E k \in Key : Reserve(p, k)
       \/ Succeed(p) \/ GiveUp(p) \/ MarkUnsuitable(p) \/ Release(p) \/ Abandon(p)
       \/ Tear(p)
  \/ Tick

Spec == Init /\ [][Next]_vars

-----------------------------------------------------------------------------
\* As long as nobody has outlived a claim of its own, a server has one holder,
\* although teardowns mark and release servers that others hold by then: the
\* mark keeps everybody off for longer than the claim it drops would have.
\* A torn file adds no holder, since nothing can be reserved in it.
ExclusiveUnlessLate ==
  late = {} => \A p, q \in Proc :
    p # q /\ stage[p] = "holding" /\ stage[q] = "holding" => server[p] # server[q]

\* A server found unsuitable stays marked for the whole of UnsuitableTTL, by
\* every call that finds and leaves the file whole.
MarksLast ==
  [][~torn' => \A x \in resv : x.unsuitable /\ x.exp > now => x \in resv']_vars

\* reservations.go:24-26: a claim lapses with its TTL, however its holder died:
\* a server without a live entry can be reserved.  The code does not keep this.
CrashReleasesClaim ==
  \A p \in Proc, k \in Key :
    (\A x \in resv : x.key = k => x.exp <= now) => CanTake(p, k)
=============================================================================
