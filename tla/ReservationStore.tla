-------------------------- MODULE ReservationStore --------------------------
EXTENDS Integers

(***************************************************************************)
(* The operations of vpn.ReservationStore (internal/vpn/reservations.go),  *)
(* as functions from the list a call reads to the list it saves.  Every    *)
(* writing call is one step for its users: withLock holds an exclusive     *)
(* flock from the load to the save.                                        *)
(*                                                                         *)
(* A list is a set of entries with the fields                              *)
(*   key         country:station of a WireGuard server                     *)
(*   inst        the instance that claimed it (NoInstance in a mark)       *)
(*   unsuitable  TRUE in a mark, FALSE in a claim                          *)
(* and whatever a user adds: the expiry, in ReservationProtocol; who made  *)
(* a mark, in VpnClient, as the JSON array keeps two marks of a server     *)
(* apart, and a set would not.  (NewAuto, which asks only whether there is *)
(* a mark, lets the set merge them: a merged one counts as long as any.)   *)
(* The order of the array matters to no operation.  "list" stands for the  *)
(* entries that have not expired: each reader filters on ExpiresAt.        *)
(***************************************************************************)

\* InstanceID -1, the owner of every unsuitability mark.
NoInstance == -1

\* IsReservedByOther: somebody else's claim covers the server.
ReservedByOther(list, k, i) ==
  \E x \in list : x.key = k /\ ~x.unsuitable /\ x.inst # i

\* IsUnsuitable: the server carries a mark.
Unsuitable(list, k) == \E x \in list : x.key = k /\ x.unsuitable

\* Reserve refuses a server that is marked or that another instance claims;
\* an instance may claim again what it holds already.
CanReserve(list, k, i) == ~Unsuitable(list, k) /\ ~ReservedByOther(list, k, i)

\* Release drops every claim on the server, WHOEVER made it, and no mark.
WithoutClaims(list, k) == {x \in list : x.key # k \/ x.unsuitable}

\* MarkUnsuitable drops every claim on the server and adds a mark to those the
\* server has.
WithMark(list, k, mark) == WithoutClaims(list, k) \cup {mark}
=============================================================================
