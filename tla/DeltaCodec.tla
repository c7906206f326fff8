------------------------------ MODULE DeltaCodec ------------------------------
(***************************************************************************)
(* The delta compression of internal/broadcast/encoder.go, as functions of *)
(* two snapshots.  A snapshot maps the vehicles of the state manager to    *)
(* their VehicleUpdate.  Of an update only what `changed` tells apart is   *)
(* kept: tag stands for the fields compared exactly (TripID, RouteID,      *)
(* DelaySeconds), pos for the numeric ones (Lat, Lon, Bearing, Speed),     *)
(* counted in whole steps no larger than eps.                              *)
(***************************************************************************)
EXTENDS Integers

CONSTANTS
  Vehicle,  \* vehicle IDs
  Tag,      \* values of the fields compared exactly
  Axis,     \* the numeric fields
  Pos,      \* values of a numeric field
  Eps       \* the tolerance of `changed`, in steps

ASSUME PosAssumption == Pos \subseteq Int
ASSUME EpsAssumption == Eps \in Nat

VehicleUpdate == [tag : Tag, pos : [Axis -> Pos]]

Snapshot == UNION {[S -> VehicleUpdate] : S \in SUBSET Vehicle}

EmptySnapshot == [v \in {} |-> {}]

Dist(a, b) == IF a < b THEN b - a ELSE a - b

Changed_Reaching(a, b) ==
  \/ a.tag # b.tag
  \/ \E x \in Axis : Dist(a.pos[x], b.pos[x]) > Eps + 1

Changed(a, b) ==
  \/ a.tag # b.tag
  \/ \E x \in Axis : Dist(a.pos[x], b.pos[x]) > Eps

\* The IDs of a snapshot are the keys of a map, so each occurs once.
Encode_NoRemovals(prev, cur) ==
  [updates |-> [v \in {w \in DOMAIN cur :
                         w \in DOMAIN prev => Changed(prev[w], cur[w])} |-> cur[v]],
   removed |-> {}]

Encode_UnmarkedRemovals(prev, cur) ==
  [updates |-> [v \in (DOMAIN prev \ DOMAIN cur) \union
                      {w \in DOMAIN cur :
                         w \in DOMAIN prev => Changed(prev[w], cur[w])} |->
                  IF v \in DOMAIN cur THEN cur[v] ELSE [tag |-> "", pos |-> 0]],
   removed |-> {}]

Encode(prev, cur) ==
  [updates |-> [v \in {w \in DOMAIN cur :
                         w \in DOMAIN prev => Changed(prev[w], cur[w])} |-> cur[v]],
   removed |-> DOMAIN prev \ DOMAIN cur]

IsEmpty(delta) == DOMAIN delta.updates = {} /\ delta.removed = {}

Mentions(delta) == DOMAIN delta.updates \union delta.removed

\* What a consumer of the stream has to do with an update message: replace the
\* vehicles it names, forget the removed ones, keep the rest.  It replaces whole
\* records because Encode sends whole records, although types.go:9 announces zeros in
\* the fields that did not change: a consumer that took a zero for "unchanged" could
\* not tell a field that has become zero.
ApplyDelta(view, delta) ==
  [v \in (DOMAIN view \union DOMAIN delta.updates) \ delta.removed |->
     IF v \in DOMAIN delta.updates THEN delta.updates[v] ELSE view[v]]
==============================================================================
