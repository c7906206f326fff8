----------------------------- MODULE DeltaEncoder -----------------------------
(***************************************************************************)
(* DeltaEncoder (encoder.go) driven by arbitrary snapshots, and a consumer *)
(* that applies every delta.  Encode always replaces e.prev by the current *)
(* snapshot, also for the vehicles it leaves out of the delta: what the    *)
(* consumer holds and what the encoder compares with may drift apart.      *)
(***************************************************************************)
EXTENDS DeltaCodec

CONSTANT MaxEncodes  \* bound on the number of calls of Encode

ASSUME BoundAssumption == MaxEncodes \in Nat

VARIABLES
  prev,     \* DeltaEncoder.prev
  replica,  \* what a consumer that missed nothing holds
  quiet,    \* history: calls since the vehicle was last part of a delta
  encodes   \* number of calls

vars == <<prev, replica, quiet, encodes>>

Init ==
  /\ prev = EmptySnapshot
  /\ replica = EmptySnapshot
  /\ quiet = [v \in {} |-> 0]
  /\ encodes = 0

Step(cur) ==
  LET delta == Encode(prev, cur)
  IN  /\ encodes < MaxEncodes
      /\ encodes' = encodes + 1
      /\ prev' = cur
      /\ replica' = ApplyDelta(replica, delta)
      /\ quiet' = [v \in DOMAIN cur |->
                     IF v \in DOMAIN delta.updates THEN 0 ELSE quiet[v] + 1]

\* The bound is reached: the only way for the model to stop.
Finished == encodes = MaxEncodes /\ UNCHANGED vars

Next == (\E cur \in Snapshot : Step(cur)) \/ Finished

Spec == Init /\ [][Next]_vars

------------------------------------------------------------------------------
TypeOK ==
  /\ prev \in Snapshot
  /\ replica \in Snapshot
  /\ quiet \in [DOMAIN prev -> Nat]
  /\ encodes \in Nat

(* A consumer that applies every delta knows exactly the vehicles of the   *)
(* last snapshot, with their exact trip and route, however vehicles come,  *)
(* go and come back.                                                       *)
SameFleet ==
  /\ DOMAIN replica = DOMAIN prev
  /\ \A v \in DOMAIN prev : replica[v].tag = prev[v].tag

(* types.go:9, "Only changed fields are non-zero in delta mode": a field   *)
(* that is as it was in the last snapshot is zero in an update of a known  *)
(* vehicle.                                                                *)
OnlyChangedFields ==
  [][LET updates == Encode(prev, prev').updates
     IN  \A v \in DOMAIN prev \intersect DOMAIN updates : \A x \in Axis :
           updates[v].pos[x] = prev[v].pos[x] => updates[v].pos[x] = 0]_vars

(* A vehicle creeping by no more than eps a tick is never sent again: the  *)
(* consumer's position is off by at most eps for each tick the vehicle was *)
(* left out, and by nothing when it was in the last delta.                 *)
DriftBounded ==
  \A v \in DOMAIN prev : \A x \in Axis :
    Dist(replica[v].pos[x], prev[v].pos[x]) <= Eps * quiet[v]
==============================================================================
