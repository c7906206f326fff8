------------------------- MODULE DeltaEncoder_proofs -------------------------
(***************************************************************************)
(* Proofs about the delta compression, for every fleet, every set of       *)
(* values and every tolerance.                                             *)
(***************************************************************************)
EXTENDS DeltaEncoder, TLAPS

LEMMA SnapshotIntro ==
  ASSUME NEW f, NEW S, S \subseteq Vehicle, f \in [S -> VehicleUpdate]
  PROVE  f \in Snapshot
BY DEF Snapshot

LEMMA SnapshotType ==
  ASSUME NEW f \in Snapshot
  PROVE  DOMAIN f \subseteq Vehicle /\ f \in [DOMAIN f -> VehicleUpdate]
<1>1. PICK S \in SUBSET Vehicle : f \in [S -> VehicleUpdate]
  BY DEF Snapshot
<1>2. DOMAIN f = S
  BY <1>1
<1> QED BY <1>1, <1>2

(* A delta names the vehicles that are new, that `changed` tells apart or  *)
(* that are gone, with their current value; applying it to anything with   *)
(* the domain of prev yields the domain of cur.                            *)
LEMMA ApplyEncode ==
  ASSUME NEW prev0 \in Snapshot, NEW cur \in Snapshot, NEW view \in Snapshot,
         DOMAIN view = DOMAIN prev0
  PROVE  LET d == Encode(prev0, cur)
             r == ApplyDelta(view, d)
         IN  /\ DOMAIN d.updates \subseteq DOMAIN cur
             /\ DOMAIN r = DOMAIN cur
             /\ \A v \in DOMAIN d.updates : r[v] = cur[v]
             /\ \A v \in DOMAIN cur \ DOMAIN d.updates :
                  /\ v \in DOMAIN prev0
                  /\ ~Changed(prev0[v], cur[v])
                  /\ r[v] = view[v]
             /\ r \in Snapshot
<1> DEFINE d == Encode(prev0, cur)
           r == ApplyDelta(view, d)
           U == {w \in DOMAIN cur : w \in DOMAIN prev0 => Changed(prev0[w], cur[w])}
<1>1. /\ DOMAIN d.updates = U
      /\ \A v \in U : d.updates[v] = cur[v]
      /\ d.removed = DOMAIN prev0 \ DOMAIN cur
  BY DEF Encode
<1>2. /\ DOMAIN r = (DOMAIN view \union U) \ d.removed
      /\ \A v \in DOMAIN r : r[v] = IF v \in U THEN cur[v] ELSE view[v]
      /\ r = [v \in DOMAIN r |-> r[v]]
  BY <1>1 DEF ApplyDelta
<1>3. DOMAIN r = DOMAIN cur
  BY <1>1, <1>2
<1> HIDE DEF d, r
<1>4. \A v \in U : r[v] = cur[v]
  BY <1>2, <1>3
<1>5. \A v \in DOMAIN cur \ U :
        v \in DOMAIN prev0 /\ ~Changed(prev0[v], cur[v]) /\ r[v] = view[v]
  BY <1>2, <1>3
<1>6. \A v \in DOMAIN r : r[v] \in VehicleUpdate
  <2>1. /\ cur \in [DOMAIN cur -> VehicleUpdate]
        /\ view \in [DOMAIN view -> VehicleUpdate]
    BY SnapshotType
  <2> QED BY <1>2, <1>3, <1>5, <2>1
<1>7. r \in Snapshot
  <2>1. r \in [DOMAIN cur -> VehicleUpdate]
    BY <1>2, <1>3, <1>6
  <2> QED BY <2>1, SnapshotIntro, SnapshotType
<1> QED BY <1>1, <1>3, <1>4, <1>5, <1>7 DEF d, r

(* The encoder and its consumer hold snapshots at all times.               *)
IInv == TypeOK /\ SameFleet /\ DriftBounded

LEMMA InitHolds == Init => IInv
<1> SUFFICES ASSUME Init PROVE IInv
  OBVIOUS
<1>1. prev = EmptySnapshot /\ replica = EmptySnapshot /\ DOMAIN EmptySnapshot = {}
  BY DEF Init, EmptySnapshot
<1>2. EmptySnapshot \in [{} -> VehicleUpdate]
  BY DEF EmptySnapshot
<1>3. EmptySnapshot \in Snapshot
  BY <1>2, SnapshotIntro
<1>4. quiet \in [{} -> Nat]
  BY DEF Init
<1> QED BY <1>1, <1>3, <1>4 DEF IInv, TypeOK, SameFleet, DriftBounded, Init

LEMMA StepKeeps ==
  ASSUME IInv, NEW cur \in Snapshot, Step(cur)
  PROVE  IInv'
<1> DEFINE d == Encode(prev, cur)
<1>1. /\ prev \in Snapshot /\ replica \in Snapshot
      /\ quiet \in [DOMAIN prev -> Nat] /\ encodes \in Nat
      /\ DOMAIN replica = DOMAIN prev
  BY DEF IInv, TypeOK, SameFleet
<1>2. /\ prev' = cur /\ replica' = ApplyDelta(replica, d) /\ encodes' = encodes + 1
      /\ quiet' = [v \in DOMAIN cur |->
                     IF v \in DOMAIN d.updates THEN 0 ELSE quiet[v] + 1]
  BY DEF Step
<1>3. /\ DOMAIN d.updates \subseteq DOMAIN cur
      /\ DOMAIN replica' = DOMAIN cur
      /\ \A v \in DOMAIN d.updates : replica'[v] = cur[v]
      /\ \A v \in DOMAIN cur \ DOMAIN d.updates :
           /\ v \in DOMAIN prev
           /\ ~Changed(prev[v], cur[v])
           /\ replica'[v] = replica[v]
      /\ replica' \in Snapshot
  BY <1>1, <1>2, ApplyEncode
<1> HIDE DEF d
<1>4. TypeOK'
  BY <1>1, <1>2, <1>3 DEF TypeOK
<1>5. SameFleet'
  <2> SUFFICES ASSUME NEW v \in DOMAIN cur PROVE replica'[v].tag = cur[v].tag
    BY <1>2, <1>3 DEF SameFleet
  <2>1. CASE v \in DOMAIN d.updates
    BY <1>3, <2>1
  <2>2. CASE v \notin DOMAIN d.updates
    BY <1>3, <2>2 DEF Changed, IInv, SameFleet
  <2> QED BY <2>1, <2>2
<1>6. DriftBounded'
  <2> SUFFICES ASSUME NEW v \in DOMAIN cur, NEW x \in Axis
               PROVE  Dist(replica'[v].pos[x], cur[v].pos[x]) <= Eps * quiet'[v]
    BY <1>2 DEF DriftBounded
  <2>1. /\ cur[v].pos[x] \in Int
        /\ v \in DOMAIN prev => prev[v].pos[x] \in Int
        /\ v \in DOMAIN prev => replica[v].pos[x] \in Int
    BY <1>1, SnapshotType, PosAssumption DEF VehicleUpdate
  <2>2. CASE v \in DOMAIN d.updates
    <3>1. replica'[v] = cur[v] /\ quiet'[v] = 0
      BY <1>2, <1>3, <2>2
    <3> QED BY <2>1, <3>1, EpsAssumption DEF Dist
  <2>3. CASE v \notin DOMAIN d.updates
    <3> DEFINE a == replica[v].pos[x]
               b == prev[v].pos[x]
               c == cur[v].pos[x]
               q == quiet[v]
    <3>1. v \in DOMAIN prev /\ replica'[v] = replica[v] /\ quiet'[v] = q + 1 /\ q \in Nat
      BY <1>1, <1>2, <1>3, <2>3
    <3>2. Dist(a, b) <= Eps * q
      BY <3>1 DEF IInv, DriftBounded
    <3>3. ~(Dist(b, c) > Eps)
      BY <1>3, <2>3 DEF Changed
    <3>4. a \in Int /\ b \in Int /\ c \in Int
      BY <2>1, <3>1
    <3> HIDE DEF a, b, c, q
    <3>5. Dist(a, c) <= Dist(a, b) + Dist(b, c)
      BY <3>4 DEF Dist
    <3>6. /\ Dist(a, b) \in Nat /\ Dist(b, c) \in Nat /\ Dist(a, c) \in Nat
          /\ Eps * q \in Nat
      BY <3>1, <3>4, EpsAssumption DEF Dist
    <3>7. Eps * (q + 1) = Eps * q + Eps
      BY <3>1, EpsAssumption
    <3>8. Dist(a, c) <= Eps * (q + 1)
      BY <3>2, <3>3, <3>5, <3>6, <3>7, EpsAssumption
    <3> QED BY <3>1, <3>8 DEF a, c
  <2> QED BY <2>2, <2>3
<1> QED BY <1>4, <1>5, <1>6 DEF IInv

LEMMA Inductive == Spec => []IInv
<1>1. IInv /\ [Next]_vars => IInv'
  <2> SUFFICES ASSUME IInv, [Next]_vars PROVE IInv'
    OBVIOUS
  <2>1. ASSUME NEW cur \in Snapshot, Step(cur) PROVE IInv'
    BY <2>1, StepKeeps
  <2>2. CASE UNCHANGED vars
    BY <2>2 DEF vars, IInv, TypeOK, SameFleet, DriftBounded
  <2> QED BY <2>1, <2>2 DEF Next, Finished
<1> QED BY <1>1, InitHolds, PTL DEF Spec

(* The encoder's state and the consumer's stay snapshots.                  *)
THEOREM TypeCorrect == Spec => []TypeOK
BY Inductive, PTL DEF IInv

(* No vehicle is invented, forgotten or left with an old trip.             *)
THEOREM FleetCorrect == Spec => []SameFleet
BY Inductive, PTL DEF IInv

(* The error of a replica is bounded by the quiet ticks.                   *)
THEOREM DriftCorrect == Spec => []DriftBounded
BY Inductive, PTL DEF IInv

(* With no tolerance, a consumer that missed no delta holds the encoder's  *)
(* last snapshot exactly.                                                  *)
THEOREM ExactWithoutTolerance == Spec => [](Eps = 0 => replica = prev)
<1>1. ASSUME Eps = 0, IInv PROVE replica = prev
  <2>1. /\ DOMAIN replica = DOMAIN prev
        /\ replica \in [DOMAIN replica -> VehicleUpdate]
        /\ prev \in [DOMAIN prev -> VehicleUpdate]
        /\ quiet \in [DOMAIN prev -> Nat]
    BY <1>1, SnapshotType DEF IInv, TypeOK, SameFleet
  <2>2. ASSUME NEW v \in DOMAIN prev PROVE replica[v] = prev[v]
    <3>1. /\ replica[v] \in VehicleUpdate /\ prev[v] \in VehicleUpdate
          /\ replica[v].tag = prev[v].tag
      BY <1>1, <2>1 DEF IInv, SameFleet
    <3>2. ASSUME NEW x \in Axis PROVE replica[v].pos[x] = prev[v].pos[x]
      <4>1. Dist(replica[v].pos[x], prev[v].pos[x]) <= 0
        BY <1>1, <2>1 DEF IInv, DriftBounded
      <4>2. replica[v].pos[x] \in Int /\ prev[v].pos[x] \in Int
        BY <3>1, PosAssumption DEF VehicleUpdate
      <4> QED BY <4>1, <4>2 DEF Dist
    <3>3. replica[v].pos = prev[v].pos
      BY <3>1, <3>2 DEF VehicleUpdate
    <3> QED BY <3>1, <3>3 DEF VehicleUpdate
  <2> QED BY <2>1, <2>2
<1>2. IInv => (Eps = 0 => replica = prev)
  BY <1>1
<1> QED BY <1>2, Inductive, PTL
==============================================================================
