--------------------------- MODULE VehicleFeed_proofs ---------------------------
(***************************************************************************)
(* For any feeds, vehicles and ages: what the decoder returns, the types,  *)
(* and that the map of vehicles holds what was handled of the last batch.  *)
(***************************************************************************)
EXTENDS VehicleFeed, InductionLemmas

(* An update made from an entity, and what it becomes as time passes.      *)
LEMMA ToUpdateType ==
  ASSUME NEW e \in Entity
  PROVE  ToUpdate(e) \in RawUpdate
BY StaleAssumption DEF Entity, ToUpdate, RawUpdate, Age

LEMMA OlderType ==
  ASSUME NEW a \in Age
  PROVE  Older(a) \in Age
BY StaleAssumption DEF Older, Age

LEMMA AgeEntityType ==
  ASSUME NEW e \in Entity
  PROVE  AgeEntity(e) \in Entity
BY OlderType DEF Entity, AgeEntity

LEMMA AgeUpdateType ==
  ASSUME NEW u \in RawUpdate
  PROVE  AgeUpdate(u) \in RawUpdate /\ AgeUpdate(u).id = u.id
BY OlderType DEF RawUpdate, AgeUpdate

------------------------------------------------------------------------------
\* One turn of the decoder's loop, on entity e.
Turn(u, e) == IF HasPosition(e) THEN Append(u, ToUpdate(e)) ELSE u

LEMMA TurnType ==
  ASSUME NEW u \in Seq(RawUpdate), NEW e \in Entity
  PROVE  Turn(u, e) \in Seq(RawUpdate)
BY ToUpdateType DEF Turn

\* g[i] is what the loop has collected after i entities, up to the n-th.
Collects(g, n, body) ==
  /\ g \in [0..n -> Seq(RawUpdate)]
  /\ g[0] = << >>
  /\ \A i \in 1..n : g[i] = Turn(g[i - 1], body[i])

LEMMA CollectsNext ==
  ASSUME NEW body \in Seq(Entity), NEW n \in 0..(Len(body) - 1), NEW g, Collects(g, n, body)
  PROVE  \E h : Collects(h, n + 1, body)
<1> DEFINE last == Turn(g[n], body[n + 1])
           h == [i \in 0..(n + 1) |-> IF i = n + 1 THEN last ELSE g[i]]
<1>1. g[n] \in Seq(RawUpdate) /\ body[n + 1] \in Entity
  BY DEF Collects
<1>2. last \in Seq(RawUpdate)
  BY <1>1, TurnType
<1>3. h[n + 1] = last /\ \A i \in 0..n : h[i] = g[i]
  OBVIOUS
<1>4. \A i \in 0..n : h[i] \in Seq(RawUpdate)
  BY <1>3 DEF Collects
<1> HIDE DEF last
<1>5. h \in [0..(n + 1) -> Seq(RawUpdate)]
  <2>1. ASSUME NEW i \in 0..(n + 1)
        PROVE  (IF i = n + 1 THEN last ELSE g[i]) \in Seq(RawUpdate)
    <3>1. CASE i = n + 1
      BY <1>2, <3>1
    <3>2. CASE i # n + 1
      <4>1. i \in 0..n
        BY <3>2
      <4>2. QED
        BY <3>2, <4>1 DEF Collects
    <3>3. QED
      BY <3>1, <3>2
  <2>2. QED
    BY <2>1
<1> HIDE DEF h
<1>6. \A i \in 1..n : h[i] = Turn(h[i - 1], body[i])
  <2>1. TAKE i \in 1..n
  <2>2. i \in 0..n /\ i - 1 \in 0..n
    OBVIOUS
  <2>3. g[i] = Turn(g[i - 1], body[i])
    BY DEF Collects
  <2>4. QED
    BY <1>3, <2>2, <2>3
<1>7. h[n + 1] = Turn(h[n], body[n + 1])
  BY <1>3 DEF last
<1>8. \A i \in 1..(n + 1) : h[i] = Turn(h[i - 1], body[i])
  <2>1. TAKE i \in 1..(n + 1)
  <2>2. CASE i = n + 1
    <3>1. i - 1 = n
      BY <2>2
    <3>2. QED
      BY <1>7, <2>2, <3>1
  <2>3. CASE i \in 1..n
    BY <1>6, <2>3
  <2>4. QED
    BY <2>2, <2>3
<1>9. h[0] = << >>
  BY <1>3 DEF Collects
<1>10. QED
  BY <1>5, <1>8, <1>9 DEF Collects

(* The loop has a result, whatever the length of the body.                 *)
LEMMA DecodedExists ==
  ASSUME NEW body \in Seq(Entity)
  PROVE  \E g : Collects(g, Len(body), body)
<1> DEFINE P == {n \in Nat : \E g : Collects(g, n, body)}
<1>1. 0 \in P
  <2>1. Collects([i \in 0..0 |-> << >>], 0, body)
    BY DEF Collects
  <2>2. QED
    BY <2>1
<1>2. \A n \in 0..(Len(body) - 1) : n \in P => n + 1 \in P
  BY CollectsNext
<1>3. Len(body) \in P => \E g : Collects(g, Len(body), body)
  OBVIOUS
<1>4. Len(body) \in Nat /\ Len(body) \in 0..Len(body)
  OBVIOUS
<1> HIDE DEF P
<1>5. 0..Len(body) \subseteq P
  BY <1>1, <1>2, <1>4, IntervalInduction
<1>6. QED
  BY <1>3, <1>4, <1>5

Recursion(g, body) ==
  [i \in 0..Len(body) |-> IF i = 0 THEN << >> ELSE Turn(g[i - 1], body[i])]

(* What the loop computes, turn by turn.                                   *)
LEMMA DecodedTurns ==
  ASSUME NEW body \in Seq(Entity)
  PROVE  Collects(Decoded(body), Len(body), body)
<1> DEFINE D == CHOOSE g : g = Recursion(g, body)
<1>1. Decoded(body) = D
  BY DEF Decoded, Recursion, Turn
<1>2. PICK g : Collects(g, Len(body), body)
  BY DecodedExists
<1>3. g = Recursion(g, body)
  <2>1. DOMAIN g = 0..Len(body) /\ g = [i \in 0..Len(body) |-> g[i]]
    BY <1>2 DEF Collects
  <2>2. \A i \in 0..Len(body) : g[i] = IF i = 0 THEN << >> ELSE Turn(g[i - 1], body[i])
    BY <1>2 DEF Collects
  <2>3. QED
    BY <2>1, <2>2 DEF Recursion
<1>4. D = Recursion(D, body)
  BY <1>3
<1> HIDE DEF D
<1>5. /\ D = [i \in 0..Len(body) |-> D[i]]
      /\ D[0] = << >>
      /\ \A i \in 1..Len(body) : D[i] = Turn(D[i - 1], body[i])
  <2>1. \A i \in 0..Len(body) : D[i] = IF i = 0 THEN << >> ELSE Turn(D[i - 1], body[i])
    BY <1>4 DEF Recursion
  <2>2. D = [i \in 0..Len(body) |-> D[i]]
    BY <1>4 DEF Recursion
  <2>3. 0 \in 0..Len(body) /\ \A i \in 1..Len(body) : i \in 0..Len(body) /\ i # 0
    OBVIOUS
  <2>4. QED
    BY <2>1, <2>2, <2>3
<1> DEFINE P == {i \in Nat : D[i] \in Seq(RawUpdate)}
<1>6. 0 \in P
  <2>1. << >> \in Seq(RawUpdate)
    OBVIOUS
  <2>2. QED
    BY <1>5, <2>1
<1>7. ASSUME NEW k \in 0..(Len(body) - 1), k \in P
      PROVE  k + 1 \in P
  <2>1. D[k + 1] = Turn(D[k], body[k + 1])
    <3>1. k + 1 \in 1..Len(body) /\ (k + 1) - 1 = k
      OBVIOUS
    <3>2. QED
      BY <1>5, <3>1
  <2>2. D[k] \in Seq(RawUpdate) /\ body[k + 1] \in Entity
    BY <1>7
  <2>3. D[k + 1] \in Seq(RawUpdate)
    BY <2>1, <2>2, TurnType
  <2>4. QED
    BY <2>3
<1>8. \A i \in P : D[i] \in Seq(RawUpdate)
  OBVIOUS
<1>9. Len(body) \in Nat
  OBVIOUS
<1> HIDE DEF P
<1>10. 0..Len(body) \subseteq P
  BY <1>6, <1>7, <1>9, IntervalInduction
<1>11. D \in [0..Len(body) -> Seq(RawUpdate)]
  BY <1>5, <1>8, <1>10
<1>12. QED
  BY <1>1, <1>5, <1>11 DEF Collects

LEMMA DecodeType ==
  ASSUME NEW body \in Seq(Entity)
  PROVE  DecodeVehiclePositions(body) \in Seq(RawUpdate)
<1>1. Decoded(body) \in [0..Len(body) -> Seq(RawUpdate)]
  BY DecodedTurns DEF Collects
<1>2. QED
  BY <1>1 DEF DecodeVehiclePositions

Members(s) == {s[j] : j \in 1..Len(s)}

Located(body, n) == {ToUpdate(body[k]) : k \in {i \in 1..n : HasPosition(body[i])}}

LEMMA TurnMembers ==
  ASSUME NEW body \in Seq(Entity), NEW n \in 1..Len(body), NEW u \in Seq(RawUpdate),
         Members(u) = Located(body, n - 1)
  PROVE  Members(Turn(u, body[n])) = Located(body, n)
<1>1. CASE HasPosition(body[n])
  <2> DEFINE e == ToUpdate(body[n])
  <2>1. e \in RawUpdate
    BY ToUpdateType
  <2>2. Turn(u, body[n]) = Append(u, e)
    BY <1>1 DEF Turn
  <2>3. Located(body, n) = Located(body, n - 1) \union {e}
    BY <1>1 DEF Located
  <2> HIDE DEF e
  <2>4. Members(Append(u, e)) = Members(u) \union {e}
    <3> DEFINE t == Append(u, e)
    <3>1. /\ Len(t) = Len(u) + 1
          /\ \A j \in 1..Len(u) : t[j] = u[j]
          /\ t[Len(u) + 1] = e
      BY <2>1
    <3> HIDE DEF t
    <3>2. Members(t) \subseteq Members(u) \union {e}
      BY <3>1 DEF Members
    <3>3. Members(u) \union {e} \subseteq Members(t)
      BY <3>1 DEF Members
    <3>4. QED
      BY <3>2, <3>3 DEF t
  <2>5. QED
    BY <2>2, <2>3, <2>4
<1>2. CASE ~HasPosition(body[n])
  <2>1. Located(body, n) = Located(body, n - 1)
    BY <1>2 DEF Located
  <2>2. QED
    BY <1>2, <2>1 DEF Turn
<1>3. QED
  BY <1>1, <1>2

(* The decoder loses no entity that has a position and invents none: its   *)
(* updates are those of the entities of the body that have one.            *)
THEOREM DecodeKeepsLocated ==
  ASSUME NEW body \in Seq(Entity)
  PROVE  Members(DecodeVehiclePositions(body)) = Located(body, Len(body))
<1> DEFINE D == Decoded(body)
           P == {i \in Nat : Members(D[i]) = Located(body, i)}
<1>1. Collects(D, Len(body), body)
  BY DecodedTurns
<1> HIDE DEF D
<1>2. 0 \in P
  <2>1. Members(<< >>) = {} /\ Located(body, 0) = {}
    BY DEF Members, Located
  <2>2. QED
    BY <1>1, <2>1 DEF Collects
<1>3. ASSUME NEW k \in 0..(Len(body) - 1), k \in P
      PROVE  k + 1 \in P
  <2>1. k + 1 \in 1..Len(body) /\ (k + 1) - 1 = k
    OBVIOUS
  <2>2. D[k] \in Seq(RawUpdate) /\ D[k + 1] = Turn(D[k], body[k + 1])
    BY <1>1, <2>1 DEF Collects
  <2>3. Members(D[k]) = Located(body, k)
    BY <1>3
  <2>4. Members(D[k + 1]) = Located(body, k + 1)
    BY <2>1, <2>2, <2>3, TurnMembers
  <2>5. QED
    BY <2>4
<1>4. \A i \in P : Members(D[i]) = Located(body, i)
  OBVIOUS
<1>5. Len(body) \in Nat /\ Len(body) \in 0..Len(body)
  OBVIOUS
<1> HIDE DEF P
<1>6. 0..Len(body) \subseteq P
  BY <1>2, <1>3, <1>5, IntervalInduction
<1>7. QED
  BY <1>4, <1>5, <1>6 DEF DecodeVehiclePositions, D

------------------------------------------------------------------------------
LEMMA InitTypes == Init => TypeOK
BY FeedsAssumption, StaleAssumption DEF Init, TypeOK, Age

\* t has the length of s and its elements are in T.
LEMMA PointwiseSeq ==
  ASSUME NEW S, NEW T, NEW s \in Seq(S), NEW t,
         t = [i \in DOMAIN s |-> t[i]],
         \A i \in DOMAIN s : t[i] \in T
  PROVE  t \in Seq(T) /\ Len(t) = Len(s)
<1>1. DOMAIN s = 1..Len(s) /\ Len(s) \in Nat
  OBVIOUS
<1>2. t \in [1..Len(s) -> T]
  BY <1>1
<1>3. QED
  BY <1>1, <1>2

LEMMA TickTypes ==
  ASSUME TypeOK, Tick
  PROVE  TypeOK'
<1>1. feed' \in Seq(Entity) /\ response' \in Seq(Entity)
  <2>1. feed \in Seq(Entity) /\ response \in Seq(Entity)
    BY DEF TypeOK
  <2>2. /\ \A i \in DOMAIN feed : feed[i] \in Entity
        /\ \A i \in DOMAIN response : response[i] \in Entity
    BY <2>1
  <2>3. /\ feed' = [i \in DOMAIN feed |-> AgeEntity(feed[i])]
        /\ response' = [i \in DOMAIN response |-> AgeEntity(response[i])]
    BY DEF Tick
  <2>4. /\ \A i \in DOMAIN feed : feed'[i] \in Entity
        /\ \A i \in DOMAIN response : response'[i] \in Entity
    BY <2>2, <2>3, AgeEntityType
  <2>5. /\ feed' = [i \in DOMAIN feed |-> feed'[i]]
        /\ response' = [i \in DOMAIN response |-> response'[i]]
    BY <2>3
  <2>6. QED
    BY <2>1, <2>4, <2>5, PointwiseSeq
<1>2. batch' \in Seq(RawUpdate) /\ Len(batch') = Len(batch)
  <2>1. batch \in Seq(RawUpdate) /\ \A i \in DOMAIN batch : batch[i] \in RawUpdate
    BY DEF TypeOK
  <2>2. batch' = [i \in DOMAIN batch |-> AgeUpdate(batch[i])]
    BY DEF Tick
  <2>3. \A i \in DOMAIN batch : batch'[i] \in RawUpdate
    BY <2>1, <2>2, AgeUpdateType
  <2>4. batch' = [i \in DOMAIN batch |-> batch'[i]]
    BY <2>2
  <2>5. QED
    BY <2>1, <2>3, <2>4, PointwiseSeq
<1>3. /\ DOMAIN vehicles' \subseteq Vehicle
      /\ \A v \in DOMAIN vehicles' : vehicles'[v] \in RawUpdate /\ vehicles'[v].id = v
  BY AgeUpdateType DEF TypeOK, Tick
<1>4. touched' \in [Vehicle -> Age]
  BY OlderType DEF TypeOK, Tick
<1>5. QED
  BY <1>1, <1>2, <1>3, <1>4 DEF TypeOK, Tick

LEMMA UpdateTypes ==
  ASSUME TypeOK, Update
  PROVE  TypeOK'
<1> DEFINE u == batch[next]
<1>1. u \in RawUpdate /\ u.id \in Vehicle
  <2>1. batch \in Seq(RawUpdate) /\ next \in 1..Len(batch)
    BY DEF TypeOK, Update
  <2>2. u \in RawUpdate
    BY <2>1
  <2>3. QED
    BY <2>2 DEF RawUpdate
<1>2. /\ vehicles' = [v \in DOMAIN vehicles \union {u.id} |->
                        IF v = u.id THEN u ELSE vehicles[v]]
      /\ touched' = [touched EXCEPT ![u.id] = 0]
      /\ next' = next + 1 /\ next <= Len(batch)
      /\ UNCHANGED <<feed, poller, response, batch, pruned>>
  BY DEF Update
<1> HIDE DEF u
<1>3. /\ DOMAIN vehicles' \subseteq Vehicle
      /\ \A v \in DOMAIN vehicles' : vehicles'[v] \in RawUpdate /\ vehicles'[v].id = v
  BY <1>1, <1>2 DEF TypeOK
<1>4. touched' \in [Vehicle -> Age]
  BY <1>1, <1>2, StaleAssumption DEF TypeOK, Age
<1>5. (next \in 1..(Len(batch) + 1))'
  BY <1>2 DEF TypeOK
<1>6. QED
  BY <1>2, <1>3, <1>4, <1>5 DEF TypeOK

LEMMA NextTypes ==
  ASSUME TypeOK, [Next]_vars
  PROVE  TypeOK'
<1>1. CASE PublishFeed
  BY <1>1, FeedsAssumption DEF PublishFeed, TypeOK
<1>2. CASE Tick
  BY <1>2, TickTypes
<1>3. CASE FetchOk
  BY <1>3 DEF FetchOk, TypeOK
<1>4. CASE Decode
  <2>1. batch' \in Seq(RawUpdate)
    BY <1>4, DecodeType DEF Decode, TypeOK
  <2>2. poller' \in {"waiting", "handling"}
    BY <1>4 DEF Decode
  <2>3. QED
    BY <1>4, <2>1, <2>2 DEF Decode, TypeOK
<1>5. CASE PollFails
  BY <1>5 DEF PollFails, TypeOK
<1>6. CASE Update
  BY <1>6, UpdateTypes
<1>7. CASE HandlerReturns
  BY <1>7 DEF HandlerReturns, TypeOK
<1>8. CASE Prune
  BY <1>8 DEF Prune, Outdated, TypeOK
<1>9. CASE UNCHANGED vars
  BY <1>9 DEF vars, TypeOK
<1>10. QED
  BY <1>1, <1>2, <1>3, <1>4, <1>5, <1>6, <1>7, <1>8, <1>9 DEF Next, PollerStep

(* Every variable keeps its type; the map holds each vehicle under its ID. *)
THEOREM TypeCorrect == Spec => []TypeOK
<1>1. TypeOK /\ [Next]_vars => TypeOK'
  BY NextTypes
<1>2. QED
  BY <1>1, InitTypes, PTL DEF Spec

------------------------------------------------------------------------------
LEMMA TickApplies ==
  ASSUME TypeOK, BatchApplied, Tick
  PROVE  BatchApplied'
<1>1. SUFFICES ASSUME NEW i \in 1..(next' - 1), LastFor(i)'
               PROVE  (\/ batch[i].id \in pruned
                       \/ batch[i].id \in DOMAIN vehicles /\ vehicles[batch[i].id] = batch[i])'
  BY DEF BatchApplied
<1>2. i \in 1..(next - 1) /\ 1..(next - 1) \subseteq DOMAIN batch /\ next' = next /\ next \in Nat
  BY DEF Tick, TypeOK
<1>3. \A j \in DOMAIN batch : batch'[j] = AgeUpdate(batch[j]) /\ batch'[j].id = batch[j].id
  BY AgeUpdateType DEF Tick, TypeOK
<1>4. LastFor(i)
  <2>1. \A j \in (i + 1)..(next - 1) : batch'[j].id # batch'[i].id
    BY <1>1, <1>2 DEF LastFor
  <2>2. \A j \in (i + 1)..(next - 1) : j \in DOMAIN batch
    BY <1>2
  <2>3. QED
    BY <1>2, <1>3, <2>1, <2>2 DEF LastFor
<1>5. \A v \in DOMAIN vehicles : v \in DOMAIN vehicles' /\ vehicles'[v] = AgeUpdate(vehicles[v])
  BY DEF Tick
<1>6. /\ pruned' = pruned
      /\ batch'[i] = AgeUpdate(batch[i]) /\ batch'[i].id = batch[i].id
  BY <1>2, <1>3 DEF Tick
<1>7. QED
  BY <1>2, <1>4, <1>5, <1>6 DEF BatchApplied

LEMMA UpdateApplies ==
  ASSUME TypeOK, BatchApplied, Update
  PROVE  BatchApplied'
<1> DEFINE u == batch[next]
<1>1. /\ vehicles' = [v \in DOMAIN vehicles \union {u.id} |->
                        IF v = u.id THEN u ELSE vehicles[v]]
      /\ next' = next + 1
      /\ UNCHANGED <<batch, pruned>>
  BY DEF Update
<1>2. SUFFICES ASSUME NEW i \in 1..(next' - 1), LastFor(i)'
               PROVE  (\/ batch[i].id \in pruned
                       \/ batch[i].id \in DOMAIN vehicles /\ vehicles[batch[i].id] = batch[i])'
  BY DEF BatchApplied
<1>3. i \in 1..next /\ next \in Nat
  BY <1>1 DEF TypeOK
<1>4. CASE i = next
  BY <1>1, <1>4
<1>5. CASE i \in 1..(next - 1)
  <2>1. \A j \in (i + 1)..next : batch[j].id # batch[i].id
    BY <1>1, <1>2, <1>3 DEF LastFor
  <2>2. u.id # batch[i].id
    BY <1>3, <1>5, <2>1
  <2>3. LastFor(i)
    BY <1>3, <2>1 DEF LastFor
  <2>4. QED
    BY <1>1, <1>5, <2>2, <2>3 DEF BatchApplied
<1>6. QED
  BY <1>3, <1>4, <1>5

(* What has been handled of a response is in the map, the last entity of   *)
(* a vehicle winning, unless a Prune came between; whatever the length of  *)
(* the response and however polls, Prunes and time interleave.             *)
THEOREM BatchStaysApplied == Spec => []BatchApplied
<1>1. Init => BatchApplied
  BY DEF Init, BatchApplied
<1>2. TypeOK /\ BatchApplied /\ [Next]_vars => BatchApplied'
  <2> SUFFICES ASSUME TypeOK, BatchApplied, [Next]_vars
               PROVE  BatchApplied'
    OBVIOUS
  <2>1. CASE PublishFeed
    BY <2>1 DEF PublishFeed, BatchApplied, LastFor
  <2>2. CASE Tick
    BY <2>2, TickApplies
  <2>3. CASE FetchOk
    BY <2>3 DEF FetchOk, BatchApplied, LastFor
  <2>4. CASE Decode
    BY <2>4 DEF Decode, BatchApplied
  <2>5. CASE PollFails
    BY <2>5 DEF PollFails, BatchApplied, LastFor
  <2>6. CASE Update
    BY <2>6, UpdateApplies
  <2>7. CASE HandlerReturns
    BY <2>7 DEF HandlerReturns, BatchApplied, LastFor
  <2>8. CASE Prune
    BY <2>8 DEF Prune, Outdated, BatchApplied, LastFor
  <2>9. CASE UNCHANGED vars
    BY <2>9 DEF vars, BatchApplied, LastFor
  <2>10. QED
    BY <2>1, <2>2, <2>3, <2>4, <2>5, <2>6, <2>7, <2>8, <2>9 DEF Next, PollerStep
<1>3. QED
  BY <1>1, <1>2, TypeCorrect, PTL DEF Spec
==============================================================================
