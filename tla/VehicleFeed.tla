------------------------------ MODULE VehicleFeed ------------------------------
(***************************************************************************)
(* From the GTFS-RT feed to the map of vehicles: the poller and decoder    *)
(* (internal/realtime), the handler and the prune ticker of runServe, and  *)
(* DefaultStateManager (internal/vehicle/state.go).                        *)
(*                                                                         *)
(* Time is kept as ages: how many ticks ago a timestamp lies, negative for *)
(* one in the future, and Stale + 1 for anything older than the cutoff of  *)
(* Prune, so that the model needs no bound on the clock.  The filter and   *)
(* the snapper only change the payload and are left out.                   *)
(***************************************************************************)
EXTENDS Integers, Sequences

CONSTANTS
  Vehicle,  \* IDs of vehicles and of feed entities
  Payload,  \* the trip, route and position of an entity
  NoId,     \* an entity without a vehicle descriptor
  NoTime,   \* an entity without a timestamp
  Stale,    \* age beyond which Prune removes a vehicle (5 minutes)
  Skew,     \* how far in the future a feed may date an entity
  Feeds     \* the contents the feed may take

ASSUME StaleAssumption == Stale \in Nat /\ Skew \in Nat

Age == (-Skew)..(Stale + 1)

Entity ==
  [entity : Vehicle, vehicle : Vehicle \union {NoId}, hasPosition : BOOLEAN,
   time : Age \union {NoTime}, payload : Payload]

RawUpdate == [id : Vehicle, age : Age, payload : Payload]

ASSUME FeedsAssumption == Feeds \subseteq Seq(Entity)

VARIABLES
  feed,      \* what the feed URL serves
  poller,    \* where PollOnce stands
  response,  \* the body fetched
  batch,     \* the updates decoded from it
  next,      \* index in batch of the next call of Update
  vehicles,  \* DefaultStateManager.vehicles
  touched,   \* history: age of the last Update of each vehicle
  pruned     \* history: vehicles pruned since the current batch was decoded

vars == <<feed, poller, response, batch, next, vehicles, touched, pruned>>

Older(a) == IF a > Stale THEN a ELSE a + 1

Init ==
  /\ feed \in Feeds
  /\ poller = "waiting"
  /\ response = << >>
  /\ batch = << >>
  /\ next = 1
  /\ vehicles = [v \in {} |-> {}]
  /\ touched = [v \in Vehicle |-> Stale + 1]
  /\ pruned = {}

------------------------------------------------------------------------------
(* The world: the feed changes, and time passes for every timestamp.       *)

PublishFeed ==
  /\ feed' \in Feeds
  /\ UNCHANGED <<poller, response, batch, next, vehicles, touched, pruned>>

AgeEntity(e) == [e EXCEPT !.time = IF @ = NoTime THEN NoTime ELSE Older(@)]
AgeUpdate(u) == [u EXCEPT !.age = Older(@)]

Tick ==
  /\ feed' = [i \in DOMAIN feed |-> AgeEntity(feed[i])]
  /\ response' = [i \in DOMAIN response |-> AgeEntity(response[i])]
  /\ batch' = [i \in DOMAIN batch |-> AgeUpdate(batch[i])]
  /\ vehicles' = [v \in DOMAIN vehicles |-> AgeUpdate(vehicles[v])]
  /\ touched' = [v \in Vehicle |-> Older(touched[v])]
  /\ UNCHANGED <<poller, next, pruned>>

------------------------------------------------------------------------------
(* The poller.  The loop of Run calls PollOnce again only when it is back. *)

\* Fetch: the server answers; the body takes its time to arrive.
FetchOk ==
  /\ poller = "waiting"
  /\ response' = feed
  /\ poller' = "fetched"
  /\ UNCHANGED <<feed, batch, next, vehicles, touched, pruned>>

PollFails_ReplaysBatch ==
  /\ poller = "fetched"
  /\ poller' = "handling"
  /\ next' = 1
  /\ response' = << >>
  /\ UNCHANGED <<feed, batch, vehicles, touched, pruned>>

\* An error, a status other than 200, a timeout or a body that does not decode:
\* Run logs it and waits for the next tick.
PollFails ==
  /\ poller = "fetched"
  /\ poller' = "waiting"
  /\ response' = << >>
  /\ UNCHANGED <<feed, batch, next, vehicles, touched, pruned>>

ToUpdate_NoClock(e) ==
  [id |-> IF e.vehicle = NoId THEN e.entity ELSE e.vehicle,
   age |-> e.time,
   payload |-> e.payload]

\* The descriptor's ID, else the entity's; the feed's time, else now.
ToUpdate(e) ==
  [id |-> IF e.vehicle = NoId THEN e.entity ELSE e.vehicle,
   age |-> IF e.time = NoTime THEN 0 ELSE e.time,
   payload |-> e.payload]

HasPosition(e) == e.hasPosition

\* The updates of the first i entities; an entity without a position is skipped.
Decoded(body) ==
  LET updates[i \in 0..Len(body)] ==
        IF i = 0 THEN << >>
        ELSE IF HasPosition(body[i]) THEN Append(updates[i - 1], ToUpdate(body[i]))
        ELSE updates[i - 1]
  IN  updates

DecodeVehiclePositions(body) == Decoded(body)[Len(body)]

\* The handler is not called for an empty feed.
Decode ==
  /\ poller = "fetched"
  /\ batch' = DecodeVehiclePositions(response)
  /\ next' = 1
  /\ pruned' = {}
  /\ response' = << >>
  /\ poller' = IF batch' = << >> THEN "waiting" ELSE "handling"
  /\ UNCHANGED <<feed, vehicles, touched>>

------------------------------------------------------------------------------
(* The state manager.  Each Update and each Prune holds m.mu throughout;   *)
(* Prune, All and Get may come between two Updates of one batch.           *)

Update_KeepsNewer ==
  LET u == batch[next]
      keep == u.id \in DOMAIN vehicles /\ vehicles[u.id].age < u.age
  IN  /\ poller = "handling"
      /\ next <= Len(batch)
      /\ vehicles' = [v \in DOMAIN vehicles \union {u.id} |->
                        IF v = u.id /\ ~keep THEN u ELSE vehicles[v]]
      /\ touched' = [touched EXCEPT ![u.id] = 0]
      /\ next' = next + 1
      /\ UNCHANGED <<feed, poller, response, batch, pruned>>

Update ==
  LET u == batch[next]
  IN  /\ poller = "handling"
      /\ next <= Len(batch)
      /\ vehicles' = [v \in DOMAIN vehicles \union {u.id} |->
                        IF v = u.id THEN u ELSE vehicles[v]]
      /\ touched' = [touched EXCEPT ![u.id] = 0]
      /\ next' = next + 1
      /\ UNCHANGED <<feed, poller, response, batch, pruned>>

HandlerReturns ==
  /\ poller = "handling"
  /\ next > Len(batch)
  /\ poller' = "waiting"
  /\ UNCHANGED <<feed, response, batch, next, vehicles, touched, pruned>>

Outdated == {v \in DOMAIN vehicles : vehicles[v].age > Stale}

Prune ==
  /\ Outdated # {}
  /\ vehicles' = [v \in DOMAIN vehicles \ Outdated |-> vehicles[v]]
  /\ pruned' = pruned \union Outdated
  /\ UNCHANGED <<feed, poller, response, batch, next, touched>>

------------------------------------------------------------------------------
PollerStep == Decode \/ PollFails \/ Update \/ HandlerReturns

Next == PublishFeed \/ Tick \/ FetchOk \/ PollerStep \/ Prune

\* Time passes; a poll under way ends (Fetch has a timeout); the prune ticker
\* fires every minute.  Nothing makes a poll start or succeed.
Spec ==
  /\ Init
  /\ [][Next]_vars
  /\ WF_vars(Tick)
  /\ WF_vars(PollerStep)
  /\ WF_vars(Prune)

------------------------------------------------------------------------------
TypeOK ==
  /\ feed \in Seq(Entity)
  /\ poller \in {"waiting", "fetched", "handling"}
  /\ response \in Seq(Entity)
  /\ batch \in Seq(RawUpdate)
  /\ next \in 1..(Len(batch) + 1)
  /\ DOMAIN vehicles \subseteq Vehicle
  /\ \A v \in DOMAIN vehicles : vehicles[v] \in RawUpdate /\ vehicles[v].id = v
  /\ touched \in [Vehicle -> Age]
  /\ pruned \subseteq Vehicle

\* The handled part of the batch has nothing later for batch[i]'s vehicle.
LastFor(i) == \A j \in (i + 1)..(next - 1) : batch[j].id # batch[i].id

(* What has been handled of a poll's response is in the map as the feed    *)
(* gave it, the last entity for an ID winning, unless Prune came between:  *)
(* no older poll and no other vehicle gets in the way.                     *)
BatchApplied ==
  \A i \in 1..(next - 1) :
    LET v == batch[i].id
    IN  LastFor(i) => v \in pruned \/ (v \in DOMAIN vehicles /\ vehicles[v] = batch[i])

InFeed(v) ==
  \E i \in DOMAIN feed : HasPosition(feed[i]) /\ ToUpdate(feed[i]).id = v

(* A vehicle that leaves the feed for good is eventually forgotten for     *)
(* good, even when its last timestamp was in the future, and even if the   *)
(* last response that names it was still on its way.                       *)
GoneIsForgotten ==
  \A v \in Vehicle :
    <>[](~InFeed(v)) => <>[](v \notin DOMAIN vehicles)

(* "Prune removes vehicles not updated since the given cutoff time"        *)
(* (state.go:87): a vehicle the poller has updated since stays.            *)
PruneSparesUpdated ==
  [][\A v \in DOMAIN vehicles :
       v \notin DOMAIN vehicles' => touched[v] > Stale]_vars
==============================================================================
