-------------------------------- MODULE Tracker --------------------------------
(***************************************************************************)
(* The broadcast loop of runServe (cmd/tracker/main.go) between the state  *)
(* manager and the hub, and what a connected consumer makes of the stream. *)
(*                                                                         *)
(* The state manager is reduced to its map: vehicles change at any time,   *)
(* by an Update or a Prune.  The hub and its connections are WSHub, whose  *)
(* n-th payload is log[n].  The consumer is not part of the repository: it *)
(* opens the WebSocket, applies every delta it reads, and may fetch        *)
(* GET /api/vehicles once, at any time, to hydrate its view.  The response *)
(* has a connection of its own: deltas overtake it, and it overtakes them. *)
(***************************************************************************)
EXTENDS WSHub, DeltaCodec

CONSTANTS
  MaxChanges,   \* bound on the changes of the state manager's map
  OtherClients  \* the hub also has clients outside Client all the time

\* Each non-empty delta takes a change, so the bound on Broadcasts never binds.
ASSUME ChangesAssumption == MaxChanges \in Nat /\ MaxBroadcasts >= MaxChanges
ASSUME OthersAssumption == OtherClients \in BOOLEAN

VARIABLES
  vehicles,  \* DefaultStateManager.vehicles, as StateToUpdate shows it
  changes,   \* number of changes of vehicles so far
  loop,      \* where the broadcast loop stands
  prev,      \* DeltaEncoder.prev
  delta,     \* the delta in hand of the loop
  log,       \* the payloads broadcast
  view,      \* what each consumer holds
  fetch,     \* how far the consumer's GET /api/vehicles is
  answer,    \* the response under way
  known,     \* history: the vehicles the stream vouches for in view
  vouched    \* history: those it vouches for in answer

loopVars == <<loop, prev, delta, log>>
viewVars == <<view, fetch, answer, known, vouched>>
feedVars == <<vehicles, changes>>
allVars == <<vars, feedVars, loopVars, viewVars>>

NoDelta == [updates |-> EmptySnapshot, removed |-> {}]

\* a and b agree on v: both have it or both do not, with the same tag and, where no
\* difference is within the tolerance of `changed`, the same numbers.
AgreeOn(v, a, b) ==
  /\ v \in DOMAIN a <=> v \in DOMAIN b
  /\ v \in DOMAIN a => a[v].tag = b[v].tag /\ (Eps = 0 => a[v].pos = b[v].pos)

TrackerInit ==
  /\ Init
  /\ vehicles = EmptySnapshot
  /\ changes = 0
  /\ loop = "idle"
  /\ prev = EmptySnapshot
  /\ delta = NoDelta
  /\ log = << >>
  /\ view = [c \in Client |-> EmptySnapshot]
  /\ fetch = [c \in Client |-> "none"]
  /\ answer = [c \in Client |-> EmptySnapshot]
  /\ known = [c \in Client |-> {}]
  /\ vouched = [c \in Client |-> {}]

------------------------------------------------------------------------------
(* The state manager, from the poller and the prune ticker.                *)

UpdateVehicle(v, u) ==
  /\ changes < MaxChanges
  /\ v \in DOMAIN vehicles => vehicles[v] # u
  /\ vehicles' = [w \in DOMAIN vehicles \union {v} |->
                    IF w = v THEN u ELSE vehicles[w]]
  /\ changes' = changes + 1
  /\ UNCHANGED <<vars, loopVars, viewVars>>

PruneVehicles(S) ==
  /\ changes < MaxChanges
  /\ S # {}
  /\ vehicles' = [w \in DOMAIN vehicles \ S |-> vehicles[w]]
  /\ changes' = changes + 1
  /\ UNCHANGED <<vars, loopVars, viewVars>>

------------------------------------------------------------------------------
(* The broadcast loop.                                                     *)

\* The ticker fires and ClientCount is not 0; when it is 0 the loop continues
\* with prev as it was.
Tick ==
  /\ loop = "idle"
  /\ clients # {} \/ OtherClients
  /\ loop' = "encode"
  /\ UNCHANGED <<vars, feedVars, prev, delta, log, viewVars>>

EncodeTick_SkipsRemovals ==
  LET d == Encode(prev, vehicles)
  IN  /\ loop = "encode"
      /\ prev' = vehicles
      /\ delta' = IF DOMAIN d.updates = {} THEN NoDelta ELSE d
      /\ loop' = IF DOMAIN d.updates = {} THEN "idle" ELSE "send"
      /\ UNCHANGED <<vars, feedVars, log, viewVars>>

EncodeTick_ReturnsWhenEmpty ==
  LET d == Encode(prev, vehicles)
  IN  /\ loop = "encode"
      /\ prev' = vehicles
      /\ delta' = d
      /\ loop' = IF IsEmpty(d) THEN "returned" ELSE "send"
      /\ UNCHANGED <<vars, feedVars, log, viewVars>>

\* All, StateToUpdate and Encode: one look at the map, the rest is local to the
\* loop.  An empty delta is not broadcast.
EncodeTick ==
  LET d == Encode(prev, vehicles)
  IN  /\ loop = "encode"
      /\ prev' = vehicles
      /\ delta' = d
      /\ loop' = IF IsEmpty(d) THEN "idle" ELSE "send"
      /\ UNCHANGED <<vars, feedVars, log, viewVars>>

\* hub.Broadcast.  A consumer that has fetched but whose handler has not called
\* Register yet is not among the clients: it misses this delta, and the stream
\* no longer vouches for what the delta mentions.
Publish ==
  /\ loop = "send"
  /\ BroadcastStart
  /\ loop' = "sending"
  /\ log' = Append(log, delta)
  /\ delta' = NoDelta
  /\ known' = [c \in Client |->
                 IF c \in clients THEN known[c] ELSE known[c] \ Mentions(delta)]
  /\ vouched' = [c \in Client |->
                   IF c \in clients THEN vouched[c] ELSE vouched[c] \ Mentions(delta)]
  /\ UNCHANGED <<feedVars, prev, view, fetch, answer>>

PublishEnd ==
  /\ loop = "sending"
  /\ BroadcastEnd
  /\ loop' = "idle"
  /\ UNCHANGED <<feedVars, prev, delta, log, viewVars>>

\* Send to c takes its default case and discards the delta.
Overflows(c) == Len(sendCh[c]) = Cap /\ ~done[c]

SendToOne(c) ==
  LET missed == IF Overflows(c) THEN Mentions(log[published]) ELSE {}
  IN  /\ BroadcastSend(c)
      /\ known' = [known EXCEPT ![c] = @ \ missed]
      /\ vouched' = [vouched EXCEPT ![c] = @ \ missed]
      /\ UNCHANGED <<feedVars, loopVars, view, fetch, answer>>

------------------------------------------------------------------------------
(* The connections, and the consumers at their other end.                  *)

\* Of what the n-th delta mentions, what c missed no later delta about.
StillNews(c, n) ==
  {v \in Mentions(log[n]) : \A m \in dropped[c] : n < m => v \notin Mentions(log[m])}

\* The consumer takes the delta's word.  A response under way will overwrite it, so
\* the stream vouches for the response only where the two agree.
Deliver(c) ==
  LET d == log[inFlight[c]]
      news == StillNews(c, inFlight[c])
  IN  /\ PumpWriteOk(c)
      /\ view' = [view EXCEPT ![c] = ApplyDelta(@, d)]
      /\ known' = [known EXCEPT ![c] = (@ \ Mentions(d)) \union news]
      /\ vouched' = [vouched EXCEPT ![c] =
                       (@ \ Mentions(d)) \union {v \in news : AgreeOn(v, answer[c], d.updates)}]
      /\ UNCHANGED <<feedVars, loopVars, fetch, answer>>

\* handleListVehicles takes All, under the state manager's lock.  The stream goes by
\* prev: where the two differ it does not vouch for the answer.
HydrateAsks(c) ==
  /\ fetch[c] = "none"
  /\ fetch' = [fetch EXCEPT ![c] = "asked"]
  /\ answer' = [answer EXCEPT ![c] = vehicles]
  /\ vouched' = [vouched EXCEPT ![c] = {v \in Vehicle : AgreeOn(v, vehicles, prev)}]
  /\ UNCHANGED <<vars, feedVars, loopVars, view, known>>

\* The response arrives, any time after All has given the lock back, if ever, and
\* replaces the view.
HydrateArrives(c) ==
  /\ fetch[c] = "asked"
  /\ fetch' = [fetch EXCEPT ![c] = "done"]
  /\ view' = [view EXCEPT ![c] = answer[c]]
  /\ known' = [known EXCEPT ![c] = vouched[c]]
  /\ answer' = [answer EXCEPT ![c] = EmptySnapshot]
  /\ vouched' = [vouched EXCEPT ![c] = {}]
  /\ UNCHANGED <<vars, feedVars, loopVars>>

OtherClientStep(c) ==
  /\ \/ HandlerStep(c)
     \/ PumpTake(c)
     \/ PumpStop(c)
     \/ PumpWriteFails(c)
     \/ ConnBreaks(c)
  /\ UNCHANGED <<feedVars, loopVars, viewVars>>

------------------------------------------------------------------------------
LoopStep ==
  \/ Tick
  \/ EncodeTick
  \/ Publish
  \/ PublishEnd
  \/ \E c \in Client : SendToOne(c)

\* All connections have come and gone, the loop idles with no client, and the
\* bound on changes is reached: the only way for the model to stop.
TrackerFinished ==
  /\ loop = "idle"
  /\ changes = MaxChanges
  /\ \A c \in Client : handler[c] = "gone" /\ pump[c] = "exited"
  /\ UNCHANGED allVars

TrackerNext ==
  \/ \E v \in Vehicle, u \in VehicleUpdate : UpdateVehicle(v, u)
  \/ \E S \in SUBSET DOMAIN vehicles : PruneVehicles(S)
  \/ LoopStep
  \/ \E c \in Client : Deliver(c) \/ HydrateAsks(c) \/ HydrateArrives(c) \/ OtherClientStep(c)
  \/ TrackerFinished

TrackerSafeSpec == TrackerInit /\ [][TrackerNext]_allVars

\* The loop is a goroutine of its own with a ticker; the connections are
\* scheduled as in WSHub.
TrackerSpec ==
  /\ TrackerSafeSpec
  /\ WF_allVars(LoopStep)
  /\ \A c \in Client :
       /\ SF_allVars(LockedStep(c) /\ OtherClientStep(c))
       /\ WF_allVars(ReadFails(c) /\ conn[c] = "closed" /\ OtherClientStep(c))
       /\ WF_allVars((CloseDone(c) \/ CloseConn(c)) /\ OtherClientStep(c))
       /\ WF_allVars(Deliver(c) \/ (PumpStep(c) /\ OtherClientStep(c)))

------------------------------------------------------------------------------
TrackerTypeOK ==
  /\ TypeOK
  /\ vehicles \in Snapshot
  /\ changes \in 0..MaxChanges
  /\ loop \in {"idle", "encode", "send", "sending"}
  /\ prev \in Snapshot
  /\ \A n \in 1..Len(log) : log[n].updates \in Snapshot /\ log[n].removed \subseteq Vehicle
  /\ view \in [Client -> Snapshot]
  /\ fetch \in [Client -> {"none", "asked", "done"}]
  /\ answer \in [Client -> Snapshot]
  /\ known \in [Client -> SUBSET Vehicle]
  /\ vouched \in [Client -> SUBSET Vehicle]

\* Nothing on its way to c: no delta in hand, in the loop, queued or in flight.
Drained(c) ==
  /\ loop # "send"
  /\ c \notin pending
  /\ sendCh[c] = << >>
  /\ inFlight[c] = 0

(* A registered consumer that has read all it was sent agrees with the     *)
(* encoder's snapshot on every vehicle the stream vouches for: those whose *)
(* newest delta it read, or that it hydrated in step with the encoder and  *)
(* missed nothing about since.  So it is whether GET /api/vehicles is      *)
(* answered before or after Register, between two Sends or with older      *)
(* deltas still queued, and arrives before or after newer ones; and a full *)
(* buffer costs only the vehicles of the discarded delta, until the next   *)
(* delta that mentions them.                                               *)
FollowsStream ==
  \A c \in clients :
    Drained(c) => \A v \in known[c] : AgreeOn(v, view[c], prev)

(* When the feed calms down, every consumer that stays connected ends up   *)
(* with the current state of the vehicles the stream vouches for, however  *)
(* often its buffer overflowed.                                            *)
EventuallyCurrent ==
  \A c \in Client :
    <>[](handler[c] = "reading")
      => <>[](\A v \in known[c] : AgreeOn(v, view[c], vehicles))
==============================================================================
