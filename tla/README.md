# TLA+ models of PublicTransportTracker

The tracker polls a GTFS-Realtime feed, keeps the current state of every vehicle
in memory, and pushes the changes to browsers over WebSockets; a second command
imports the static GTFS data into PostgreSQL. This directory models that code in
TLA+, checks the models with TLC on small instances, and proves the central
invariants with TLAPS for every value of the constants. Paths below are relative
to `src/`.

## Inventory

| Component | Source | State | Operations |
|---|---|---|---|
| Hub | `internal/broadcast/hub.go` | `clients`, `mu` | `Register`, `Unregister`, `ClientCount`, `Broadcast` |
| Connection | `internal/broadcast/ws_client.go` | `sendCh` (64), `done`, the `websocket.Conn`, the positions of two goroutines | `HandleWebSocket` with the read pump, `writePump`, `Send`, `Close` |
| Delta encoder | `internal/broadcast/encoder.go`, `types.go` | `prev` | `Encode`, `changed` |
| Broadcast loop | `cmd/tracker/main.go:180-210` | the encoder, the delta in hand | one tick a second |
| Poller, fetcher, decoder | `internal/realtime/` | the batch in hand | `Run`, `PollOnce`, `Fetch`, `DecodeVehiclePositions`; `DecodeDelays` (called by tests only) |
| State manager | `internal/vehicle/state.go` | `vehicles`, a filter for each | `Update`, `All`, `Get`, `Prune` |
| Kalman filter | `internal/vehicle/kalman.go` | estimate, covariance, `lastTime` | `Filter` |
| Snapper | `internal/vehicle/snapper.go` | `shapes` (never loaded by the program) | `LoadShape`, `Snap` |
| Importer | `internal/gtfs/importer.go`, `internal/store/migrations/` | eight SQL tables | `Import` |
| Store | `internal/store/` | the connection pool | `New`, `Migrate`, `Close`, `Healthy`, read-only queries |
| HTTP API | `internal/api/` | none of its own | REST handlers, `/ws`, `Start`, `Shutdown` |
| Start and shutdown | `cmd/tracker/main.go` | `ctx`, `errCh`, the exit status | `runMigrate`, `runImport`, `runServe` |

How they interact. The poller's goroutine calls `stateMgr.Update` once for each
vehicle of a poll; the prune ticker calls `Prune`; the broadcast loop and the
handler of `GET /api/vehicles` call `All`. All of these meet at the state
manager's mutex. The broadcast loop hands the delta to `Hub.Broadcast`, which
holds the hub's mutex while it calls `Send` of every client; `Send` puts the
message on the client's channel, the write pump takes it off, and the HTTP
handler, which has become the read pump, notices the end of the connection and
cleans up. The importer shares with the server only the database.

What is hard about it:

* **Fan-out.** Three goroutines work on each client and two of them delete it
  from the hub; buffers overflow; a `select` with several ready cases chooses at
  random; Broadcast holds a lock that every handler needs. Correct means: served
  clients are registered and gone ones are not, messages come in order and at
  most once, nothing is lost except by overflow, a slow client blocks nobody, and
  everything is cleaned up.
* **Deltas.** A delta only makes sense on top of the previous ones. The encoder
  forgets its reference even for what it left out; a consumer hydrates from a
  snapshot that travels on a connection of its own, while older deltas are on their
  way and newer ones overtake it. Correct means: the consumer's view and the encoder's
  snapshot agree, up to the tolerance, wherever the stream vouches for it.
* **Feed.** Batches are applied one vehicle at a time, polls fail or are late,
  timestamps are missing, old or in the future. Correct means: the map shows the
  last batch and forgets the vehicles that left.
* **Import.** A crash between any two statements, bad archives, two imports at
  once, row locks taken in different orders. Correct means: readers see the old
  data or one whole archive, references hold, the queries of the REST API agree
  with each other, and no import waits for ever.
* **Lifecycle.** Five goroutines, the handlers and a signal that may come at any moment, a listener
  that fails, a panic in a goroutine. Correct means: the process ends when it is
  asked to or cannot serve, with the right status, and never takes the store away
  from a request it has accepted.
* **Filter and snapper.** Measurements repeat, come late or after a gap; a matrix is
  updated in place; shapes are replaced while one is being searched. Correct means:
  the covariance stays one, each coordinate is filtered as by the book, and a
  position is snapped to one shape.

`PROJECT.json` lists each hazard at its line with the properties that cover it.

## Modules

| Module | What it is |
|---|---|
| `OrderedMulticast` | abstract: a subscriber receives, from joining to leaving, a subsequence of what is published |
| `WSHub` | the hub and its connections; refines `OrderedMulticast` |
| `WSHub_proofs` | theorems about `WSHub` |
| `DeltaCodec` | `Encode`, `changed` and the consumer's `ApplyDelta` as functions |
| `DeltaEncoder` | the encoder driven by arbitrary snapshots, and a consumer of its deltas |
| `DeltaEncoder_proofs` | theorems about `DeltaEncoder` |
| `Tracker` | the broadcast loop, composed from `WSHub` and `DeltaCodec`, with hydrating consumers |
| `Tracker_proofs` | theorems about `Tracker`, on top of `WSHub_proofs` |
| `VehicleFeed` | poller, decoder, state manager and prune ticker |
| `VehicleFeed_proofs` | theorems about `VehicleFeed` |
| `KalmanFilter` | the filter's covariance and gain, whatever the timestamps |
| `RouteSnapper` | `Snap`, segment by segment, while shapes are loaded |
| `VehiclePipeline` | `Update` of one vehicle, composed from the two, with Prune |
| `VehiclePipeline_proofs` | theorems about `VehiclePipeline`, the filter and the snapper |
| `GtfsImport` | concurrent imports into PostgreSQL |
| `GtfsReads` | the queries and REST handlers on the database `GtfsImport` works on |
| `GtfsImport_proofs` | theorems about `GtfsImport` and `GtfsReads` |
| `ServeLifecycle` | the process: three commands, its goroutines, signals and exit status |
| `ServeLifecycle_proofs` | theorems about `ServeLifecycle` |
| `InductionLemmas` | induction over the natural numbers and over finite sets, with a set where one would expect a predicate |
| `MC...` | the instances for TLC |

Operators whose name has an underscore (`SendDrops_Evicts`, ...) are not part of
a model: each is what a plausible bug would make of the definition that follows
it, and shows that a property notices that bug.

### WSHub

`handler[c]` is where `HandleWebSocket` stands for client `c`: `accepted` after
`websocket.Accept`, `registered` after `hub.Register`, `reading` in `readPump`,
`failed` when `Read` has returned an error, `doneClosed` and `closed` after the two
halves of `Close`, `unregistered` after `hub.Unregister`, `gone` when it has
returned and `ctx` is cancelled. `pump[c]` is where `writePump` stands.
`Broadcast` is one step to take `h.mu`, one step for each `Send`, and one step to
release it; the steps that need `h.mu` (`Register`, `Unregister`, and the two
calls of `ClientCount` for the log) have the guard `~lock`, all other steps go on
between two Sends. `Send` is three disjuncts, as its `select`: `SendQueues`
whenever there is room, `SendFindsDone` whenever `done` is closed, and `SendDrops`
only when neither is ready. A message is the number of its Broadcast. `written`,
`since` and `dropped` are history.

Left out: msgpack (`Marshal` of an `Envelope` cannot fail), the log, failing
`Accept`s. A write that fails or times out closes the connection, as
`nhooyr.io/websocket` does.

### DeltaCodec, DeltaEncoder

A snapshot maps vehicles to updates. Of an update the model keeps what `changed`
can tell apart: one value for the fields compared exactly, and integer positions,
in steps no larger than `eps`, for the numeric ones. `quiet` counts for how many
ticks a vehicle has been left out of the delta. `ApplyDelta` is the consumer: its
code is not in the repository. It replaces whole records, because `Encode` sends whole
records, and `SameFleet` rests on that: the comment on the message format announces
something else (`delta_fields`, below).

### Tracker

The loop is `idle`, has to `encode`, has a delta to `send`, or is `sending` it,
which is `WSHub`'s Broadcast. It follows the code in skipping a tick when
`ClientCount` is 0 (`prev` then stays as it was) and in not broadcasting an empty
delta. `OtherClients` says whether the hub also has clients outside the model, so
that the loop runs on while a modelled client is between `Accept` and `Register`.
`Deliver` extends the pump's successful write by the consumer's `ApplyDelta`; the
write and the consumer's read are one step.

The consumer's `GET /api/vehicles` is two steps, once for each consumer and at any
time, also before it opens its WebSocket. `HydrateAsks` is `handleListVehicles` taking
`All()` under the state manager's lock, into `answer[c]`. The lock is given back before
the response is written, and the response has a connection of its own: any number of
changes, ticks, Broadcasts and deliveries may come before `HydrateArrives`, which
replaces the view by what is by then an old answer. It may never arrive. No document
says in which order a consumer should fetch and subscribe
(`docs/IMPLEMENTATION_PHASES.md:106` and `:132` speak of initial page load and state
hydration), so the model allows every order.

`known[c]` is the set of vehicles for which the stream vouches for the view of `c`, and
`vouched[c]` the same for the response under way. A delta that is read vouches for what
it mentions (`StillNews`: unless a newer delta about it was discarded). All() vouches for
the vehicles on which the state manager and the encoder agree. A Broadcast that misses
`c`, because its buffer overflows (`Overflows`) or because its handler has not registered
yet, takes what it mentions out of both sets. A delta that is read while a response is
under way takes what it mentions out of `vouched`, unless the response says the same.
`AgreeOn` asks for the same numbers only where the tolerance is 0, as in the run: with
another, `DriftBounded` says how far they may differ.

The vehicles left out of `known` are what the design does not deliver. Such a vehicle is
stale at the consumer until a delta mentions it again, which is when it next changes:

* it changed just before All() and was broadcast before the consumer was registered;
* it was in a delta that a full buffer discarded;
* its delta was read while the response was under way, and the older response then
  overwrote it;
* it changed just before All() and had changed back when the loop next looked.

### VehicleFeed

Time is kept as ages relative to now, and anything older than the cutoff of Prune
is one value, so that `Tick` may happen for ever in a finite model. `FetchOk`
takes the body as the server has it; until `Decode` or `PollFails` time passes, the
feed changes and Prune runs. `Decode` follows the decoder: entities without a
position are skipped, the descriptor's ID wins over the entity's, a missing
timestamp is now. `Update` is one vehicle of the batch.

### GtfsImport

A row is its table, primary key, references and the Import that wrote it, as
PostgreSQL tells the versions of a row apart. Each
`DELETE` has two steps, since under READ COMMITTED it sees the rows committed when
it starts, and then may wait for a row lock. A file is opened and its rows are
inserted one by one, each of which may wait; the shapes come out of a Go map, so
`Orders` allows any order for them. The import functions keep what decides
whether rows can be inserted and what is left out: the agency `default`, `NULLIF`
of an empty parent or shape, shapes of fewer than two points, missing required
and optional files, and `malformed` for a file whose CSV or values the code or the
database rejects. `HoldUpDelete`, `HoldUpInsert`, `WaitsFor`, `Deadlocked`,
`DeadlockAborts` and `Visible` are PostgreSQL's part and external: a transaction
waits for those that hold its rows, and one of a cycle is aborted. `Crash` is the
loss of the process or its connection.

### GtfsReads

Each query of `store/queries.go` is one `SELECT`, so it reads `committed` at one
moment and is an operator, not an action; the handlers above add the status. Rows
that a query may return where PostgreSQL chooses (`LIMIT 1`, `DISTINCT ON` without
a full order) are the set it chooses from. Filters and columns that no property is
about are left out.

### ServeLifecycle

`main` is where the main goroutine stands, in any of the three commands; `starter`
is the goroutine of `srv.Start`, with `errCh` as a buffer of one and its closing;
`poller` and `loop` are the ticker loops between their `select` statements, `request`
the requests. The deferred calls are steps of their own, in their order. Once
`exit` is set nothing moves. `net/http` is external: `Shutdown` waits for handlers,
not for the hijacked connections of `/ws`; so are signals, which kill the process
outside the region where `NotifyContext` listens, and are swallowed inside it after
the first. The model shows what the code accepts: `Shutdown` has no time limit, so
that completion rests on handlers that return; the poller, the loops and WebSocket
connections are cut off wherever they are; when `Accept` fails for good, `runServe`
returns without `Shutdown`, and closes the store under running handlers
(`StoreOutlivesRequests` excludes that case by name). Usage errors are left out.

### KalmanFilter, RouteSnapper, VehiclePipeline

The matrix `p` and the gain depend on the times of the measurements, never on the
positions, so `KalmanFilter` keeps `initialized`, `lastTime` and `p` and leaves out the
estimate `x`. Entries are integers over one denominator, in lowest terms, so nothing is
rounded. `Divisor` only keeps the numbers small for TLC: it uses the `gcd` where that
divides all entries (it always does) and 1 otherwise, so that the proofs need not say
what `gcd` computes. `AxesIndependent` compares fractions, not their terms. The branch
of the code for a determinant below 1e-20 is in the model, and is never taken in the
runs or with the code's constants: the measurement noise alone keeps the determinant of
`S` at 1e-8 or above, so no property is about it. `Predict` follows the order of the
statements, the rows of the position before those of the velocity; `Update` inverts `S`
and multiplies 4x4 matrices like the code. `AxisFilter` is the textbook filter of one
coordinate, written independently.

In `RouteSnapper` a call of `Snap` reads the shape in its first step, as the code does
under its lock, then takes one step for each segment, between which `LoadShape` may
replace the shape. The program never calls `LoadShape`, so that interleaving is what the
snapper's lock allows and not something `serve` does. A place is an integer vector over
a denominator, the distance a square: comparing them is exact. `PlacesOn` enumerates the
places of a polyline at which the projection of a grid point can be.

`VehiclePipeline` is `Update` of one vehicle: filter, snap, store, with `Prune` and
the fresh filter of a vehicle that returns. The filter may return any position.

## Runs

| Run | Instance | What it shows |
|---|---|---|
| `hub_safety` | 2 clients, buffer 2, 4 Broadcasts | `RegisteredIffServed`, `StreamOrdered`, `NothingLostSilently`, and the refinement of `OrderedMulticast`, in 1.2 million states |
| `hub_live` | 2 clients, buffer 1, 2 Broadcasts | `BroadcastReturns`, with fairness of the broadcaster only; `DisconnectCleansUp` and `QueuedIsWritten`, which state the fairness of the connections they need |
| `hub_send` | 1 client, buffer 1 | the comment on `Send` is not what it does (below) |
| `delta` | 2 vehicles, 4 positions, eps 1, 4 calls | `SameFleet`, `DriftBounded` over all sequences of snapshots |
| `delta_fields` | the same | an update carries the fields that did not change (below) |
| `tracker` | 1 client and others, buffer 2, 1 vehicle, 2 positions, 4 changes, 4 Broadcasts | `FollowsStream`, `EventuallyCurrent`, in 1.27 million states |
| `feed` | 2 vehicles, 5 feeds, cutoff 2 | `BatchApplied`, `GoneIsForgotten` |
| `feed_prune` | the same | Prune does not do what its comment says (below) |
| `import` | 2 importers, 10 archives, a filled or empty database | `WholeArchive`, `ImportAtomic`, `NoDangling`, `ImportReplaces`, `ShapesAgree`, `StopTimesComplete`, `EveryImportEnds`, in 250,000 states |
| `import_fresh` | 2 importers, 2 archives, an empty database | two imports merge (below) |
| `lifecycle` | 2 requests, all commands and flags | `StoreOutlivesRequests`, `ExitExplained`, `ShutdownCompletes`, `StartFailureEnds` |
| `pipeline` | 3 measurements at times 0, 1, 2, 5, gap 2, 3 positions, 3 shapes, 2 loads | `CovarianceSound`, `AxesIndependent`, `GapTrust`, `SnapsToOneShape` |

Why the bounds are enough. Clients interact only through the hub's lock and set, so that
two show every conflict of one with another. A buffer of 2 and 4 Broadcasts make it
empty, partly full, full and overflowing with one message in flight; the theorems hold
for any number of clients and any buffer. In `delta`, four positions with tolerance 1
allow a creep beyond the tolerance that no single delta shows, and four snapshots allow
a vehicle to appear, change, vanish and return. In `tracker` four changes suffice to
have one delta queued, one being sent and one change after the consumer has asked for
its snapshot; one vehicle can appear, move, vanish and return. `OtherClients` is `TRUE`.
That covers the server without other clients as well: it skips its ticks while nobody is
connected, which is a behaviour of this instance in which the loop is idle, and a
consumer that stays keeps the loop going in both. In `feed` ages reach from one tick in
the future to past the cutoff, and the feeds contain an entity without position, one
without descriptor and timestamp, and an ID that occurs twice. The archives of `import`
are a full one, one with a trip on a one-point shape, stops in the wrong order, one
without trips, a torn one, one whose only agency has an ID that its routes leave out,
two that share shapes and nothing else (the deadlock), one whose stop times refer to a
stop of another, and one that stands alone. Two requests let one be answered and one
hijacked, or one wait for the other, and `Shutdown` distinguishes no more. In `pipeline`
three measurements give every pair of elapsed times (first, repeated, late, within and
after the gap); the noise constants are 1 and the gap 2, since with the code's 30
seconds and ratios the fractions leave TLC's 32-bit integers. A shape bends, one begins
with a segment of length zero, one has a single point. `hub_safety` uses symmetry of the
clients, `delta` of the vehicles: the properties there are safety properties, the
refinement included, and name none of them.

Fairness. `BroadcastFairness` and `LoopStep`: the broadcasting goroutine is scheduled,
and nothing in `Send` can block it. `ConnectionFairness`, which is the hypothesis of
`DisconnectCleansUp` and `QueuedIsWritten` and is stated in `TrackerSpec` for the
composed steps: the goroutines of a client are scheduled; steps that need `h.mu` are
strongly fair, since `sync.RWMutex` lets a waiting goroutine in after the current
holder; `Read` returns once the connection is closed but may otherwise block for ever,
so only then is `ReadFails` fair; `Write` ends in 5 seconds. No fairness is assumed of
peers, of `BroadcastStart`, of requests and responses of `GET /api/vehicles`, of changes
of vehicles or of polls. In `VehicleFeed` a poll under way ends (30 s timeout of the
client), the prune ticker fires and time passes. In `GtfsImport` an import that holds or
can get its locks goes on; nothing makes it start or crash; the deadlock detector of
PostgreSQL is part of that step. In `ServeLifecycle` the main goroutine, the starter and
the handlers go on: a migration, an import and a handler end when the database answers,
none has a time limit. Nothing is assumed of signals, polls, ticker loops or WebSocket
peers.

### Where code and comments disagree

* `hub_send`: "Returns false if the client is closed or the buffer is full"
  (`ws_client.go:35`), and "slow clients get dropped"
  (`docs/IMPLEMENTATION_PHASES.md:131`). With a full buffer `Send` returns true:
  the message is dropped, the client stays, and since the encoder has moved on
  the change is not sent again. With `done` closed and room in the buffer, `select`
  may choose the buffer, and `Send` returns true for a closed client.
* `delta_fields`: "Only changed fields are non-zero in delta mode" (`types.go:9`), and
  deltas with "only changed fields" (`docs/IMPLEMENTATION_PHASES.md:104`). `Encode` compares
  vehicles field by field but appends the whole update (`encoder.go:35`): a vehicle that
  moved in latitude is sent with its unchanged longitude, trip and delay. A consumer must
  replace the whole record. One that took a zero for "unchanged" would never see a delay
  or a speed become zero.
* `feed_prune`: "Prune removes vehicles not updated since the given cutoff time"
  (`state.go:87`). Prune compares the feed's own timestamp, so a vehicle updated a
  moment ago is removed when its clock lags.
* `import_fresh`: "Clear existing data" (`importer.go:48`). Two imports at once on
  an empty database with disjoint keys both succeed, and neither has cleared the
  other's rows. On a filled database they exclude each other: `import` shows it.

One line of the documents is a plan and no disagreement:
`docs/IMPLEMENTATION_PHASES.md:211` wants a shutdown that drains WebSocket connections,
in a later phase. The code cuts them off, and `lifecycle` models that.

## Proofs

`WSHub_proofs` assumes only `CapAssumption` and `BoundAssumption` (a positive
capacity, a natural bound). `TypeCorrect` is inductive by itself. The safety
invariants are not: that a client being served is registered depends on `done`
being closed only after `Read` failed; that the stream is in order on the message
in flight being older than the queue, and on the loop not having visited the
client yet; that nothing is lost on both. The inductive invariant `IInv` is, for
each client, `AtRest` (how the two program counters relate to `done`, the
connection, the channel and the loop), `RegisteredAt`, `OrderedAt` and
`AccountedAt`. Each action disturbs one client: `Elsewhere` and `OnlyOwn` dispose of
the others, and one lemma for each kind of step (`HandlerStepKeeps`, ...) deals with
its own. The four `InOrder...` lemmas state the ways in which a stream grows.
From `IInv` follow `RegistrationCorrect`, `StreamCorrect` and `AccountCorrect`, and
`Refinement`: every step of `SafeSpec` is a step or a stutter of
`OrderedMulticast` under the mapping of `status`, `joined` and `received`. A
successful write needs `StreamOrdered` to be a legal `Receive`, and `AtRest` to
happen before the client has left.

`DeltaEncoder_proofs` assumes that positions are integers and `Eps` and the bound
naturals. `ApplyEncode` states what applying a delta does to a view of the same
vehicles; `IInv` is the conjunction of the three invariants; the step for
`DriftBounded` is the triangle inequality for a vehicle left out, and 0 for one
that was sent. `ExactWithoutTolerance` is the case `Eps = 0`, where the view equals
the snapshot.

`ServeLifecycle_proofs` needs no assumption. Neither property is inductive: that no
handler runs when the store is closed depends on main having left its `select`
either by way of `Shutdown` or because the listener broke; that status 0 means a
signal depends on an error of `Start` being on its way to main. `IInv` is `TypeOK`
with `StoreState` (open exactly between `New` and `Close`), `NotStarted` (nobody touches
the server before main spawns the starter), `ServerState` (who has changed it last),
`Drained`, `ErrorTravels` (what broke the server is with the starter, in `errCh` or in
the result), `Reasons` (why `ctx` is done and why main goes on) and `ExitState`; one
lemma for each goroutine shows that its steps keep it. From it follow `TypeCorrect`,
`StoreCorrect` and `ExitCorrect`, for any number of requests.

`Tracker_proofs` carries the hub's invariant over: every step of `TrackerNext` is a step
or a stutter of `WSHub` (`HubInside`), so that `IInv` of `WSHub_proofs` holds in the
tracker. `FollowsStream` speaks of the moment when nothing is on its way; what is
inductive is what holds before. `Out(c)` are the Broadcasts on their way to `c`: in
flight, queued, or not yet given to it by the running Broadcast. `Says` is the last word
on a vehicle: that of the newest of them that mentions it, else the consumer's view
where it knows the vehicle; where a newer delta about it was discarded it says nothing.
`Settled(c)` is that the last word agrees with `DeltaEncoder.prev` on every vehicle that
the delta in hand does not mention, and `InHand` that the delta agrees with it on the
others. `BothSay` asks this of the view with `known` and of the response under way with
`vouched`, which may become the view at any time. `Attentive(c)` are the consumers this
holds for: registered, or not yet so. `DropsBounded`, that only Broadcasts are
discarded, is what lets a newest Broadcast have the last word. Each way in which `Out`
or the last word changes has a lemma: `PublishSettled` adds a newest Broadcast,
`DeliverSettled` applies the oldest one (`WriteOut` takes from `StreamOrdered` that it
is the oldest; `SaysDelivered`), `SendSettled` queues one (`SendOut`) or discards it and
what it mentioned (`DropOut`, `SaysMissed`), `AsksSettled` takes the answer and
`ArrivesSettled` makes it the view under the Broadcasts still to come, `EncodeSettled`
moves `prev`, and `TakeOut` leaves `Out` as it was. From it follow `TrackerTypeCorrect`
and `StreamFollowed`, for any fleet, connections, buffer and tolerance. The assumption
`ChangesAssumption` is on the bounds of the model alone.

`VehicleFeed_proofs` proves `TypeCorrect` and `BatchStaysApplied`; both invariants are
inductive, given that `Decoded` is what its recursion says. `DecodedTurns` shows
that, and `DecodeKeepsLocated` that the decoder gives an update for every entity with a
position and no other. Both are inductions over the body, with `IntervalInduction`.

`GtfsImport_proofs` holds for any number of Imports. `IInv` says of each Import where its
rows and its place in the code stand (`Stages`), and what PostgreSQL's locks preserve:
nobody deletes a row another has deleted (`DeletesHeld`), keys of inserted rows
are free (`InsertsHeld`), what they refer to is not being deleted by another
(`ReferencesHeld`), and no transaction sees a dangling reference (`Grounded`). One
lemma for each kind of change (`DeleteLocks`, `InsertLocks`, `CommitLocks`,
`RollbackLocks`) keeps them. `SchemaKept` follows, and from the schema `ShapesAlwaysAgree`
and `StopTimesAlwaysComplete`. It assumes that the database meets its schema at first
(`InitialsAssumption`) and that archives hold sequences of records
(`ArchivesAssumption`).

`CommitsWholeArchives` needs besides what a loading Import has inserted so far
(`Content`): every change of the committed rows adds one whole archive, whatever other
Imports do. What it may leave of older rows is the subject of the next two.

`WholeArchiveForTwo` and `ImportReplacesForTwo` are for at most two Imports
(`TwoImporters`), and this is not for convenience: with three they can fail. Let
two archives have a `stop_times.txt` without records, and let all three Imports start
together. When the first commits such an archive, the other two find nothing in the
first `DELETE` that would hold one of them up; one passes tables that are still empty,
waits at `agencies` for the other, and then adds its rows to what the other has
committed. TLC finds this with three Imports of archives that hold an agency and
nothing else, or no key of another. With two Imports, whoever has emptied `stop_times`
holds all its rows until it ends, and the other waits there or has seen them go
(`Progress`).

`VehiclePipeline_proofs` takes the filter and the snapper for any noise, threshold,
times, grid and shapes (`NoiseAssumption`: positive noises and a threshold not below its
scale; `GridAssumption`: integer positions). For the filter the invariant is that the
matrix is a `Twin` of four numbers, the same for both coordinates and 0 across, that are
`Sound`. `PredictTwin`, `UpdateTwin` and `ReduceTwin` compute the twin of the next
matrix entry by entry, `PredictSound` and `UpdateSound` show that it is sound; the
fractions drop out because soundness and the properties do not change when all terms are
multiplied by the same factor (`SoundScales`). `CovarianceStaysSound`,
`LongerGapsTrustMore` and `AxesStayIndependent` follow. For the snapper, `ProjectionNearest`
shows that no place of a segment is nearer than the clamped projection, and the
invariant `SnapInv` that the best so far is the nearest of the segments passed, of the
shape as it was when Snap started (`SnapAnswersOneShape`).

`InductionLemmas` is there because the library's induction theorems take an operator as
a parameter, which the provers cannot instantiate: here the parameter is the set of
numbers, or of sets, for which the fact holds.

Only model-checked: all liveness (`DisconnectCleansUp`, `QueuedIsWritten`,
`BroadcastReturns`, `EventuallyCurrent`, `GoneIsForgotten`, `EveryImportEnds`,
`ShutdownCompletes`, `StartFailureEnds`), which rests on fairness and `ENABLED` and is
out of the prover's reach. Every safety property of the passing runs is proved.
Not proved either: that `gcd` computes the greatest common divisor, on which no
theorem depends.

## Not modelled

* Floating point: rounding, NaN and infinite coordinates. The filter's estimate, and
  the conversion between speed, bearing and velocity, are trigonometry on data.
* `DecodeDelays` and `Get`, which only tests call; `Healthy`, `ShapeCount`, `Hub`.
* `ListStopsByBBox`, `splitBBox` and `split`: parsing of four floats and a PostGIS
  operator; headers and JSON.
* Concurrent `Migrate`: its races are those of PostgreSQL's catalog.
* Arguments, the environment, Docker and the Makefile have no behaviour to model.

## Plan

1. The steps liveness rests on, as far as they are safety: that whoever holds the
   hub's lock, or an Import that is waited for, has a step it can take.
2. An abstract database of whole archives that `GtfsImport` refines for two Imports.
3. `EventuallyCurrent` split into what can be proved (once the map stays as it is, an
   empty delta leaves `prev` equal to it) and what rests on fairness.
