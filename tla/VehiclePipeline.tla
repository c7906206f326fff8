---------------------------- MODULE VehiclePipeline ----------------------------
(***************************************************************************)
(* Update of internal/vehicle/state.go for one vehicle, filter -> snap ->  *)
(* store, with its two parts, while shapes are loaded and Prune forgets    *)
(* the vehicle and its filter.  Update holds the manager's lock, and the   *)
(* snapper has one of its own.                                             *)
(***************************************************************************)
EXTENDS KalmanFilter, RouteSnapper

CONSTANT None

VARIABLE state   \* the entry's state, None without an entry

vars == <<filterVars, snapVars, state>>

Init == FilterInit /\ SnapInit /\ state = None

\* The filter may return any position; the shape's ID is the trip's.
UpdateStarts ==
  /\ \E t \in Times : Filter(t)
  /\ \E pos \in Grid, id \in ShapeIDs : SnapStarts(pos, id)
  /\ UNCHANGED state

SnapStep == SnapSegment /\ UNCHANGED <<filterVars, state>>

\* Mutant: UpdatedAt only moves on.
UpdateEnds_NeverOlder ==
  /\ SnapReturns
  /\ state' = [Position |-> call.best,
               UpdatedAt |-> IF state # None /\ state.UpdatedAt > lastTime
                             THEN state.UpdatedAt ELSE lastTime]
  /\ UNCHANGED filterVars

UpdateEnds ==
  /\ SnapReturns
  /\ state' = [Position |-> call.best, UpdatedAt |-> lastTime]
  /\ UNCHANGED filterVars

\* A vehicle that comes back gets a new filter.
Prune ==
  /\ ~call.running /\ state # None
  /\ \E olderThan \in Times : state.UpdatedAt < olderThan
  /\ initialized' = FALSE
  /\ lastTime' = 0
  /\ p' = diagMatrix(0, 0, 0, 0)
  /\ state' = None
  /\ UNCHANGED <<measurements, snapVars>>

Load ==
  /\ \E id \in ShapeIDs, points \in Shapes : LoadShape(id, points)
  /\ UNCHANGED <<filterVars, state>>

Next == UpdateStarts \/ SnapStep \/ UpdateEnds \/ Prune \/ Load

Spec == Init /\ [][Next]_vars

------------------------------------------------------------------------------
(* The variables keep their types, and between two Updates the state is    *)
(* that of the filter's last measurement and Snap's last answer.           *)
TypeOK ==
  /\ FilterTypeOK
  /\ call.pos \in Grid /\ call.id \in ShapeIDs /\ call.i \in Nat \ {0}
  /\ loads \in 0..MaxLoads
  /\ initialized = FALSE => state = None
  /\ ~call.running /\ initialized =>
       state = [Position |-> call.best, UpdatedAt |-> lastTime]
==============================================================================
