------------------------------ MODULE RouteSnapper -----------------------------
(***************************************************************************)
(* Snap of internal/vehicle/snapper.go, one segment at a time, while other *)
(* goroutines load shapes: the lock is held to look the shape up, not for  *)
(* the loop over its points.                                               *)
(*                                                                         *)
(* Positions are points of an integer grid and a projection is a fraction: *)
(* [at, den, dist] is the place at/den, at squared distance dist/den^2.    *)
(***************************************************************************)
EXTENDS Integers, Sequences

CONSTANTS
  ShapeIDs,
  Grid,       \* positions, <<lat, lon>>
  Shapes,     \* what LoadShape may be given: sequences of positions
  MaxLoads

ASSUME GridAssumption ==
  /\ Grid \subseteq Int \X Int
  /\ Shapes \subseteq Seq(Int \X Int)
  /\ MaxLoads \in Nat

VARIABLES
  shapes,   \* the loaded shapes: a function on some of the ShapeIDs
  call,     \* Snap's variables; i is the segment it has come to
  during,   \* history: the points that call.id had while Snap ran
  loads     \* counts LoadShape, for the bound

snapVars == <<shapes, call, during, loads>>

Points(id) == IF id \in DOMAIN shapes THEN shapes[id] ELSE <<>>

Dot(u, v) == u[1] * v[1] + u[2] * v[2]

Minus(u, v) == <<u[1] - v[1], u[2] - v[2]>>

\* The place a + (k/len)*(b - a), where len is the squared length of ab.
OnSegment(pos, a, b, k, len) ==
  LET at == <<len * a[1] + k * (b[1] - a[1]), len * a[2] + k * (b[2] - a[2])>>
      off == <<len * pos[1] - at[1], len * pos[2] - at[2]>>
  IN  [at |-> at, den |-> len, dist |-> Dot(off, off)]

Here(pos, a) == [at |-> a, den |-> 1, dist |-> Dot(Minus(pos, a), Minus(pos, a))]

projectPointToSegment(pos, a, b) ==
  LET ab == Minus(b, a)
      len == Dot(ab, ab)
      t == Dot(Minus(pos, a), ab)
      clamped == IF t < 0 THEN 0 ELSE IF t > len THEN len ELSE t
  IN  IF len = 0 THEN Here(pos, a) ELSE OnSegment(pos, a, b, clamped, len)

Nearer(x, y) == x.dist * y.den * y.den < y.dist * x.den * x.den

------------------------------------------------------------------------------
Call(id, pos, points) ==
  [running |-> TRUE, id |-> id, pos |-> pos, points |-> points, i |-> 1,
   best |-> Here(pos, pos)]

SnapInit ==
  /\ shapes = <<>>
  /\ \E id \in ShapeIDs, pos \in Grid : call = [Call(id, pos, <<>>) EXCEPT !.running = FALSE]
  /\ during = {<<>>}
  /\ loads = 0

LoadShape(id, points) ==
  /\ loads < MaxLoads
  /\ shapes' = [x \in DOMAIN shapes \union {id} |-> IF x = id THEN points ELSE shapes[x]]
  /\ loads' = loads + 1
  /\ during' = IF call.running /\ id = call.id THEN during \union {points} ELSE during
  /\ UNCHANGED call

\* Up to the unlock.  With fewer than two points the loop has no turn.
SnapStarts(pos, id) ==
  /\ ~call.running
  /\ call' = Call(id, pos, Points(id))
  /\ during' = {Points(id)}
  /\ UNCHANGED <<shapes, loads>>

\* Mutant: looks the shape up again for each segment.
SnapSegment_LooksUp ==
  LET points == Points(call.id)
      proj == projectPointToSegment(call.pos, points[call.i], points[call.i + 1])
  IN  /\ call.running /\ call.i < Len(points)
      /\ call' = [call EXCEPT !.i = @ + 1,
                              !.best = IF call.i = 1 \/ Nearer(proj, @) THEN proj ELSE @]
      /\ UNCHANGED <<shapes, during, loads>>

\* One turn of the loop; the first finds bestDist infinite.
SnapSegment ==
  LET proj == projectPointToSegment(call.pos, call.points[call.i], call.points[call.i + 1])
  IN  /\ call.running /\ call.i < Len(call.points)
      /\ call' = [call EXCEPT !.i = @ + 1,
                              !.best = IF call.i = 1 \/ Nearer(proj, @) THEN proj ELSE @]
      /\ UNCHANGED <<shapes, during, loads>>

SnapReturns ==
  /\ call.running /\ call.i >= Len(call.points)
  /\ call' = [call EXCEPT !.running = FALSE]
  /\ UNCHANGED <<shapes, during, loads>>

------------------------------------------------------------------------------
\* Every place of a segment at which a projection of a grid position can be.
PlacesOnSegment(pos, a, b) ==
  LET len == Dot(Minus(b, a), Minus(b, a))
  IN  IF len = 0 THEN {Here(pos, a)} ELSE {OnSegment(pos, a, b, k, len) : k \in 0..len}

PlacesOn(points, pos) ==
  UNION {PlacesOnSegment(pos, points[i], points[i + 1]) : i \in 1..(Len(points) - 1)}

SamePlace(x, y) == x.at[1] * y.den = y.at[1] * x.den /\ x.at[2] * y.den = y.at[2] * x.den

IsSnapped(pos, points, answer) ==
  LET places == PlacesOn(points, pos)
  IN  IF places = {} THEN answer = Here(pos, pos)
      ELSE /\ \E x \in places : SamePlace(x, answer)
           /\ \A x \in places : ~Nearer(x, answer)

(* What Snap returns is the nearest place of one shape that was loaded     *)
(* under the ID while it ran, and never a mix of two; without a shape of   *)
(* two points it is the position itself.                                   *)
SnapsToOneShape ==
  ~call.running => \E points \in during : IsSnapped(call.pos, points, call.best)
==============================================================================
