CONSTANTS
  Vehicle = {v1, v2}
  Tag = {t1, t2}
  Axis = {lat}
  Pos = {0, 1, 2, 3}
  Eps = 1
  MaxEncodes = 4
SPECIFICATION Spec
SYMMETRY VehicleSymmetry
INVARIANTS
  TypeOK
  SameFleet
  DriftBounded
