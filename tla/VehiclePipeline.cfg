CONSTANTS
  MeasurementNoise = 1
  InitialVelocityNoise = 1
  ProcessNoise = 1
  Gap = 2
  GapScale = 1
  Times <- MCTimes
  MaxMeasurements = 3
  ShapeIDs = {t1}
  Grid <- MCGrid
  Shapes <- MCShapes
  MaxLoads = 2
  None = None
SPECIFICATION Spec
INVARIANTS
  TypeOK
  CovarianceSound
  GapTrust
  SnapsToOneShape
PROPERTIES
  AxesIndependent
CHECK_DEADLOCK FALSE
