CONSTANTS
  Request = {r1, r2}
SPECIFICATION Spec
INVARIANTS
  TypeOK
  StoreOutlivesRequests
  ExitExplained
PROPERTIES
  ShutdownCompletes
  StartFailureEnds
