CONSTANTS
  Client = {c1, c2}
  Cap = 2
  MaxBroadcasts = 4
SPECIFICATION SafeSpec
SYMMETRY ClientSymmetry
INVARIANTS
  TypeOK
  RegisteredIffServed
  StreamOrdered
  NothingLostSilently
PROPERTIES
  RefinesMulticast
