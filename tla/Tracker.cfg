CONSTANTS
  Client = {c1}
  OtherClients = TRUE
  Cap = 2
  MaxBroadcasts = 4
  Vehicle = {v1}
  Tag = {t1}
  Axis = {lat}
  Pos = {0, 1}
  Eps = 0
  MaxChanges = 4
SPECIFICATION TrackerSpec
INVARIANTS
  TrackerTypeOK
  FollowsStream
PROPERTIES
  EventuallyCurrent
