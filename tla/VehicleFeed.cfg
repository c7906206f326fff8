CONSTANTS
  v1 = v1
  v2 = v2
  p1 = p1
  p2 = p2
  Vehicle = {v1, v2}
  Payload = {p1, p2}
  NoId = NoId
  NoTime = NoTime
  Stale = 2
  Skew = 1
  Feeds <- MCFeeds
SPECIFICATION Spec
INVARIANTS
  TypeOK
  BatchApplied
PROPERTIES
  GoneIsForgotten
