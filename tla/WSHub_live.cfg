CONSTANTS
  Client = {c1, c2}
  Cap = 1
  MaxBroadcasts = 2
SPECIFICATION BroadcasterSpec
PROPERTIES
  BroadcastReturns
  DisconnectCleansUp
  QueuedIsWritten
