CONSTANTS
  Client = {c1}
  Cap = 1
  MaxBroadcasts = 2
SPECIFICATION SafeSpec
PROPERTIES
  SendReturnsFalse
