SPECIFICATION Spec
CONSTANTS
  Scenarios <- MCReliable
  M = 8
  Starts = {3, 8}
  Chunks = 2
  Linger <- MCLinger
  MaxAsked = 2
  Cap = 3
  NoPacket = NoPacket
INVARIANTS
  ResponseIsForRequest
CHECK_DEADLOCK FALSE
