SPECIFICATION Spec
CONSTANTS
  W = 3
  M = 8
  Chunks = 3
  ExtraChunk = TRUE
  First = 7
  MaxRetry = 1
  Linger = 2
  SocketErrors = TRUE
  WildMatch = TRUE
  Cap = 2
  NoPacket = NoPacket
INVARIANTS
  DeliveredInOrder
CHECK_DEADLOCK FALSE
