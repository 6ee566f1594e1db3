SPECIFICATION Spec
CONSTANTS
  W = 3
  M = 8
  Chunks = 5
  ExtraChunk = FALSE
  First = 5
  MaxRetry = 1
  Linger = 1
  SocketErrors = FALSE
  WildMatch = FALSE
  Cap = 2
  NoPacket = NoPacket
INVARIANTS
  RemovedWereReceived
CHECK_DEADLOCK FALSE
