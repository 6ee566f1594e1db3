SPECIFICATION Spec
CONSTANTS
  W = 2
  M = 5
  Chunks = 3
  ExtraChunk = TRUE
  First = 5
  MaxRetry = 1
  Linger = 1
  SocketErrors = FALSE
  WildMatch = FALSE
  Cap = 2
  NoPacket = NoPacket
INVARIANTS
  ReceivedFileIsTheFile
CHECK_DEADLOCK FALSE
