SPECIFICATION FairSpec
CONSTANTS
  W = 2
  M = 5
  Chunks = 5
  ExtraChunk = FALSE
  First = 5
  MaxRetry = 1
  Linger = 1
  SocketErrors = FALSE
  WildMatch = TRUE
  Cap = 2
  NoPacket = NoPacket
INVARIANTS
  TypeOK
  DeliveredInOrder
  SequenceNumbersSuffice
  AnswersMatchTheirPacket
  OnlyReceivedLeaveWindow
  WindowIsConsecutive
PROPERTIES
  SendFileEnds
CHECK_DEADLOCK FALSE
