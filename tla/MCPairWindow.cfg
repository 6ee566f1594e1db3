SPECIFICATION FairSpec
CONSTANTS
  Scenarios <- MCScenarios
  Chunks = 3
  Entries = 1
  Resends = 3
  Uninit = {0, 3000}
  ServerStart = 1
  AckLike = {"ACK"}
  Cap = 3
  NoPacket = NoPacket
INVARIANTS
  TypeOK
  AckedPairIsAccepted
  WrittenInOrder
  SentIsReceivedInOrder
  ToldDeletedIsDeleted
PROPERTIES
  CommandsComplete
CHECK_DEADLOCK FALSE
