SPECIFICATION FairSpec
CONSTANTS
  Scenarios <- MCScenarios
  M = 8
  Starts = {3, 8}
  Chunks = 2
  Linger <- MCLinger
  MaxAsked = 2
  Cap = 3
  NoPacket = NoPacket
INVARIANTS
  TypeOK
  FileIsOfOneRequest
  NothingAcceptedTwice
  AcknowledgedIsRead
  NumbersLearnedFromPackets
  HandshakeIsOwn
PROPERTIES
  RequestsComplete
CHECK_DEADLOCK FALSE
