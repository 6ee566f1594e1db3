SPECIFICATION FairSpec
CONSTANTS
  Plans <- MCPlans
  Networks <- MCNetworks
  Size = 2
  Entries = 1
  Uninit = {0, 1, 2}
  Cap = 2
  NoPacket = NoPacket
INVARIANTS
  TypeOK
  SentIsReceivedInOrder
  NothingAcceptedTwice
  ToldDeletedIsDeleted
PROPERTIES
  CommandsComplete
CHECK_DEADLOCK FALSE
