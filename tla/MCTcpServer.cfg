SPECIFICATION FairSpec
CONSTANTS
  Ann = Ann
  Bob = Bob
  Client <- MCClients
  Plans <- MCPlans
  Size = 4
  Entries = 1
  BUFFER_LENGTH = 2
  MaxConns = 4
  MaxMixed = 2
INVARIANTS
  TypeOK
  FilesArriveWhole
  ToldDeletedIsDeleted
  AloneReadsItsRequest
PROPERTIES
  CommandsComplete
CHECK_DEADLOCK FALSE
