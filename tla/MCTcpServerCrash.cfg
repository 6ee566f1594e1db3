SPECIFICATION Spec
CONSTANTS
  Ann = Ann
  Bob = Bob
  Client <- MCClients
  Plans <- MCSingle
  Size = 3
  Entries = 1
  BUFFER_LENGTH = 2
  MaxConns = 4
  MaxMixed = 2
INVARIANTS
  AlwaysChecksListener
CHECK_DEADLOCK FALSE
