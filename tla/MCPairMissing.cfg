SPECIFICATION Spec
CONSTANTS
  Scenarios <- MCReliable
  Chunks = 3
  Entries = 1
  Resends = 1
  Uninit = {0, 3000}
  ServerStart = 1
  AckLike = {"ACK"}
  Cap = 3
  NoPacket = NoPacket
INVARIANTS
  CheckedFileExists
CHECK_DEADLOCK FALSE
