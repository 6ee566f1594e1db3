SPECIFICATION FairSpec
CONSTANTS
  MaxPackets = 3
  SocketCap = 2
  MaxWait = 4
  NoPacket = NoPacket
INVARIANTS
  TypeOK
  WaitCountIsOfHeldPacket
  NoDuplicate
  OvertakenByOne
  HeldIsNewest
PROPERTIES
  DelayedIsReleased
  ImplementsLink1
  ImplementsLink2
CHECK_DEADLOCK FALSE
