SPECIFICATION FairSpec
CONSTANTS
  PBufLen = 4
  MaxPackets = 3
  MaxCommands = 4
  NoPacket = NoPacket
CHECK_DEADLOCK FALSE
INVARIANTS ExecutesOwnPackets NoPacketLost
PROPERTIES ImplementsQueue AllExecuted
