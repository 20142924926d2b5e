CONSTANTS
  Capability = 4
  ResetLimit = 1
  Movement = {"plain", "sync"}
  MaxFaults = 2
  InPacket = FALSE
SPECIFICATION FairSpec
CHECK_DEADLOCK FALSE
INVARIANTS TypeOK PacketFits ModeAgrees NestingBounded
PROPERTY Recovers
