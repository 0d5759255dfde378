SPECIFICATION FairSpec
CONSTANTS
  MaxPackets = 3
  MaxErrors = 2
  MaxBlocks = 2
  MaxYields = 2
  MayDrop = TRUE
INVARIANTS
  NothingLost
  NoStrandedPacket
PROPERTIES
  AllSent
  TaskEnds
  ImplementsQueue
CHECK_DEADLOCK FALSE
