SPECIFICATION Spec
CONSTANTS
  TimeModulus = 8
  Offsets = {0, 3, 4, 6, 7}
  StartTimes = {0, 2, 5, 7}
  MaxDelay = 3
  MaxTime = 9
  MaxPackets = 4
INVARIANTS
  TypeOK
  SamplesComparable
  ExcessDelayMeasured
CHECK_DEADLOCK FALSE
