SPECIFICATION Spec
CONSTANTS
  a = a
  b = b
  Addrs <- TwoSockets
  Connects <- Crosswise
  SeqModulus = 4
  Ids = {0, 3}
  InitialSeqs = {3}
  MaxHandles = 4
  MaxConnects = 2
  MaxSends = 1
  MaxDrops = 2
  Reorder = TRUE
  MaxLoss = 1
  MaxDup = 1
INVARIANTS
  TypeOK
  LiveIsRouted
CHECK_DEADLOCK FALSE
