SPECIFICATION Spec
CONSTANTS
  a = a
  b = b
  Addrs <- TwoSockets
  Connects <- Crosswise
  SeqModulus = 4
  Ids = {0, 1}
  InitialSeqs = {3}
  MaxHandles = 3
  MaxConnects = 2
  MaxSends = 0
  MaxDrops = 0
  Reorder = FALSE
  MaxLoss = 0
  MaxDup = 0
INVARIANTS
  InsertIsNew
CHECK_DEADLOCK FALSE
