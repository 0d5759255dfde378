SPECIFICATION Spec
CONSTANTS
  SeqModulus = 65536
  AcceptableDistance = 128
  Leeway = 3
  InitialSeqs = {65534}
  WriteSizes = {1}
  MaxSegs <- Segs02
  ReadSizes = {1, 2}
  Readers = {"initiator"}
  Flushers = {"acceptor"}
  Shutters = {}
  Split = FALSE
  Reorder = FALSE
  MaxLoss = 0
  MaxDup = 0
  MaxSpurious = 0
INVARIANT FlushedIsReceived
CHECK_DEADLOCK FALSE
