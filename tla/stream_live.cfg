SPECIFICATION FairSpec
CONSTANTS
  SeqModulus = 8
  AcceptableDistance = 2
  Leeway = 1
  InitialSeqs = {4, 6}
  WriteSizes = {1, 2}
  MaxSegs <- Segs12
  ReadSizes = {2}
  Readers = {"initiator", "acceptor"}
  Flushers = {"initiator", "acceptor"}
  Shutters = {}
  Split = FALSE
  Reorder = FALSE
  MaxLoss = 0
  MaxDup = 0
  MaxSpurious = 0
INVARIANT NoStrandedCall
PROPERTY DataDelivered
PROPERTY FlushReturns
CHECK_DEADLOCK FALSE
