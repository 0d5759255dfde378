SPECIFICATION FairSpec
CONSTANTS
  SeqModulus = 65536
  AcceptableDistance = 128
  Leeway = 3
  InitialSeqs = {21280}
  WriteSizes = {1}
  MaxSegs <- Segs11
  ReadSizes = {1, 2}
  Readers = {"initiator"}
  Flushers = {"initiator"}
  Shutters = {}
  Split = TRUE
  Reorder = FALSE
  MaxLoss = 0
  MaxDup = 0
  MaxSpurious = 0
PROPERTY DataDelivered
CHECK_DEADLOCK FALSE
