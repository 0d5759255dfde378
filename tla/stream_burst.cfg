SPECIFICATION Spec
CONSTANTS
  SeqModulus = 65536
  AcceptableDistance = 128
  Leeway = 3
  InitialSeqs = {21280}
  WriteSizes = {129}
  MaxSegs <- Segs0_129
  ReadSizes = {1, 2}
  Readers = {}
  Flushers = {"initiator"}
  Shutters = {}
  Split = FALSE
  Reorder = FALSE
  MaxLoss = 0
  MaxDup = 0
  MaxSpurious = 0
INVARIANT FreshDataNotSuspicious
CHECK_DEADLOCK FALSE
