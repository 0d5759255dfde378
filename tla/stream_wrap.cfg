SPECIFICATION Spec
CONSTANTS
  SeqModulus = 8
  AcceptableDistance = 2
  Leeway = 1
  InitialSeqs = {5, 6}
  WriteSizes = {1, 2}
  MaxSegs <- Segs03
  ReadSizes = {1, 2}
  Readers = {"initiator"}
  Flushers = {"initiator"}
  Shutters = {}
  Split = FALSE
  Reorder = TRUE
  MaxLoss = 0
  MaxDup = 1
  MaxSpurious = 0
INVARIANT TypeOK
INVARIANT InOrderPrefix
INVARIANT NumbersMatchSegments
INVARIANT WindowedDataNotSuspicious
CHECK_DEADLOCK FALSE
