SPECIFICATION Spec
CONSTANTS
  SeqModulus = 8
  AcceptableDistance = 2
  Leeway = 1
  InitialSeqs = {3}
  WriteSizes = {1, 2}
  MaxSegs <- Segs20
  ReadSizes = {1, 2}
  Readers = {"acceptor"}
  Flushers = {"initiator"}
  Shutters = {"acceptor"}
  Split = FALSE
  Reorder = TRUE
  MaxLoss = 1
  MaxDup = 1
  MaxSpurious = 1
INVARIANT InOrderPrefix
INVARIANT FlushedIsReceived
INVARIANT NumbersMatchSegments
INVARIANT NoStrandedCall
INVARIANT FreshAckNotSuspicious
PROPERTY NeverRetracted
PROPERTY ImplementsDuplex
CHECK_DEADLOCK FALSE
