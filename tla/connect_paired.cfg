SPECIFICATION FairSpec
CONSTANTS
  a = a
  b = b
  Addrs <- TwoSockets
  Connects <- Crosswise
  SeqModulus = 4
  Ids = {0, 3}
  InitialSeqs = {0, 3}
  MaxHandles = 6
  MaxConnects = 3
  MaxSends = 1
  MaxDrops = 0
  Reorder = FALSE
  MaxLoss = 0
  MaxDup = 0
INVARIANTS
  HandshakeAgrees
  MailboxFromPeer
  OnlyConnectsCollide
PROPERTIES
  ConnectReturns
CHECK_DEADLOCK FALSE
