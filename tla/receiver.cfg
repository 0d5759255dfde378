SPECIFICATION FairSpec
CONSTANTS
  ByteModulus = 5
  Addrs = {a}
  Ids = {0}
  Packets <- SomePackets
  Probes <- SomeProbes
  MaxHandles = 2
  MaxPackets = 1
  MaxProbes = 1
  MaxFaults = 1
  MayDrop = TRUE
  MayFail = TRUE
INVARIANTS
  NoStrandedDatagram
  RoutedInOrder
  DecodedIsMeant
PROPERTIES
  AllHandled
  ImplementsRouting
CHECK_DEADLOCK FALSE
