SPECIFICATION FairPSpec
CONSTANTS
  P1 = P1
  P2 = P2
  A = A
  B = B
  Publishers = {P1, P2}
  Gateways = {A, B}
  Reaches <- MCReaches
  Fragile = {B}
  Contents = {default, dry}
  Default = default
  NoPolicy = NoPolicy
  Corrupt = Corrupt
  NoPublisher = NoPublisher
  MaxVersion = 2
  Backlog = 1
INVARIANTS
  PTypeOK
  LastKnownGood
PROPERTIES
  ImplementsHistory
  HeadReachesGateways
CHECK_DEADLOCK FALSE
