SPECIFICATION FSpec
CONSTANTS
  A1 = A1
  A2 = A2
  Zone1 = Zone1
  Zone2 = Zone2
  Gateways = {A1, A2}
  Zones = {Zone1}
  NoGateway = NoGateway
  MaxReboots = 1
  Peer <- MCPeer
  Home <- MCHome
  SpuriousTimeouts = TRUE
  MaxGeneration = 2
  MaxInFlight = 1
  MaxCrashes = 0
  MaxFaults = 1
INVARIANTS
  FTypeOK
  FramesAreDurable
  FollowedEpochIsDurable
  FenceIsSaved
PROPERTIES
  ImplementsEpochLease
  MovesAreFenced
