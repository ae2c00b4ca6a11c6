SPECIFICATION FairSpec
CONSTANTS
  A1 = A1
  A2 = A2
  Zone1 = Zone1
  Zone2 = Zone2
  Gateways = {A1, A2}
  Zones = {Zone1, Zone2}
  Peer <- MCPeer
  Home <- MCHome
  SpuriousTimeouts = TRUE
  MaxGeneration = 2
  MaxInFlight = 1
  MaxCrashes = 1
  MaxFaults = 1
INVARIANTS
  TypeOK
  AdvertisedIsDurable
  ForeignRowsHaveEvidence
  CheckpointRestorable
  DeposedIsStandby
  ControlIsDurable
PROPERTIES
  EpochNeverFallsBack
  DemotionSurvives
  OverlapEnds
