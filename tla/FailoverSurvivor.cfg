SPECIFICATION FairFSpec
CONSTANTS
  A1 = A1
  A2 = A2
  Zone1 = Zone1
  Zone2 = Zone2
  Gateways = {A1, A2}
  Zones = {Zone1}
  NoGateway = NoGateway
  MaxReboots = 0
  Peer <- MCPeer
  Home <- MCHome
  SpuriousTimeouts = FALSE
  MaxGeneration = 3
  MaxInFlight = 1
  MaxCrashes = 2
  MaxFaults = 0
PROPERTIES
  SurvivorServes
