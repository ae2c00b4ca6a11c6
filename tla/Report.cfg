SPECIFICATION RSpec
CONSTANTS
  A = A
  B = B
  dry = dry
  wet = wet
  Gateways = {A, B}
  First = A
  Sides = {dry, wet}
  NoGateway = NoGateway
  NoReading = NoReading
  NoReport = NoReport
  WindowCapacity = 2
  Backlog = 1
  MaxSamples = 2
  MaxBoots = 2
  MaxEpoch = 2
SYMMETRY SideSymmetry
INVARIANTS
  RTypeOK
  BaselineIsHeld
PROPERTIES
  KeepsHighReports
  DecidesOnNewerSamples
CHECK_DEADLOCK FALSE
