SPECIFICATION JSpec
CONSTANTS
  A = A
  dry = dry
  note = note
  Gateways = {A}
  First = A
  Sides = {dry}
  NoGateway = NoGateway
  NoReading = NoReading
  NoReport = NoReport
  WindowCapacity = 1
  Backlog = 1
  MaxSamples = 1
  MaxBoots = 2
  MaxEpoch = 1
  Others = {note}
  OthersHigh = {}
  Refused = {}
  Capacity = 2
  Reserve = 1
  MaxReceipts = 2
  MaxFaults = 1
  NoMessage = NoMessage
INVARIANTS
  DecisionsLeaveEvidence
  BaselineIsRecorded
PROPERTIES
  NothingIsLost
  EndToEndCustody
  RSpec
  UploadSpec
CHECK_DEADLOCK FALSE
