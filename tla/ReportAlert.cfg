SPECIFICATION AlertSpec
CONSTANTS
  Faults = {range, stuck}
  Healthy = healthy
  NoSignature = none
  MaxSamples = 3
  InFlight = 3
INVARIANTS
  AlertsAreAdmitted
CHECK_DEADLOCK FALSE
