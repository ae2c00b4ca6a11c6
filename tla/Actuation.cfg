SPECIFICATION Spec
CONSTANTS
  c1 = c1
  c2 = c2
  c3 = c3
  Commands = {c1, c2, c3}
  NoCommand = NoCommand
  Capacity = 2
  MaxReboots = 2
  MaxFaults = 1
SYMMETRY Permuted
INVARIANTS
  TypeOK
  ExecutionIsOnRecord
  WindowIsBounded
PROPERTIES
  ExecutesOnce
  ActuatorRests
