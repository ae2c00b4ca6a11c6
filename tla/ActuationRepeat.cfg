SPECIFICATION Spec
CONSTANTS
  c1 = c1
  c2 = c2
  c3 = c3
  Commands = {c1, c2}
  NoCommand = NoCommand
  Capacity = 2
  MaxReboots = 0
  MaxFaults = 0
PROPERTIES
  RepeatReportsOriginal
