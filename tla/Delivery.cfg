SPECIFICATION FairDSpec
CONSTANTS
  Commands = {c1}
  NoCommand = NoCommand
  Capacity = 1
  MaxReboots = 2
  MaxFaults = 1
  QueueCapacity = 1
  MaxRetries = 2
  MaxGatewayCrashes = 1
INVARIANTS
  DTypeOK
  NotDispatchedNeverSent
  NoCommandIsLost
PROPERTIES
  EveryDecisionIsAnswered
  ExecutionIsReported
CHECK_DEADLOCK FALSE
