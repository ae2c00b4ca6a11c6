SPECIFICATION FairUploadSpec
CONSTANTS
  A = A
  B = B
  report = report
  sample = sample
  partial = partial
  Gateways = {A, B}
  Messages = {report, sample, partial}
  Offered <- OfferedTo
  Reports = {report, sample}
  Results = {}
  High = {report}
  Invalid = {partial}
  Capacity = 2
  Reserve = 1
  MaxReceipts = 1
  MaxFaults = 1
  NoMessage = NoMessage
INVARIANTS
  UploadTypeOK
  AcknowledgedIsKept
  ReserveIsKept
PROPERTIES
  ImplementsCustody
  ReplayIsFifo
  EveryRowIsStored
CHECK_DEADLOCK FALSE
