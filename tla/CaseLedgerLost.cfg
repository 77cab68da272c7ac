SPECIFICATION Spec
CONSTANTS
  Writers = {w1, w2}
  NoOne = NoOne
  Operations <- CustodyOrWorker
  ReadFaults = FALSE
  WriteFaults = FALSE
  MaxCrashes = 0
PROPERTY
  AuditAppendOnly
CHECK_DEADLOCK FALSE
