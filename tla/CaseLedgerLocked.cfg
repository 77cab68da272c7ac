SPECIFICATION Spec
CONSTANTS
  Writers = {w1, w2, w3}
  NoOne = NoOne
  Operations <- LockedOperations
  ReadFaults = FALSE
  WriteFaults = TRUE
  MaxCrashes = 1
SYMMETRY Symmetry
INVARIANTS
  CustodyVerifies
  FilesAgree
  CustodyFirst
PROPERTY
  AuditAppendOnly
CHECK_DEADLOCK FALSE
