SPECIFICATION FairSpec
CONSTANTS
  Writers = {w1, w2}
  NoOne = NoOne
  Operations <- AllOperations
  ReadFaults = TRUE
  WriteFaults = TRUE
  MaxCrashes = 1
INVARIANTS
  ChainVerifies
PROPERTY
  LockComesFree
CHECK_DEADLOCK FALSE
