SPECIFICATION Spec
CONSTANTS
  t1 = t1
  Jobs = {j1, j2}
  Targets = {t1}
  NoOwner = NoOwner
  DiskFaults = TRUE
  Requests <- SyncRunAndScan
  NoRequest = NoRequest
  PoolSize = 1
  MaxUnits = 1
  MaxCrashes = 1
SYMMETRY Symmetry
INVARIANTS
  TargetExclusion
  LockOwnerActive
  CancelHonoured
CHECK_DEADLOCK FALSE
