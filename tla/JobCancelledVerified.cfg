SPECIFICATION Spec
CONSTANTS
  t1 = t1
  Jobs = {j1}
  Targets = {t1}
  NoOwner = NoOwner
  DiskFaults = FALSE
  Requests <- OneRun
  NoRequest = NoRequest
  PoolSize = 1
  MaxUnits = 1
  MaxCrashes = 1
INVARIANT
  CancelledNeverVerified
CHECK_DEADLOCK FALSE
