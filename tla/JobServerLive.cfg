SPECIFICATION FairSpec
CONSTANTS
  t1 = t1
  Jobs = {j1, j2}
  Targets = {t1}
  NoOwner = NoOwner
  DiskFaults = FALSE
  Requests <- RunAndScan
  NoRequest = NoRequest
  PoolSize = 1
  MaxUnits = 1
  MaxCrashes = 1
INVARIANTS
  ActiveHasThread
  CertificateStands
PROPERTIES
  TerminalImmutable
  ImplementsLifecycle
  EveryJobEnds
  LocksReleased
CHECK_DEADLOCK FALSE
