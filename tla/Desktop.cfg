SPECIFICATION FairSpec
CONSTANTS
  MaxTasks = 2
  Offered = {"drive", "file", "scan"}
INVARIANTS
  OneOperation
  QuietOffersStart
  CancelStopsTask
PROPERTIES
  StartComesBack
  DetectComesBack
CHECK_DEADLOCK FALSE
