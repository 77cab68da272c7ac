SPECIFICATION FairSpec
CONSTANTS
  MaxOutput = 4
  Capacity = 2
INVARIANTS
  WholeIfReported
  NoChildLeft
PROPERTY
  EveryCallReturns
CHECK_DEADLOCK FALSE
