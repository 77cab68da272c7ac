SPECIFICATION Spec
CONSTANTS
  SectorCount = 5
  BlockSectors = 3
  Retries = 1
INVARIANTS
  KnownGoodMap
  MapLeadsByOneWrite
  ReturnedMapIsTrue
CHECK_DEADLOCK FALSE
