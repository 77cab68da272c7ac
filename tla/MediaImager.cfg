SPECIFICATION Spec
CONSTANTS
  Size = 3
  Chunk = 2
  External = {"*", "/"}
  MaxMaps = 3
INVARIANTS
  TypeOK
  MapTellsImage
  MergePointwise
  MergeCanonical
  BlocksOrderFree
  HeaderTruthful
CHECK_DEADLOCK FALSE
