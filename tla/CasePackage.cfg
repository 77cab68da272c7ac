SPECIFICATION Spec
CONSTANTS
  Writers = {w1, w2}
  Operations = {"CUSTODY", "SCAN", "SANITIZE"}
  Old = Old
  Damaged = Damaged
  NoOne = NoOne
  MaxCrashes = 1
INVARIANTS
  ImportIsSnapshot
  RestoreIsSnapshot
  WholeUnlessCut
  RefusedForAReason
SYMMETRY Symmetry
CHECK_DEADLOCK FALSE
