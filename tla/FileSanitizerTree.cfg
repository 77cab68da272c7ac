SPECIFICATION Spec
CONSTANTS
  Files = {f1, f2, f3}
  NoFile = NoFile
  MaxChunks = 2
  Passes = 2
  ToolPasses = 1
  IOFaults = TRUE
SYMMETRY Symmetry
INVARIANTS
  WipedIfReported
  CancelStopsWriting
  CancelKeepsFiles
PROPERTY
  ProgressMonotone
CHECK_DEADLOCK FALSE
