SPECIFICATION Spec
CONSTANTS
  Handles = {h1, h2}
  MaxBatches = 0
  MaxPush = 2
  ClosesBodyEarly = TRUE
SYMMETRY HandleSymmetry
INVARIANTS ResponseInOrder CallerWasAsked
CHECK_DEADLOCK FALSE
