SPECIFICATION FairSpec
CONSTANTS
  Handles = {h1}
  MaxBatches = 1
  MaxPush = 1
  ClosesBodyEarly = FALSE
PROPERTY FreeTerminates
CHECK_DEADLOCK FALSE
