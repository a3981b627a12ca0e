SPECIFICATION FairSpec
CONSTANTS
  Handles = {h1}
  MaxBatches = 2
  MaxPush = 2
  ClosesBodyEarly = TRUE
INVARIANTS SessionGrammar BodyIntact
PROPERTIES FreeTerminates HandleCompletes
CHECK_DEADLOCK FALSE
