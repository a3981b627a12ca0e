SPECIFICATION FairSpec
CONSTANTS
  MaxPush = 3
  MaxCompletes = 2
INVARIANTS TokensInOrder HeadsAreEnded
PROPERTIES FreeTerminates EndReachesGuest
CHECK_DEADLOCK FALSE
