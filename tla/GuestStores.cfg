SPECIFICATION FairSpec
CONSTANTS
  Sessions = {s1}
  Instances = {i1}
  Components <- MCComponents
  Names <- MCNames
  Budgets = {0, 1}
  DefaultFuel = 3
  MemoryCap = 2
  TableCap = 2
  MemoriesCap = 2
  TablesCap = 2
  InstancesCap = 2
  MaxSize = 2
  MaxCalls = 2
INVARIANTS FuelIsThisRuns SessionsStayUnderCap LimitHasItsPrefix
PROPERTIES EveryRunEnds
CHECK_DEADLOCK FALSE
