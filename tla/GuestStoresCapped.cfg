SPECIFICATION Spec
CONSTANTS
  Sessions = {s1}
  Instances = {i1}
  Components <- MCComponents
  Names <- MCNames
  Budgets = {0, 1}
  DefaultFuel = 3
  MemoryCap = 2
  TableCap = 2
  MemoriesCap = 2
  TablesCap = 2
  InstancesCap = 2
  MaxSize = 3
  MaxCalls = 2
INVARIANT EveryStoreCapped
CHECK_DEADLOCK FALSE
