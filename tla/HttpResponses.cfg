SPECIFICATION Spec
CONSTANTS
  Names <- MCNames
  Values = {v1}
  Lines = {get}
  GetLine = get
  Timeouts = {none}
  NoTimeouts = none
  StatusCodes = {200, 600}
  MaxRep <- MCMaxRepResponses
  MaxEntries = 1
  MaxOwned = 1
INVARIANTS ContentsFrozen SetReplacesEveryCasing
CHECK_DEADLOCK FALSE
