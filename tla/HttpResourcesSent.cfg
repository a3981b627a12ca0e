SPECIFICATION Spec
CONSTANTS
  Names <- MCOneName
  Values = {v1}
  Lines = {get}
  GetLine = get
  Timeouts = {none, short}
  NoTimeouts = none
  StatusCodes = {200}
  MaxRep <- MCMaxRep
  MaxEntries = 1
  MaxOwned = 2
INVARIANT SentAsConstructed
CHECK_DEADLOCK FALSE
