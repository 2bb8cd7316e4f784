SPECIFICATION Spec
CONSTANTS
  Keys <- MCKeys
  KeyMin = 0
  KeyMax = 1023
  MaxFanout = 4
  MaxLeaf = 2
  MinOut = 2
  MaxOut = 3
  Policies = {0, 1, 2}
  Upwards = {FALSE, TRUE}
  Rounding = FALSE
  Loads <- MCLoads
  MaxNodes = 9
  MaxFails = 2
  MaxCalls = 5
INVARIANT Sound
INVARIANT LookupsExact
PROPERTY KeysKept
CHECK_DEADLOCK FALSE
