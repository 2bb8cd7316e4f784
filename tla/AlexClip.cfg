SPECIFICATION Spec
CONSTANTS
  Keys <- ClipKeys
  KeyMin = 0
  KeyMax = 1023
  MaxFanout = 4
  MaxLeaf = 2
  MinOut = 2
  MaxOut = 3
  Policies = {1}
  Upwards = {FALSE}
  Rounding = FALSE
  Loads <- ClipLoads
  MaxNodes = 9
  MaxFails = 2
  MaxCalls = 5
INVARIANT GetLeafFinds
CHECK_DEADLOCK FALSE
