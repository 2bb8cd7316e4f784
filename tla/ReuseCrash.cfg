SPECIFICATION FullSpec
CONSTANTS
  K = 2
  Keys = {1, 2, 3, 4}
  Vals = {1}
  MaxEntries = 2
  BulkSets = {}
  LoadSize = 6
  Ops <- AllOps
  CrashAt = {"idle"}
  MaxCrashes = 1
  Reuse = TRUE
PROPERTY FreshEntry
