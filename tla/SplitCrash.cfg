SPECIFICATION FullSpec
CONSTANTS
  K = 2
  Keys = {1, 2, 3}
  Vals = {1}
  MaxEntries = 2
  BulkSets = {}
  LoadSize = 6
  Ops <- AllOps
  CrashAt = {"split_entry"}
  MaxCrashes = 1
  Reuse = FALSE
PROPERTY KeysSurvive
