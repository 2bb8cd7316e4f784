SPECIFICATION FullSpec
CONSTANTS
  K = 3
  Keys = {1, 2, 3}
  Vals = {1}
  MaxEntries = 1
  BulkSets = {}
  LoadSize = 6
  Ops = {"insert"}
  CrashAt = {"idle"}
  MaxCrashes = 1
  Reuse = FALSE
PROPERTY ImplementsKvStore
