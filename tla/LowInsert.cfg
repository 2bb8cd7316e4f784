SPECIFICATION FullSpec
CONSTANTS
  K = 2
  Keys = {1, 2, 3, 4, 5}
  Vals = {1}
  MaxEntries = 3
  BulkSets <- NotTheSmallest
  LoadSize = 6
  Ops <- AllOps
  CrashAt = {}
  MaxCrashes = 0
  Reuse = FALSE
PROPERTY ImplementsKvStore
