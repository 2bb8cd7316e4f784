SPECIFICATION Spec
CONSTANTS
  K = 2
  Keys = {1, 2, 3, 4}
  Vals = {1}
  MaxEntries = 3
  BulkSets = {}
  LoadSize = 6
  Ops = {"insert", "remove"}
  CrashAt = {}
  MaxCrashes = 0
  Reuse = FALSE
INVARIANT LongScanExact
