SPECIFICATION FullSpec
CONSTANTS
  K = 3
  Keys = {1, 2, 3, 4}
  Vals = {1, 2}
  MaxEntries = 2
  BulkSets = {}
  LoadSize = 6
  Ops = {"insert", "update"}
  CrashAt <- QuietPoints
  MaxCrashes = 1
  Reuse = FALSE
INVARIANT RecoverDefined
PROPERTY ImplementsFragileKv
PROPERTY KeysSurvive
