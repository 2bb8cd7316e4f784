SPECIFICATION FullSpec
CONSTANTS
  K = 3
  Keys = {1, 2, 3, 4, 5, 6}
  Vals = {1}
  MaxEntries = 3
  BulkSets <- ManyEntries
  LoadSize = 8
  Ops = {"insert", "remove"}
  CrashAt = {}
  MaxCrashes = 0
  Reuse = FALSE
INVARIANT TypeOK
INVARIANT Routed
INVARIANT ListMatchesIndex
INVARIANT IdleDurable
INVARIANT ScansExact
PROPERTY FreshEntry
PROPERTY CallReturns
PROPERTY ImplementsKvStore
