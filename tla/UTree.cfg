SPECIFICATION Spec
CONSTANTS
  Keys = {1, 2, 3, 4, 5, 6, 7, 8}
  Vals = {1, 2}
  cardinality = 4
  Writers = {w}
  Readers = {r}
  Load <- MostlyAscending
  Targets = {4, 5, 8}
  WriterOps = {"insert", "remove"}
  EmptyLeaves = FALSE
  SplitBetweenReads = FALSE
  HeadKeys = {0}
  MaxRetry = 3
  MaxCalls = 2
  MaxPages = 13
  MaxNodes = 10
INVARIANT WellFormed
INVARIANT ScanExact
INVARIANT SearchAnswers
PROPERTY ImplementsKvStore
