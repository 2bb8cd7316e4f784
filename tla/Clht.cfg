SPECIFICATION Spec
CHECK_DEADLOCK FALSE
CONSTANTS
  NumThreads = 2
  Keys = {1, 3, 5, 7, 9}
  Builds <- MCBuilds
  FreshValues = TRUE
  MaxCalls = 2
INVARIANT WellFormed
INVARIANT AnswersFit
PROPERTY ImplementsCache
PROPERTY GrowthKeepsKeys
PROPERTY CallsReturn
