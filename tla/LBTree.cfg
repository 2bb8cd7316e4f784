SPECIFICATION Spec
CONSTANTS
  Vals = {1}
  LEAF_KEY_NUM = 3
  NON_LEAF_KEY_NUM = 2
  LineSlots <- TwoLines
  Word1 = {2}
  Loads <- Shapes
  Writers = {w1, w2}
  Scanners = {s}
  Finders = {s}
  WriterOps = {"insert", "update", "remove"}
  ScanSizes = {2}
  DeepWriters = 1
  GapOps = {}
  LoadFlushed = TRUE
  MaxCalls = 2
  MaxReads = 1
  MaxLeaves = 7
  MaxNodes = 12
INVARIANT WellFormed
INVARIANT SearchSeesAll
INVARIANT DurableList
INVARIANT ReadsAnswer
PROPERTY Linearizable
PROPERTY CallsReturn
CHECK_DEADLOCK FALSE
