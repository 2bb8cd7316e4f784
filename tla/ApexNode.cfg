SPECIFICATION Spec
CONSTANTS
  Keys = {1, 2, 3, 4, 5, 6, 7}
  InvalidKey = 9
  w1 = w1
  w2 = w2
  r1 = r1
  s1 = s1
  Writers = {w1, w2}
  Readers = {r1}
  Scanners = {s1}
  PROBING_LENGTH = 2
  SCALE_FACTOR = 6
  OVERFLOW_FINGER_LENGTH = 2
  BlockSlots = 2
  IndexLength = 1
  WordBits = 2
  hashcode1B <- MCHash
  Cdf <- MCCdf
  ReuseBlocks = FALSE
  Scenarios <- MCScenarios
CHECK_DEADLOCK FALSE
INVARIANT WellFormed
INVARIANT NoLeak
INVARIANT ReadsAnswer
PROPERTY Durable
PROPERTY CallsReturn
