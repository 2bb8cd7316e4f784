SPECIFICATION Spec
CONSTANTS
  Keys = {1, 2, 3, 4, 5, 6, 7, 8}
  InvalidKey = 9
  w1 = w1
  w2 = w2
  r1 = r1
  s1 = s1
  Writers = {w1}
  Readers = {}
  Scanners = {}
  PROBING_LENGTH = 2
  SCALE_FACTOR = 12
  OVERFLOW_FINGER_LENGTH = 2
  BlockSlots = 1
  IndexLength = 1
  WordBits = 2
  hashcode1B <- MCHash
  Cdf <- MCOnePlace
  ReuseBlocks = TRUE
  Scenarios <- MCReuse
CHECK_DEADLOCK FALSE
INVARIANT WellFormed
PROPERTY Durable
