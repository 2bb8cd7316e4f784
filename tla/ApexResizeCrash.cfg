SPECIFICATION Spec
CONSTANTS
  Keys = {1, 2, 3, 4, 5, 6, 7}
  InvalidKey = 9
  w1 = w1
  w2 = w2
  r1 = r1
  s1 = s1
  Writers = {w1}
  Readers = {}
  Scanners = {}
  PROBING_LENGTH = 2
  SCALE_FACTOR = 12
  OVERFLOW_FINGER_LENGTH = 2
  BlockSlots = 2
  IndexLength = 1
  WordBits = 2
  hashcode1B <- MCHash
  Cdf <- MCOutlierCdf
  ReuseBlocks = FALSE
  Scenarios <- MCOutliers
CHECK_DEADLOCK FALSE
PROPERTY Durable
