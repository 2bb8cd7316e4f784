SPECIFICATION Spec
CONSTANTS
  Keys = {1, 2, 3}
  Vals = {1, 2}
  NoEntry = NoEntry
  SampleM = 2
  HitPerMille = 400
  UpdateAbsent = FALSE
  MaxGets = 5
INVARIANT Coherent
PROPERTY GetReturnsStored
