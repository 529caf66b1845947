CONSTANTS
  Ids = {i1, i2}
  SyncInterval = 3
  CutAtNewline = TRUE
  MaxKills = 1
SPECIFICATION Spec
INVARIANT
  FinalHoldsProducts
