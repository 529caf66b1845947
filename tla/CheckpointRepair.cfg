CONSTANTS
  Ids = {i1, i2, i3, i4}
  SyncInterval = 3
  CutAtNewline = FALSE
  MaxKills = 3
SYMMETRY Interchangeable
SPECIFICATION Spec
INVARIANTS
  SyncedSurvives
  AppendsToWholeLines
  RecordedOnce
  FinalHoldsProducts
PROPERTIES
  ImplementsResumableRun
