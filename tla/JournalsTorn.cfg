CONSTANTS
  Ids = {i1, i2}
  CallSize = 2
  MaxBrowserErrors = 2
  SyncInterval = 2
  MaxKills = 1
SYMMETRY Interchangeable
SPECIFICATION Spec
INVARIANT FinalSelectable
