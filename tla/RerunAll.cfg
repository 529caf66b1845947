CONSTANTS
  Ids = {i1, i2}
  Torn = torn
  CallSize = 2
  MaxBrowserErrors = 2
  SyncInterval = 2
  MaxKills = 1
SYMMETRY Interchangeable
SPECIFICATION RerunSpec
INVARIANTS
  LatencyLossBounded
  ErrorLossBounded
  RowsMatchRecords
  SealedIsKept
  DestinationIsSelection
  ReportAccounts
