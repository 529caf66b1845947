CONSTANTS
  BrowserCount = 2
  Ids <- FlatIds
  Shards <- FlatShards
  AssignedIds <- FlatAssignedIds
  Assignments <- FlatAssignments
  CallSize = 1
  MaxBrowserErrors = 2
  SyncInterval = 2
  MaxClock = 0
  MaxCrashes = 0
  i1 = i1
  i2 = i2
  i3 = i3
  i4 = i4
  A = A
  B = B
  C = C
SPECIFICATION Spec
INVARIANT
  AttemptSummarized
