CONSTANTS
  BrowserCount = 2
  Ids <- ThinIds
  Shards <- ThinShards
  AssignedIds <- ThinAssignedIds
  Assignments <- ThinAssignments
  CallSize = 1
  MaxBrowserErrors = 2
  SyncInterval = 1
  MaxClock = 0
  MaxCrashes = 1
  i1 = i1
  i2 = i2
  i3 = i3
  i4 = i4
  A = A
  B = B
  C = C
SPECIFICATION FairSpec
PROPERTIES
  AttemptEnds
  RunCompletes
