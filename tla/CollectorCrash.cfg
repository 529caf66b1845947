CONSTANTS
  BrowserCount = 2
  Ids <- DeepIds
  Shards <- DeepShards
  AssignedIds <- DeepAssignedIds
  Assignments <- DeepAssignments
  CallSize = 2
  MaxBrowserErrors = 2
  SyncInterval = 2
  MaxClock = 1
  MaxCrashes = 1
  i1 = i1
  i2 = i2
  i3 = i3
  i4 = i4
  A = A
  B = B
  C = C
SYMMETRY SameShard
SPECIFICATION Spec
INVARIANTS
  TypeOK
  FinalAccounted
  FinalMissesFew
  MetricsCoverCheckpoints
  OnlyUnfinishedFetched
  UnstoppedSummary
  CutoffCoversChallenges
  SafeResultsPersisted
PROPERTIES
  ImplementsResumableRun
  StopIsSticky
