CONSTANTS
  IdLines = {p1, p2, p3, p4}
  Junk = junk
  MaxLines = 5
  MaxBatchArg = 2
  BatchSize = 3
  BrowserCounts = {2, 4}
  MaxAttempts = 2
SYMMETRY Interchangeable
SPECIFICATION Spec
INVARIANTS
  PartitionOfSelection
  BalancedRanges
  ResumesSameShards
  ManifestPinsShape
