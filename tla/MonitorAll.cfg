CONSTANTS
  Browsers <- TwoBrowsers
  Share <- UnevenShare
  Milestone = 2
  MaxKills = 1
SPECIFICATION FairSpec
INVARIANTS
  CountBetween
  MilestoneLines
  StaysUntilDone
PROPERTIES
  MonitorEnds
