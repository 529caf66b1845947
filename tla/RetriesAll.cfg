CONSTANTS
  Ids = {i1, i2, i3}
  WafDelays = 3
  TransientDelays = 2
SPECIFICATION FairSpec
INVARIANTS
  NothingGivenUpEarly
  AtMostOneLateCall
PROPERTIES
  TerminalKept
  Returns
