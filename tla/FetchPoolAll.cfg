CONSTANTS
  Size = 4
  Concurrency = 2
  RequestTimeout = 2
  Slack = 1
  MaxLag = 1
SPECIFICATION FairSpec
INVARIANTS
  TerminalIsOwnAnswer
  UnrequestedIsRetried
  WithinScriptTimeout
PROPERTIES
  ChallengeStopsPage
  CallReturns
