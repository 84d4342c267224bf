CONSTANTS
  PRs <- MCPRs
  Created <- MCCreated
  Start = 12
  SyncLimit = 2
  SearchLimit = 3
  MinTargets = 4
  MinSeed = 1
  SeedLookback = 1
  BootstrapLookback = 1
  RescanLookback = 6
  BackfillWindow = 4
  Overlap = 1
  MaxWindows = 2
  HardLimit = 3
  MinSpan = 1
  MaxDepth = 2
  MaxTime = 15
  MaxMishaps = 2
  MaxTouches = 1
SPECIFICATION HistorySpec
INVARIANT NoOtherGap
CHECK_DEADLOCK FALSE
PROPERTY BackfillProgress
