SPECIFICATION FairSpec
CONSTANTS
  MaxIds = 3
  Delays <- TwoDelays
  Ticks <- TwoFrames
  MaxLoads = 2
INVARIANTS
  NoneLost
  IdsAreFresh
  NoneOverdue
PROPERTIES
  RunsOnce
  WaitingRuns
