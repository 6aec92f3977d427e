SPECIFICATION FairSpec
CONSTANTS
  MaxThreads = 2
  MaxBreaks = 2
  MaxDelay = 0
  walking = walking
  dialog = dialog
  NoCond = NoCond
  Conds <- Dialog
  ScriptConds = {}
PROPERTIES
  SleepersWake
  FrameConditionsAreSeen
  StoppedThreadsGo
