SPECIFICATION Spec
CONSTANTS
  MaxThreads = 2
  MaxBreaks = 2
  MaxDelay = 1
  walking = walking
  dialog = dialog
  NoCond = NoCond
  Conds <- BothConds
  ScriptConds <- Walking
INVARIANTS
  SleeperHasWaker
  OneWaker
PROPERTIES
  BreaksAreExact
  KeepsPromise
