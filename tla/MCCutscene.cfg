SPECIFICATION FairSpec
CONSTANTS
  Threads = {t1}
  MaxScenes = 2
  MaxBreaks = 1
  Overlap = TRUE
  OverrideBreaks = TRUE
INVARIANTS
  PCutsceneIsAlive
  SceneHasWaker
PROPERTIES
  InputIsGivenBack
  CallerComesBack
