SPECIFICATION Spec
CONSTANTS
  Threads = {t1}
  MaxScenes = 1
  MaxBreaks = 2
  Overlap = FALSE
  OverrideBreaks = FALSE
INVARIANTS
  SkippedSceneStopsPlaying
