SPECIFICATION MCSpec
CONSTANTS
  Dialogs <- Names
  Library <- AllFiles
  Actors = {"ray", "reyes"}
  MaxSlots = 2
  DefaultLimit = 2
  MaxStarts = 2
INVARIANTS
  ChoicesAreOffered
  ReadAsWritten
PROPERTIES
  OnceMeansOnce
  LineIsHeard
  ActiveEnds
