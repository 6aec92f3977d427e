SPECIFICATION FairSpec
CONSTANTS
  MaxSlots = 1
  MaxSounds = 2
  Loops <- Endless
  MaxPauses = 1
  Entities = {a1}
  MaxLines = 3
  MaxTime = 1
PROPERTIES TalkEnds
INVARIANTS LinesInOrder
