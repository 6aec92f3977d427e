SPECIFICATION Spec
CONSTANTS
  MaxSlots = 2
  MaxSounds = 2
  Loops <- Endless
  MaxPauses = 1
  Entities = {a1}
  MaxLines = 2
  MaxTime = 1
INVARIANTS PauseKeepsTheLine
