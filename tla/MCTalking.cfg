SPECIFICATION Spec
CONSTANTS
  MaxSlots = 2
  MaxSounds = 2
  Loops <- TwiceOrEndless
  MaxPauses = 1
  Entities = {a1, a2}
  MaxLines = 2
  MaxTime = 0
INVARIANTS OneVoice PlaysAsAsked PausedWithTheGame
SYMMETRY AnyEntity
