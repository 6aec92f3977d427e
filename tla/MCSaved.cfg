SPECIFICATION Spec
CONSTANTS
  ray = ray
  reyes = reyes
  sheriff = sheriff
  key = key
  phone = phone
  Bridge = Bridge
  Hotel = Hotel
  Void = Void
  StartScreen = StartScreen
  None = None
  Actors = {ray, reyes, sheriff}
  Objects = {key, phone}
  PseudoObjects = {phone}
  Rooms = {Bridge, Hotel, Void}
  NSlots = 3
  Row = 1
  Shown = 1
  FirstSlots <- MCFirstSlots
  FirstHeld <- MCFirstHeld
  ObjectStates = {0, 1, 2}
  Gone = 2
  InitState <- MCInitState
  InitTouchable <- MCInitTouchable
  Globals = {None, 1}
  MaxRestarts = 1
  MaxDoings = 3
INVARIANTS KeysReachEveryone WindowShowsHeld LoadRestores InventoriesAreAsSaved
CHECK_DEADLOCK FALSE
