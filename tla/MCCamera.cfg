SPECIFICATION CameraSpec
CONSTANTS
  narrow = narrow
  wide = wide
  Rooms = {narrow, wide}
  Actors = {a1, a2}
  None = None
  MaxDoings = 3
  Half <- HalfOf
  Width <- WidthOf
  Places = {0, 6}
  Bounds <- ToTheLeft
  Closeups = {narrow}
INVARIANTS EnteredIsCurrent ThreadsOfTheRoom LeftRoomIsEmpty CameraInRoom PanIsKept
SYMMETRY AnyActor
