SPECIFICATION CostumeSpec
CONSTANTS
  atTable = "atTable"
  atRay = "atRay"
  atFence = "atFence"
  Scenery = {"lamp"}
  Items = {"key"}
  Others = {"Ray"}
  Spot <- Where
  Ends <- Paths
  Start = "atFence"
  MaxInputs = 3
  Facings = {"front", "right"}
INVARIANTS VerbInReach EndsOneWay OneOwner WalkIsShown
PROPERTIES SentenceEnds
