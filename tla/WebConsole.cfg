SPECIFICATION FairSpec
CONSTANTS
  a1 = a1
  a2 = a2
  Clicks1 = 3
  Clicks2 = 0
  Console = {a1}
  Name = {"a", "A"}
  Lower <- LowerCase
  MaxGroup = 2
  MaxUser = 2
  MaxClicks <- MaxClicksOf
  Databases <- OneGroup
CHECK_DEADLOCK FALSE
INVARIANTS TypeOK RowsCurrent
PROPERTIES UpdateTakesNobody OnlyTogglesChange ReferencesKept OverlayEnds
