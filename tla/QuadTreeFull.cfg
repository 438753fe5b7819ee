SPECIFICATION Spec
CONSTANTS
  Size = 4
  Capacity = 4
  Places <- MCPlaces
  Ids = {"SFD"}
  MaxAids = 5
INVARIANT
  InsertFindsAChild
CHECK_DEADLOCK FALSE
