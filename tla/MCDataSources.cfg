SPECIFICATION MCSpec
CONSTANTS
  i1 = i1
  i2 = i2
  heading = heading
  speed = speed
  null = null
  Value = Value
  Equals = Equals
  Zero = Zero
  None = None
  Ids = {i1, i2}
  Hows = {Value, Equals, Zero}
  Static = {Zero}
  AsIs = Value
  Refs = {heading, speed, null}
  NullRefs = {null}
  Contents <- MCContents
  MaxFiles = 1
  Readers = {device, lua}
  TypesOf <- MCTypesOf
  MaxWrites = 2
  Issues <- MCIssues
  MaxCommands = 2
  Midnight = 46797
  Step = 3
  MaxTime = 12
  MaxPresses = 2
INVARIANTS
  TypesOK
  NumbersArePositions
  ValuesReachTheirNames
  AloneAsOrdered
  FaceShowsTime
PROPERTIES
  GettersAnswer
  CommandsShown
  YearGoesAway
CHECK_DEADLOCK FALSE
