SPECIFICATION FairSpec
CONSTANTS
  Definitions = {d1, d2}
  n1 = n1
  n2 = n2
  Names = {n1, n2}
  Positions = {0, 1}
  Matches <- MCMatches
  MaxAttempts = 2
  MaxTokens = 5
  None = None
INVARIANTS
  ReadOnce
  OneReader
  CommandsAreChanges
PROPERTY
  StopEndsIdleDevice
CHECK_DEADLOCK FALSE
