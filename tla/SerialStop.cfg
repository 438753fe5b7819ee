SPECIFICATION FairSpec
CONSTANTS
  Definitions = {d1}
  n1 = n1
  n2 = n2
  Names = {n1, n2}
  Positions = {0, 1}
  Matches <- MCMatches
  MaxAttempts = 1
  MaxTokens = 5
  None = None
PROPERTY
  StopEndsDevice
CHECK_DEADLOCK FALSE
