SPECIFICATION FairSpec
CONSTANTS
  DataRefs = {d1}
  MaxMessages = 1
  None = None
PROPERTY
  StopStopsStream
CHECK_DEADLOCK FALSE
