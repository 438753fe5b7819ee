SPECIFICATION MCSpec
CONSTANTS
  DataRefs = {d1, d2}
  MaxMessages = 3
  None = None
  NumRefs = 1
  ReadOffset = 4
  NameLength = 2
  ICAOLength = 1
  MaxArriving = 1
INVARIANTS
  EntryOutlivesDisconnect
  AnswersReachTheirRequests
PROPERTIES
  UpdatesDelivered
  StopEndsOpenStream
  DisconnectEndsClient
CHECK_DEADLOCK FALSE
