SPECIFICATION FairSpec
CONSTANTS
  Devices = {d1}
  Signals = {}
  None = None
PROPERTY
  LateDeviceStartsConnector
CHECK_DEADLOCK FALSE
