SPECIFICATION FairSpec
CONSTANTS
  Devices = {d1, d2}
  Signals = {sigint, sigterm}
  None = None
  SignalHosts <- AnyThread
INVARIANTS
  DeviceThreadEndsOnlyByStop
  WorkersDoneAtExit
  NoJoinableThreadAtExit
  DevicesClosedAtExit
PROPERTY
  SignalEndsProgram
CHECK_DEADLOCK FALSE
