SPECIFICATION MCSpec
CONSTANTS
  Devices = {d1, d2}
  Signals = {}
  r1 = r1
  r2 = r2
  n1 = n1
  n2 = n2
  CommandRefs = {r1, r2}
  Names = {n1, n2}
  Writable = {n1}
  Values = {0, 1}
  Controls <- MCControls
  Definition <- MCDefinition
  MaxCalls = 3
  None = None
INVARIANTS
  NoThreadAfterDelete
  StartReplacesNoThread
  MenuMatchesState
PROPERTIES
  DevicesStableDuringPass
  StopReturns
  ServesInOrder
  NothingBeforeReload
CHECK_DEADLOCK FALSE
