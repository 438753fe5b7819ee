SPECIFICATION Spec
CONSTANTS
  mach = mach
  ap1 = ap1
  None = None
  Buttons <- MCButtons
  Mapped = {mach, ap1}
  ReportId = 240
  Outputs <- MCOutputs
  Numbers = {9, 10}
  Digit <- MCDigit
  NoDigits <- MCNoDigits
  Pattern <- MCPattern
  MaxObjects = 2
  QueueSize = 1
  MaxReports = 2
INVARIANTS
  PressesSentOnce
  FieldsAtOffsets
  DigitsOfOneNumber
CHECK_DEADLOCK FALSE
