SPECIFICATION Spec
CONSTANTS
  Ref = {r1, r2}
  NoRef = NoRef
  Offset <- MCFewOffsets
  NoReading = NoReading
  Priorities <- MCOnePriority
  PriorityCeiling = 256
  SampleWindow = 4
  LockThreshold = 2
  FaultThreshold = 4
  HoldoverTimeout = 1
  NotHolding = NotHolding
PROPERTIES
  ImplementsContract
  StaysLocked
  LossEndsInFault
