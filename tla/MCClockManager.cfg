SPECIFICATION Spec
CONSTANTS
  Ref = {r1, r2}
  NoRef = NoRef
  Offset <- MCOffset
  NoReading = NoReading
  Priorities <- MCPriorities
  PriorityCeiling = 256
  SampleWindow = 4
  LockThreshold = 2
  FaultThreshold = 4
  HoldoverTimeout = 2
  NotHolding = NotHolding
SYMMETRY Symmetry
INVARIANTS
  HoldoverConsistent
  TrustedOffsetBounded
  FreshLock
  OffsetIsMedian
  SelectsPreferred
