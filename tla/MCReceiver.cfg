SPECIFICATION Spec
CONSTANTS
  MaxConns = 2
  MaxQueue = 2
  PRN = {1, 2, 3}
  MaxSatellites = 2
  MinSatellites = 4
  Second = 6
  Theta = 4
  PollDelay = 2
  MaxTime = 15
INVARIANTS
  TypeOK
  LockIsOfThisConnection
  PulseMeasured
PROPERTIES
  LossIsNoticed
CHECK_DEADLOCK FALSE
