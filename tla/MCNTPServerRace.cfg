\* Full client requests only: all handlers parse the one buffer of serve().
SPECIFICATION Spec
CONSTANTS
  N = 2
  Strata <- MCStrata
  Delays <- MCOneDelay
  ConfigStratum = 2
  Packets <- MCRequests
  MaxPackets = 2
INVARIANTS
  OriginEchoed
