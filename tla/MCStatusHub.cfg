SPECIFICATION Spec
CONSTANTS
  Client = {c1, c2}
  Service = {ntp}
PROPERTIES
  MapIsStable
  GoneAreForgotten
  ShutdownEnds
CHECK_DEADLOCK FALSE
