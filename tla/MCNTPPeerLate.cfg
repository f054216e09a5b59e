\* poll does not match an answer with its request; no packet is duplicated here.
SPECIFICATION Spec
CONSTANTS
  Theta = 1
  Strata <- MCStrata
  FilterSize = 2
  ReachBits = 2
  Timeout = 1
  BurstPolls = 2
  BurstGap = 1
  PollInterval = 1
  MaxDuplicates = 0
  MaxPolls = 3
  MaxTime = 4
INVARIANTS
  HalfDelayBound
CHECK_DEADLOCK FALSE
