SPECIFICATION Spec
CONSTANTS
  Theta = 1
  Strata <- MCStrata
  FilterSize = 2
  ReachBits = 2
  Timeout = 1
  BurstPolls = 2
  BurstGap = 1
  PollInterval = 1
  MaxDuplicates = 1
  MaxPolls = 3
  MaxTime = 4
INVARIANTS
  TypeOK
  ReachIsHistory
  RingHoldsLatest
  PollsAccounted
  ErrorWithinLag
  LagNeedsFailure
PROPERTIES
  StopsAfterCancel
CHECK_DEADLOCK FALSE
