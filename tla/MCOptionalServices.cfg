SPECIFICATION Spec
CONSTANTS
  Conn = {a, b}
  MaxAge = 3
  SweepInterval = 2
  NTSTime = 8
  Modulus = 4
  Second = 2
  LeastSync = 2
  MaxDuration = 8
  LogSyncInts <- MCLogSyncInts
  LogAnnounceInts <- MCLogAnnounceInts
  MaxDelay = 1
  MaxLag = 1
  PTPTime = 8
INVARIANTS
  TypeOK
  ExchangesAccounted
  SessionsExpire
  OffsetWithinDelay
CHECK_DEADLOCK FALSE
