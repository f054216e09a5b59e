SPECIFICATION EitherSpec
CONSTANTS
  Size = 3
  Client = {c1, c2}
  StreamLimit = 2
  MaxEntries = 7
  Request = {r1, r2, r3}
  p1 = p1
  p2 = p2
  Old <- MCOld
  Files <- MCFiles
  Asks <- MCAsks
  Unknown = unknown
SYMMETRY Symmetry
INVARIANTS
  RecentIsLatest
  
PROPERTIES
  ImplementsRecentLog
CHECK_DEADLOCK FALSE
