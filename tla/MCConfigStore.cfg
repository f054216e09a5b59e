SPECIFICATION Spec
CONSTANTS
  None = None
  Env = "good"
  Client = {c1, c2}
  Requests <- MCRequests
  FirstFile <- MCFirstFile
  MaxRequests = 2
  MaxCrashes = 1
INVARIANTS
  FileWhole
  AckedIsSaved
  QuietAgrees
  SavedInRange
PROPERTIES
  RequestsEnd
CHECK_DEADLOCK FALSE
