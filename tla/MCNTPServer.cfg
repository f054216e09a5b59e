SPECIFICATION Spec
CONSTANTS
  N = 2
  Strata <- MCStrata
  Delays <- MCDelays
  ConfigStratum = 2
  Packets <- MCPackets
  MaxPackets = 2
INVARIANTS
  TypeOK
  OriginNotOlder
  RequestsAccounted
  FollowsBestPeer
  StratumIsEarned
PROPERTIES
  UpdateCompletes
