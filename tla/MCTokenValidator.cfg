SPECIFICATION FairSpec
CONSTANTS
  r1 = r1
  r2 = r2
  s1 = s1
  s2 = s2
  t1 = t1
  NoToken = NoToken
  Requests <- TwoRequests
  Servers <- TwoServers
  Tokens <- OneToken
  PERMITS = 1
  TTL = 2
  MAX_ROTATIONS = 1
  MAX_ORPHANS = 1
INVARIANTS PermitsAccounted WrongOnlyIfRotated
PROPERTIES
  StaleVerdictsExpire
  QueuedServed
