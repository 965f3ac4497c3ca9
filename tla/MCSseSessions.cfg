SPECIFICATION FairSpec
CONSTANTS
  s1 = s1
  s2 = s2
  p1 = p1
  None = None
  Sessions <- TwoSessions
  Posts <- OnePost
  MAX_SSE_SESSIONS = 1
  CHANNEL_CAPACITY = 2
  SESSION_TIMEOUT = 1
INVARIANTS
  ClosedClientTold
PROPERTIES DeadSessionsSwept StreamsEnd
CHECK_DEADLOCK FALSE
