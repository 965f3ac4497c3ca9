\* One server, two requests at a time and the one process that serves them; long enough for a bucket to expire and start again.
SPECIFICATION Spec
CONSTANTS
  r1 = r1
  r2 = r2
  n1 = n1
  s1 = s1
  Redis = Redis
  None = None
  Requests <- TwoRequests
  Nodes <- OneNode
  Keys <- OneKey
  ServerOf <- OneServer
  UserOf <- NoUser
  Rate <- Fast
  MINUTE = 2
  EXPIRY_MARGIN = 0
  MAX_TIME = 3
SYMMETRY Symmetry
INVARIANTS
  RedisBoundedByClock
  FallbackBoundedByClock
  
CHECK_DEADLOCK FALSE
