SPECIFICATION FairSpec
CONSTANTS
  r1 = r1
  r2 = r2
  Requests <- TwoRequests
  Bodies <- MixedBodies
  LIMIT = 1
  MAX_VERSION = 2
  MAX_DISCONNECTS = 1
INVARIANTS
  AnsweredInOrder
  ListShowsResolved
 
CHECK_DEADLOCK FALSE
