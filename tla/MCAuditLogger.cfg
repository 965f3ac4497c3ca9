CONSTANTS
  e1 = e1
  e2 = e2
  e3 = e3
  e4 = e4
  c1 = c1
  c2 = c2
  Events <- FourEvents
  Bad <- LastBad
  Callers <- TwoCallers
  CHANNEL_CAPACITY = 2
  BATCH_SIZE = 2
SPECIFICATION FairSpec
INVARIANTS
  ShutdownFlushes
  OnceInOrder
PROPERTIES
  AcceptedIsSettled
CHECK_DEADLOCK FALSE
