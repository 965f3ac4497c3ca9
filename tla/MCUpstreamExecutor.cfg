CONSTANTS
  r1 = r1  r2 = r2
  st1 = st1  st2 = st2
  None = None
  Callers <- TwoCallers
  Requests <- TwoCallers
  Streams <- TwoStreams
  POOL_MAX = 1
  MAX_OWED = 2
  FAILURE_THRESHOLD = 2
  HALF_OPEN_SUCCESS_THRESHOLD = 2
  OPEN_DURATION_SECS = 1
  Outcomes <- AllOutcomes
SPECIFICATION MCSpec
INVARIANTS
  SlotOrphanedOnlyIfAbandoned
  ThresholdNeverMissed
  OwnResponseUnlessTainted
  PoolAccounted
PROPERTY
  RecoversWhenUpstreamDoes
