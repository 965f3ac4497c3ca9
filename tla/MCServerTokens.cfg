CONSTANTS
  a1 = a1
  a2 = a2
  h1 = h1
  ApiCalls <- TwoCalls
  Handlers <- OneHandler
  MAX_CREDENTIALS = 2
  MAX_VALUE = 2
  MAX_TOKENS = 2
  MAX_ROWS = 2
SPECIFICATION MCSpec
SYMMETRY Symmetry
INVARIANTS
  StaleOnlyIfAnnouncedOrMissed
  TrailExplainsTable
