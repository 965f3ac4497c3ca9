CONSTANTS
  q1 = q1
  q2 = q2
  q3 = q3
  s1 = s1
  s2 = s2
  NoServer = NoServer
  Requests <- ThreeRequests
  Servers <- TwoServers
  GLOBAL_MAX = 2
  Limits <- OneOrTwo
  CHANNEL_CAPACITY = 2
SPECIFICATION ExitFairSpec
INVARIANTS
  Accounting
  LogsSurviveExit
PROPERTIES
  ImplementsLimits
  DrainReturnsWhenQuiet
  ExitsOnceSignalled
CHECK_DEADLOCK FALSE
