SPECIFICATION Spec
CONSTANTS
  s1 = s1
  s2 = s2
  g1 = g1
  g2 = g2
  NoServer = NoServer
  Servers <- TwoServers
  Slugs <- TwoSlugs
  Slug <- Distinct
  COALESCE_THRESHOLD = 1
  MAX_VERSION = 3
INVARIANT DeleteAlwaysApplied
