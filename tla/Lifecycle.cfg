SPECIFICATION FairSpec
CONSTANTS
  Daemons = {d1, d2}
  Commands = {c1, c2}
  d1 = d1
  d2 = d2
  c1 = c1
  c2 = c2
  UsesTunnel = TRUE
  None = None
INVARIANTS
  StalePidMeansKilled
  TunnelGoesWithDaemon
  AloneIsFound
PROPERTIES
  StartAndStopEnd
CHECK_DEADLOCK FALSE
