SPECIFICATION FairSpec
CONSTANTS
  Connections = {k1, k2}
  Profiles = {p1}
  Settings = {once, again}
  Reconnecting = {again}
  MaxCalls = 3
  MaxProfiles = 1
  MaxLosses = 1
  Overlap = {}
  None = None
INVARIANTS
  
  StatusIsTrue
  RunsMatchProfiles
PROPERTIES
  UnwantedRunsEnd
CHECK_DEADLOCK FALSE
