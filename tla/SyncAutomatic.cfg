SPECIFICATION Spec
CONSTANTS
  d1 = d1
  d2 = d2
  h1 = h1
  h2 = h2
  k1 = k1
  k2 = k2
  n1 = n1
  None = None
  Devices = {d1, d2}
  Hosts = {h1}
  KnownHosts = {}
  Keys = {k1}
  Shared = {h1}
  Decisions <- OnlyAutomatic
  ServerEtags = TRUE
  LossLimit = 10
  HalvingLimit = 3
  MaxPreconditionRetries = 1
  MaxLocalRefreshes = 1
  MaxClock = 3
  MaxSyncs = 3
  MaxAborts = 1
SYMMETRY Symmetry
INVARIANTS BaselineIsConfirmed
PROPERTIES LocalEditsSurvive UnseenVersionsSurvive NoResurrection
CHECK_DEADLOCK FALSE
