SPECIFICATION Spec
CONSTANTS
  d1 = d1
  d2 = d2
  h1 = h1
  h2 = h2
  k1 = k1
  k2 = k2
  n1 = n1
  None = None
  Devices = {d1, d2}
  Hosts = {h1}
  KnownHosts = {n1}
  Keys = {}
  Shared = {h1, n1}
  Decisions <- AnyDecision
  ServerEtags = TRUE
  LossLimit = 2
  HalvingLimit = 2
  MaxPreconditionRetries = 1
  MaxLocalRefreshes = 2
  MaxClock = 2
  MaxSyncs = 3
  MaxAborts = 0
SYMMETRY Symmetry
PROPERTIES RestoreKeepsRemote NoSilentShrink
CHECK_DEADLOCK FALSE
