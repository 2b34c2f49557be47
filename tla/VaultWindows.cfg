SPECIFICATION VaultSpec
CONSTANTS
  Window = {w1, w2}
  Loaded = {w1}
  Edit = {e1, e2}
  Sync = {s1}
  MaxTroubles = 1
  Overlap = {}
  None = None
INVARIANTS  SettledIsPersisted
PROPERTIES NoSnapshotTakesBack WindowsAgree
CHECK_DEADLOCK FALSE
