SPECIFICATION Spec
CONSTANTS
  Conns = {c1}
  Ids = {i1, i2}
  Directions = {"upload"}
  Targets = {t1, t2}
  MaxConcurrency = 2
  Runs = {r1, r2}
  Closers = {w1}
  Cancelers = {x1}
  RetryWhileEnding = FALSE
  SubmitWhileClosing = TRUE
SYMMETRY Symmetry
INVARIANTS
  ExclusiveTargets
  RunsAreActive
  ActiveIsBacked
  ClosedStopsTransfers
