SPECIFICATION FairSpec
CONSTANTS
  Conns = {c1}
  Ids = {i1, i2}
  Directions = {"upload"}
  Targets = {t1, t2}
  MaxConcurrency = 1
  Runs = {r1, r2}
  Closers = {w1}
  Cancelers = {}
  RetryWhileEnding = FALSE
  SubmitWhileClosing = FALSE
PROPERTIES
  DeferredCloseHappens
