SPECIFICATION FairSpec
CONSTANTS
  Starts = {s1, s2}
  Browses = {b1}
  MaxLeases = 2
  MaxDrops = 1
  StaleLookup = FALSE
  ShellsExitEarly = FALSE
  None = None
INVARIANTS
  
  ClosedTransportsAreDoomed
  ShellsAreReachable
  EntriesHaveShells
PROPERTIES ClosedConnectionEnds
CHECK_DEADLOCK FALSE
