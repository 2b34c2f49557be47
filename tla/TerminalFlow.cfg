SPECIFICATION FairSpec
CONSTANTS
  Batch = 2
  High = 6
  Low = 2
  ReadMax = 2
  MaxBatch = 2
  FloodBatch = 6
  FloodThreshold = 6
  DropThreshold = 2
  MaxQueueItems = 4
  Output = 9
  MaxSessions = 2
  CtrlCWhileWriting = FALSE
  AcksOvertake = FALSE
  RestartUndrained = FALSE
INVARIANTS OutputBounded OutputInOrder InFlightIsOutstanding
PROPERTIES OutputIsShown
