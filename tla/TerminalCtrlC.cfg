SPECIFICATION Spec
CONSTANTS
  Batch = 1
  High = 8
  Low = 2
  ReadMax = 1
  MaxBatch = 2
  FloodBatch = 8
  FloodThreshold = 8
  DropThreshold = 2
  MaxQueueItems = 32
  Output = 16
  MaxSessions = 1
  CtrlCWhileWriting = TRUE
  AcksOvertake = FALSE
  RestartUndrained = FALSE
INVARIANTS ReadingResumes
