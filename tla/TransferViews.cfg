SPECIFICATION ViewsSpec
CONSTANTS
  Task = {t1}
  MaxFinished = 1
  MaxTurns = 1
  MaxClicks = 3
  MaxInTransit = 1
  Race = {}
INVARIANTS
  FileIsCurrent
  EndsAreOnDisk
  ViewSettles
  CenterSettles
CHECK_DEADLOCK FALSE
