SPECIFICATION QueueSpec
CONSTANTS
  Value = {a, b, c}
  Caller = {c1, c2}
  MaxAsked = 4
  None = None
PROPERTIES DrainedIsStored DrainReturnsInTheEnd SavesTheLatest
CHECK_DEADLOCK FALSE
