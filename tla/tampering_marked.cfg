SPECIFICATION Spec
CONSTANTS
  Workloads = {w1}
  Stale = {old}
  None = None
  Window = 3
  Interval = 2
  MaxGap = 2
  KeepDays = 1
  MaxTime = 6
  Modes <- MCQuiet
  MaxEvents = 2
  MaxEach = 0
  MaxTrouble = 0
INVARIANT MarkedDaysCounted
CHECK_DEADLOCK FALSE
