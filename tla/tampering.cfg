SPECIFICATION Spec
CONSTANTS
  Workloads = {w1, w2}
  Stale = {old}
  None = None
  Window = 3
  Interval = 2
  MaxGap = 2
  KeepDays = 1
  MaxTime = 6
  Modes <- MCModes
  MaxEvents = 2
  MaxEach = 1
  MaxTrouble = 2
SYMMETRY Symmetry
INVARIANTS
  TypeOK
  FiguresExact
PROPERTIES
  EvidenceKept
CHECK_DEADLOCK FALSE
