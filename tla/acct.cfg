SPECIFICATION Spec
CONSTANTS
  Flows = {f1}
  None = None
  Window = 3
  MaxGap = 2
  Modes <- MCModes
  KeepDays = 1
  MaxTime = 7
  MaxEach = 1
  MaxTrouble = 2
INVARIANTS
  TypeOK
  FiguresRight
  CountedOnce
  SettledStands
CHECK_DEADLOCK FALSE
