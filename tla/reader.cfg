SPECIFICATION FairSpec
CONSTANTS
  Callers = {c1}
  Span = 7
  Limit = 2
  MaxAttempts = 2
  LowRate = 2
  HighRate = 3
  Floor = 2
  Cost = 4
  Drop = 1
  Gain = 1
  Settle = 1
  Every = 1
  MinWait = 1
  MaxWait = 3
  Delays = {0, 9}
  Modes <- MCModes
INVARIANTS
  TypeOK
  AnswerComplete
  OnlyCrowdedMissing
PROPERTIES
  RequestsPaced
  ReaderEnds
CHECK_DEADLOCK FALSE
