SPECIFICATION Spec
CONSTANTS
  k1 = k1
  k2 = k2
  Metrics = {k1, k2}
  MaxValue = 2
  Points = 2
  Pct = 50
  Floor = 1
  BaselineDays = 2
  MinCoverage = 100
  Horizon = 4
  Day = 3
  KeepTime = 3
  Modes <- MCModes
  MaxTime = 6
  MaxEach = 1
  MaxTrouble = 2
INVARIANTS
  TypeOK
  AlertsTold
PROPERTIES
  MovedOnEvidence
CHECK_DEADLOCK FALSE
