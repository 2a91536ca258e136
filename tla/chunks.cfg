SPECIFICATION FairSpec
CONSTANTS
  Workers = {w1, w2}
  Span = 7
  Interval = 3
  MaxResults = 3
  MaxDepth = 1
  MinLength = 1
  MaxAttempts = 3
  MaxCreates = 2
  Modes <- MCModes
  MaxEach = 2
  MaxTrouble = 3
INVARIANTS
  TypeOK
  EachMomentOnce
  FileTells
  QueriesDeleted
  OnlyFutile
PROPERTIES
  RunEnds
CHECK_DEADLOCK FALSE
