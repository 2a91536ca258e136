SPECIFICATION FairSpec
CONSTANTS
  Retention = 1
  Attempts = 2
  None = None
  Modes <- MCModes
  MaxRuns = 4
  MaxEach = 1
  MaxTrouble = 3
INVARIANTS
  TypeOK
  ReceiversTold
  RetentionExact
PROPERTIES
  DeliveryEnds
CHECK_DEADLOCK FALSE
