SPECIFICATION FairSpec
CONSTANTS
  t1 = t1
  t2 = t2
  None = None
  Manual = Manual
  Dataset = Dataset
  Templates = {t1}
  Policies <- MCBoth
  HistoryLimit = 2
  QueueSize = 1
  CancelFrom = {"running"}
  LateFaults = {FALSE}
  MaxRuns = 3
  MaxDue = 1
  MaxEdits = 0
  MaxManual = 0
  MaxLoads = 0
  MaxCancels = 1
  MaxFaults = 0
  MaxCrashes = 1
  MaxTrouble = 2
INVARIANTS TypeOK RunListTrue ReportsTrue
PROPERTIES ImplementsLifecycle
  QueueEnds
CHECK_DEADLOCK FALSE
