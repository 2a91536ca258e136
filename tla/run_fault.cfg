SPECIFICATION Spec
CONSTANTS
  t1 = t1
  t2 = t2
  None = None
  Manual = Manual
  Dataset = Dataset
  Templates = {t1}
  Policies <- MCQueueing
  HistoryLimit = 3
  QueueSize = 1
  CancelFrom = {"queued", "running"}
  LateFaults = {TRUE, FALSE}
  MaxRuns = 2
  MaxDue = 1
  MaxEdits = 1
  MaxManual = 1
  MaxLoads = 1
  MaxCancels = 1
  MaxFaults = 1
  MaxCrashes = 1
  MaxTrouble = 3
INVARIANTS
  QueuedInHand
  ReportedOnce
CHECK_DEADLOCK FALSE
