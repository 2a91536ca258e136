SPECIFICATION SpecAllFiltered
CONSTANTS
  t1 = t1
  t2 = t2
  s1 = s1
  yesterday = yesterday
  today = today
  None = None
  Targets <- TwoTargets
  Selectors <- OneSelector
  Named <- NoneOf
  GlobalChoices <- AnyExclusions
  OwnChoices <- NoExclusions
  Days <- DayKeys
  Yesterday = yesterday
  Today = today
  Removable <- TwoTargets
  HostMetrics = FALSE
  Upgraded = {TRUE}
  Mixes <- AnyMix
  MaxSaves = 0
  MaxDefinition = 0
  MaxPuts = 1
  MaxReloads = 0
  MaxManual = 0
  MaxFaults = 0
  MaxCrashes = 0
INVARIANTS
  TypeOK
  HistoryCurrent
SYMMETRY TargetSymmetry
