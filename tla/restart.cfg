SPECIFICATION Spec
CONSTANTS
  t1 = t1
  t2 = t2
  s1 = s1
  yesterday = yesterday
  today = today
  None = None
  Targets <- OneTarget
  Selectors <- OneSelector
  Named <- OneSelector
  GlobalChoices <- NoExclusions
  OwnChoices <- AnyExclusions
  Days <- DayKeys
  Yesterday = yesterday
  Today = today
  Removable <- NoneOf
  HostMetrics = FALSE
  Upgraded = {FALSE}
  Mixes <- Crashing
  MaxSaves = 1
  MaxDefinition = 1
  MaxPuts = 1
  MaxReloads = 0
  MaxManual = 0
  MaxFaults = 1
  MaxCrashes = 1
INVARIANTS
  NeverUnfiltered
  RollingCurrent
  CertifiedHistoryCurrent
