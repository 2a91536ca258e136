SPECIFICATION FairSpec
CONSTANTS
  t1 = t1
  t2 = t2
  s1 = s1
  yesterday = yesterday
  today = today
  None = None
  Targets <- OneTarget
  Selectors <- OneSelector
  Named <- OneSelector
  GlobalChoices <- NoExclusions
  OwnChoices <- AnyExclusions
  Days <- DayKeys
  Yesterday = yesterday
  Today = today
  Removable <- NoneOf
  HostMetrics = TRUE
  Upgraded = {TRUE}
  Mixes <- OneChange
  MaxSaves = 0
  MaxDefinition = 1
  MaxPuts = 1
  MaxReloads = 1
  MaxManual = 1
  MaxFaults = 0
  MaxCrashes = 0
PROPERTIES
  RebuildsEnd
INVARIANT NothingForgotten
