CONSTANTS
  b1 = b1
  l1 = l1
  h1 = h1
  Deployments <- SharedTables
  Sat = {1, 2}
  Lookback = 1
  MaxRecords = 2
  Body = {b1}
  Launch = {l1}
  Epoch = {1}
  Minute = {1, 2, 3}
  Hook = {h1}
  MaxTime = 1
  MaxRuns <- Once
  MaxFaults = 1
SPECIFICATION FairSpec
INVARIANT ParentsComeFirst UpcomingIsLastAnswer EventsFollowCommits LaunchHealthTold
PROPERTY CatalogKept RunsEnd
CHECK_DEADLOCK FALSE
