CONSTANTS
  p1 = p1
  p2 = p2
  Sat = {1, 2}
  Source = {p1, p2}
  Filters <- AllOrOne
  Limit = 1
  MaxAge = 2
  Stale <- Stales
  Lease = 2
  MaxDelay = 1
  Changes <- OneAtATime
  MaxTime = 4
  MaxElements = 2
SYMMETRY Providers
SPECIFICATION Spec
INVARIANT WalkFindsAll TlesAreAsTold OutageTold
CHECK_DEADLOCK FALSE
