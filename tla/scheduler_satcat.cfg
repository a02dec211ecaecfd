CONSTANTS
  r1 = r1  r2 = r2
  Replica = {r1, r2}
  Lease = 3
  Interval = 8
  FirstRetry = 2
  MinWait = 1
  Cooldown = 8
  JobLimit = 1
  MaxFailures = 3
  MaxCrashes = 1
  MaxLost = 0
SPECIFICATION Spec
INVARIANT CrashRetriesSoon
