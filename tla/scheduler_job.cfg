CONSTANTS
  r1 = r1  r2 = r2
  Replica = {r1, r2}
  Lease = 3
  Interval = 8
  FirstRetry = 2
  MinWait = 2
  Cooldown = 0
  JobLimit = 2
  MaxFailures = 3
  MaxCrashes = 2
  MaxLost = 1
SPECIFICATION FairSpec
INVARIANT SingleRunner CrashRetriesSoon HealthShowsLastRun
PROPERTY StartsArePaced JobRunsForever
