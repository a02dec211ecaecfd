CONSTANTS
  p1 = p1
  p2 = p2
  b1 = b1
  b2 = b2
  Replica = {p1, p2}
  Bucket = {b1, b2}
  Quota = 1
  QueueSize = 1
  BatchSize = 2
  Loads <- TwoLoads
  MaxMinute = 1
  MaxFaults = 1
SPECIFICATION FairSpec
INVARIANT QuotaPerMinute RejectedOverQuota Accounted JoinedMeansWritten
PROPERTY DrainEnds
CHECK_DEADLOCK FALSE
