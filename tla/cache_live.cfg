CONSTANTS
  c1 = c1  c2 = c2  c3 = c3  k1 = k1  k2 = k2  p1 = p1  p2 = p2
  Call = {c1, c2, c3}
  NoCall = NoCall
  Key = {k1, k2}
  KeyOf <- TwoKeys
  Process = {p1, p2}
  ProcessOf <- SplitCall
  TTL = 1
  Stale = 2
  Lease = 2
  ComputeTimeout = 1
  WaitTimeout = 1
  RefreshLimit = 1
  Faults = {"stop", "valkey"}
  MaxDelay = 2
  LastStart = 4
  MaxTime = 11
  MaxVersion = 1
SPECIFICATION WarmSpec
INVARIANT SingleFlight RefreshesLimited
PROPERTY WaitersGetTheFill EveryCallEnds LockComesFree
CHECK_DEADLOCK FALSE
