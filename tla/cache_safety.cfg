CONSTANTS
  c1 = c1  c2 = c2  c3 = c3  k1 = k1  k2 = k2  p1 = p1  p2 = p2
  Call = {c1, c2, c3}
  NoCall = NoCall
  Key = {k1}
  KeyOf <- OneKey
  Process = {c1, c2, c3}
  ProcessOf <- OwnProc
  TTL = 1
  Stale = 2
  Lease = 2
  ComputeTimeout = 2
  WaitTimeout = 1
  RefreshLimit = 1
  Faults = {"evict", "invalidate", "stop", "valkey"}
  MaxDelay = 1
  LastStart = 3
  MaxTime = 5
  MaxVersion = 2
SYMMETRY CallSymmetry
SPECIFICATION Spec
INVARIANT SnapshotInv
PROPERTY StoresNeverGoBack HolderKeepsLock ImplementsContract CacheAnswersBounded
