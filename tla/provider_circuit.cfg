CONSTANTS
  c1 = c1
  c2 = c2
  Call = {c1, c2}
  Concurrency = 1
  Clients = 2
  Attempts = 3
  Threshold = 5
  Window = 6
  Open = 12
  MaxFaults = 1
SPECIFICATION FairSpec
INVARIANT CircuitShields
PROPERTY OpeningsAreEarned CircuitCloses
