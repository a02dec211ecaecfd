CONSTANTS
  m1 = m1  m2 = m2  m3 = m3  w1 = w1  w2 = w2
  Message = {m1}
  Kind <- AllNormal
  Worker = {w1, w2}
  BatchSize = 1
  MaxAttempts = 2
  MaxSlots = 2
  MaxFaults = 0
SPECIFICATION Spec
INVARIANT AttemptsBeforeDeadLetter
