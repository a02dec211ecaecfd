CONSTANTS
  m1 = m1  m2 = m2  m3 = m3  w1 = w1  w2 = w2
  Message = {m1, m3}
  Kind <- KindOf
  Worker = {w1, w2}
  BatchSize = 2
  MaxAttempts = 2
  MaxSlots = 2
  MaxFaults = 1
SPECIFICATION FairSpec
INVARIANT SettleInv AckImpliesSettled DeadLettersAreExhausted OneDeliveryAtATime
PROPERTY EveryMessageSettles
