CONSTANTS
  q1 = q1  q2 = q2  q3 = q3  u1 = u1  u2 = u2  u3 = u3  i1 = i1  i2 = i2
  Create = {q1, q3}
  Update = {u1, u3}
  IdemKey = {i1, i2}
  KeyOf <- TwoKeys
  Target <- OneTarget
  Sets <- Changes
  Limit = 1
  Faults = {}
SPECIFICATION Spec
INVARIANT ActiveWithinLimit
CHECK_DEADLOCK FALSE
