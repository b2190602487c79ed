SPECIFICATION Spec
CONSTANTS
  m1 = m1
  m2 = m2
  m3 = m3
  r1 = r1
  r2 = r2
  k1 = k1
  k2 = k2
  Message = {m1}
  Request = {}
  Key = {k1}
  KeyOf <- MCLoneKey
  BodyOf <- MCLoneBody
  CountsDeliveries = TRUE
  MaxExpiries = 0
  MaxCrashes = 0
  MaxErrors = 1
INVARIANTS
  NoEventLost
CHECK_DEADLOCK FALSE
