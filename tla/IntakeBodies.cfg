SPECIFICATION FairSpec
CONSTANTS
  m1 = m1
  m2 = m2
  m3 = m3
  r1 = r1
  r2 = r2
  k1 = k1
  k2 = k2
  Message = {m1, m2, m3}
  Request = {r1, r2}
  Key = {k1, k2}
  KeyOf <- MCMixedKey
  BodyOf <- MCMixedBody
  CountsDeliveries = TRUE
  MaxExpiries = 0
  MaxCrashes = 1
  MaxErrors = 0
INVARIANTS
  DoneIsDone
PROPERTIES
  MessagesLeave
  EventsArrive
CHECK_DEADLOCK FALSE
