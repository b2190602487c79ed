SPECIFICATION Spec
CONSTANTS
  m1 = m1
  m2 = m2
  m3 = m3
  r1 = r1
  r2 = r2
  k1 = k1
  k2 = k2
  Message = {m1, m2}
  Request = {r1}
  Key = {k1}
  KeyOf <- MCOneKey
  BodyOf <- MCOneBody
  CountsDeliveries = TRUE
  MaxExpiries = 2
  MaxCrashes = 1
  MaxErrors = 2
SYMMETRY MCMessages
INVARIANTS
  TypeOK
  EnqueuedOnce
  RowOwned
  OneCreator
  DoneIsDone
  
PROPERTIES
  FeedsDispatch
CHECK_DEADLOCK FALSE
