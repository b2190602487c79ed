SPECIFICATION Spec
CONSTANTS
  e1 = e1
  e2 = e2
  e3 = e3
  e4 = e4
  Id <- MCId
  PriorityOf <- MCPriorityOf
  NameRank <- MCNameRank
  Call = {e1, e2, e3, e4}
  IdOf <- MCIdOf
  Scale = 10
  MaxTime = 2
  MaxSetBacks = 1
INVARIANTS
  TypeOK
PROPERTIES
  UrgentFirst
  OvertakenWithinMs
CHECK_DEADLOCK FALSE
