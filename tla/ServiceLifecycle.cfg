SPECIFICATION FairSpec
CONSTANTS
  Worker = {w1, w2}
  Callables = {TRUE, FALSE}
  MaxCalls = 3
  MaxFaults = 2
  Total = 2
  MaxRestarts = 1
INVARIANTS
  TypeOK
  ConnectionsBounded
  
PROPERTIES
  
  StopTerminates
  RetriesComeBack
CHECK_DEADLOCK FALSE
