SPECIFICATION Spec
CONSTANTS
  Worker = {w1}
  Callables = {FALSE}
  MaxCalls = 3
  MaxFaults = 0
INVARIANTS
  ReusesConnection
CHECK_DEADLOCK FALSE
