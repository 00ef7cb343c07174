SPECIFICATION Spec
CONSTANTS
  o1 = o1
  o2 = o2
  Objects = {o1, o2}
  Execs = {e1, e2}
  MaxRuns = 2
  MaxAttempts = 2
  Settings <- Mixed
INVARIANTS TypeOK Reachable Current  
 
CHECK_DEADLOCK FALSE
