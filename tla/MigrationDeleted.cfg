SPECIFICATION Spec
CONSTANTS
  o1 = o1
  o2 = o2
  Objects = {o1, o2}
  Execs = {e1, e2}
  MaxRuns = 1
  MaxAttempts = 2
  Settings <- Deleted
PROPERTY RunCloses
CHECK_DEADLOCK FALSE
