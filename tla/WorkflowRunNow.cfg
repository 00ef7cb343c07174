SPECIFICATION Spec
CONSTANTS
  NItems = 2
  NRuns = 2
  Jobs = {1, 2, 3}
  Requests = {u}
  Crons = {c}
  Settings <- RunNow
  Outcomes = {"applied", "partially_applied", "purged"}
  BatchSizes = {1, 2}
  CancelEvery = 1
  MaxItems = 2
  MaxConcurrent = 1
  MaxAttempts = 2
  MaxFaults = 1
INVARIANT CollectsUnbatched
CHECK_DEADLOCK FALSE
