SPECIFICATION Spec
CONSTANTS
  NItems = 2
  NRuns = 2
  Jobs = {1, 2, 3}
  Requests = {u}
  Crons = {c}
  Settings <- AllSettings
  Outcomes = {"applied", "partially_applied", "purged"}
  BatchSizes = {1, 2}
  CancelEvery = 1
  MaxItems = 2
  MaxConcurrent = 1
  MaxAttempts = 2
  MaxFaults = 1
INVARIANT TypeOK
INVARIANT ApprovedFirst
INVARIANT SettledHonest
 
INVARIANT ExclusionHolds
INVARIANT OneCollecting
INVARIANT CollectedOnce
PROPERTY NoReapply
PROPERTY TerminalFinal
CHECK_DEADLOCK FALSE
 
