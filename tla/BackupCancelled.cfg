SPECIFICATION Spec
CONSTANTS
  Procs = {p}
  Settings <- LateCancel
  MaxRuns = 1
  MaxDay = 1
  MaxAsked = 1
  MaxCrashes = 0
INVARIANT CompletedRestorable
