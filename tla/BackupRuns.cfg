SPECIFICATION Spec
CONSTANTS
  Procs = {p}
  Settings <- Mixed
  MaxRuns = 3
  MaxDay = 2
  MaxAsked = 1
  MaxCrashes = 1
INVARIANT TypeOK
INVARIANT AttendedRestorable
INVARIANT ObjectNamed
INVARIANT OneDump
INVARIANT RetentionFloor
 
PROPERTY CompletionFinal
PROPERTY BoundaryFires
