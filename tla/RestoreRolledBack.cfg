SPECIFICATION Spec
CONSTANTS
  NBackups = 2
  MaxRestores = 2
  MaxMishaps = 0
  Settings <- NoFaults
INVARIANT SlotHonest
CHECK_DEADLOCK FALSE
