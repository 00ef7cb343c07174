SPECIFICATION Spec
CONSTANTS
  NBackups = 2
  MaxRestores = 2
  MaxMishaps = 1
  Settings <- AllSettings
INVARIANT TypeOK
 
INVARIANT GapCovered
INVARIANT OneRestore
INVARIANT ScratchDropped
INVARIANT CatalogCarried
CHECK_DEADLOCK FALSE
