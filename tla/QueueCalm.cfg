SPECIFICATION FairSpec
CONSTANTS
  n1 = n1
  a1 = a1
  a2 = a2
  None = None
  Jobs = {j1}
  Loops = {w1}
  Lanes = {a1, a2}
  Nodes = {n1}
  NodeOf <- TwoLanes
  MaxAttempts = 3
  MaxHits = 2
  Hazards = {"timeout"}
  MaxClaims = 6
  MaxCrashes = 4
  MaxAdmin = 2
  MaxResends = 1
INVARIANTS TypeOK OneExecution RetryBudget AnnouncedTruly
PROPERTIES ContractKept SuccessStands EveryJobSettles
