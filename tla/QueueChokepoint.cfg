SPECIFICATION Spec
CONSTANTS
  n1 = n1
  a1 = a1
  a2 = a2
  None = None
  Jobs = {j1}
  Loops = {w1}
  Lanes = {a1, a2}
  Nodes = {n1}
  NodeOf <- TwoLanes
  MaxAttempts = 2
  MaxHits = 2
  Hazards = {}
  MaxClaims = 3
  MaxCrashes = 1
  MaxAdmin = 0
  MaxResends = 1
PROPERTY SettledAtChokepoint
