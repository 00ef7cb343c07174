SPECIFICATION FairSpec
CONSTANTS
  n1 = n1
  a1 = a1
  a2 = a2
  None = None
  Jobs = {j1}
  Loops = {w1}
  Lanes = {a1}
  Nodes = {n1}
  NodeOf <- OneLane
  MaxAttempts = 2
  MaxHits = 2
  Hazards = {"earlyLapse", "dbFault", "lostAck", "resubmit", "adminRace"}
  MaxClaims = 2
  MaxCrashes = 0
  MaxAdmin = 1
  MaxResends = 1
INVARIANTS PendingUnowned SuccessPersisted
PROPERTY RunningEnds
