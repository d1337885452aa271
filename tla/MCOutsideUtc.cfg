SPECIFICATION FairSpec
CONSTANTS
  Callers = {c1}
  Jobs = {j1, j2}
  Methods = {"StartServer", "StartServerForMission"}
  Similar <- SimilarNames
  Chains = {0, 1}
  MaxTime = 1
  Offset = 2
  Precision = 1
  PerPage = 2
  MaxAttempts = 1
  Operator = FALSE
  MayCrash = FALSE
  None = None
CHECK_DEADLOCK FALSE
INVARIANTS
  NothingPendingMissed
