SPECIFICATION MaintenanceSpec
CONSTANTS
  Callers = {worker, user}
  Jobs = {1, 2, 3, 4, 5, 6, 7}
  Methods <- AllMethods
  Similar <- SameMethod
  Chains = {0, 2}
  MaxTime = 0
  Offset = 0
  Precision = 1
  PerPage = 7
  MaxAttempts = 1
  Operator = FALSE
  MayCrash = TRUE
  None = None
  Worker = worker
  UserJobs = {"ShutdownServer"}
  MaxCrashes = 1
CHECK_DEADLOCK FALSE
INVARIANTS
  NothingPendingMissed
  MaintenanceInv
  SuccessLeavesChain
  DoubledOnlyByCrash
  StaleOnlyAfterFailure
PROPERTIES
  MaintenanceReachesStart
