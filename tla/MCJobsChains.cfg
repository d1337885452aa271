SPECIFICATION Spec
CONSTANTS
  Callers = {c1}
  Jobs = {j1, j2, j3}
  Methods = {"ShutdownServer"}
  Similar <- SimilarNames
  Chains = {2}
  MaxTime = 0
  Offset = 0
  Precision = 1
  PerPage = 3
  MaxAttempts = 0
  Operator = TRUE
  MayCrash = TRUE
  None = None
CHECK_DEADLOCK FALSE
SYMMETRY Symmetry
INVARIANTS
  JobsInv
  ContinuationsWait
  NoOrphans
