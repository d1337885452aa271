SPECIFICATION FairSpec
CONSTANTS
  Ports = {p2302, p2402}
  StartupPort = p2302
  Modsets = {m1}
  Spaced = {}
  Procs = {a1, a2, a3}
  MaxCrashes = 1
  FetchFails = TRUE
  MayRestart = TRUE
  None = None
CHECK_DEADLOCK FALSE
INVARIANTS
  
  
  OneServerPerPort

  
