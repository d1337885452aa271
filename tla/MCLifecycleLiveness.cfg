SPECIFICATION FairSpec
CONSTANTS
  Ports = {p2302}
  StartupPort = p2302
  Modsets = {m1}
  Servers = {s1, s2}
  Procs = {a1, a2}
  Clients = {c1}
  HcCounts = {1}
  None = None
  MayRestart = TRUE
  EarlyExit = TRUE
  PlayersJoin = FALSE
  OsFails = TRUE
PROPERTIES
  DeadServersLeave
  JobsFinish
INVARIANTS
  ExitsAreWatched
