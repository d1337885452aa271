SPECIFICATION FairSpec
CONSTANTS
  Ports = {p2302}
  StartupPort = p2302
  Modsets = {m1}
  Servers = {s1}
  Procs = {a1}
  Clients = {c1, c2}
  HcCounts = {2}
  None = None
  MayRestart = FALSE
  EarlyExit = FALSE
  PlayersJoin = FALSE
  OsFails = FALSE
PROPERTIES
  ShutdownAlwaysInvoked
