SPECIFICATION Spec
CONSTANTS
  Ports = {p2302}
  StartupPort = p2302
  Modsets = {m1}
  Servers = {s1, s2}
  Procs = {a1, a2}
  Clients = {c1, c2}
  HcCounts = {2}
  None = None
  MayRestart = FALSE
  EarlyExit = FALSE
  PlayersJoin = TRUE
  OsFails = TRUE
SYMMETRY Symmetry
INVARIANTS
  RunningServersAreManaged
  NoStrayClients
  LifecycleInv
PROPERTIES
  ShutdownSuccessMeansStopped
  SlotsImplemented
