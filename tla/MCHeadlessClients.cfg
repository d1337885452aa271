SPECIFICATION Spec
CONSTANTS
  Requests = {r1, r2}
  Clients = {c1, c2}
  Counts = {0, 2}
  StartCounts = {1, 2}
  Recovered = TRUE
  NoClient = NoClient
  NoRequest = NoRequest
CHECK_DEADLOCK FALSE
SYMMETRY Symmetry
INVARIANTS
  TypeOK
  RunningClientsOwned
  OnlyRacingStartsOutlive
  SuccessAloneSetsCount
  RequestsStartOnce
