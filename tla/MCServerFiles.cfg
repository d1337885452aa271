SPECIFICATION Spec
CONSTANTS
  m1 = m1
  m2 = m2
  x1 = x1
  x2 = x2
  x3 = x3
  x4 = x4
  Modsets = {m1, m2}
  Mods = {x1, x2, x3, x4}
  ModsOf <- TwoModsets
  KeyName <- Names
  Documents <- Uploads
  MaxUploads = 2
  MaxCrashes = 1
  Global = Global
  Arma = Arma
  Missing = Missing
  Unreadable = Unreadable
  None = None
CHECK_DEADLOCK FALSE
INVARIANTS
  FilesInv
  AcceptsItsMods
  CutOnlyByCrash
  UploadsStay
PROPERTIES
  LaunchedAsConfigured
