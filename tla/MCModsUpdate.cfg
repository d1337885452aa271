SPECIFICATION Spec
CONSTANTS
  Mods = {m1, m2}
  MaxTime = 3
  None = None
SYMMETRY ModSymmetry
INVARIANTS
  CurrentIsInstalled
  UpdateSuccessMeansInstalled
  ModsInv
