SPECIFICATION Spec
SYMMETRY Symmetry
INVARIANTS OutsidersCannotRead CurrentKeyImportable AtMostOnce NotOverrun
CHECK_DEADLOCK FALSE
CONSTANTS
  Members = {a, b}
  None = None
  RotateAfter = 1
  MaxSkipGroup = 1
  MaxGroupSize = 2
  MaxChains = 3
  MaxSent = 3
  MaxNumber = 3
  MaxHanded = 2
  MaxEpoch = 2
  Recreates = TRUE
  Signing = TRUE
  Ageing = TRUE
