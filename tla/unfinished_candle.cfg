SPECIFICATION Spec
CONSTANTS
  r1 = r1
  r2 = r2
  Nobody = Nobody
  Reports = {r1, r2}
  Minutes <- ThreeMinutes
  Traded <- ThreeMinutes
  Horizons <- OnlyOne
  MaxWindowMinutes = 2
  MaxWindows = 1
SYMMETRY Symmetry
INVARIANT EndedMinutesUseTheClosePrice
CHECK_DEADLOCK FALSE
