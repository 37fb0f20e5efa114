SPECIFICATION Spec
CONSTANTS
  r1 = r1
  r2 = r2
  s1 = s1
  s2 = s2
  s3 = s3
  Runs <- MCRuns
  Slots <- MCSlots
  NoRun = none
SYMMETRY MCSymmetry
PROPERTY RefreshesNeverGoBack
CHECK_DEADLOCK FALSE
