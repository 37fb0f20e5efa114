SPECIFICATION Spec
CONSTANTS
  Requests = {q1, q2, q3}
  c1 = c1
  c2 = c2
  n1 = n1
  ConfigIds = {c1, c2}
  Names = {n1, n2}
  Days <- ThreeDays
  MaxRange = 1
  InitialConfigs <- SavedEarlier
  NoConfig = NoConfig
  Keep = Keep
SYMMETRY RequestSymmetry
INVARIANTS RunIdsAreGapless HistoryOrderIsIdOrder RunsWithinRange
PROPERTIES RunsStayAuditable UpdatesKeepOtherFields
CHECK_DEADLOCK FALSE
