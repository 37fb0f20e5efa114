SPECIFICATION FairPagesSpec
CONSTANTS
  r1 = r1
  r2 = r2
  s1 = s1
  s2 = s2
  s3 = s3
  c1 = c1
  c2 = c2
  h1 = h1
  h2 = h2
  h3 = h3
  Runs <- MCRuns
  Slots <- MCSlots
  HistorySlots <- MCHistorySlots
  NoRun = none
  ConfigIds <- MCConfigs
  NoConfig = none
  Contents = {v1, v2}
  Horizons <- MCHorizons
  DefaultHorizon = h1
  NoHorizon = none
  MaxMoves = 4
  NotMounted = NotMounted
SYMMETRY MCSymmetry
INVARIANTS ReportIsOfSelected LoadingIsAwaited BusyIsAwaited
INVARIANTS PreviewIsOfShownRun ShownConfigsAreStored
PROPERTIES PageSettles OwnRefreshShowsOutcome
CHECK_DEADLOCK FALSE
