SPECIFICATION ReportSpec
CONSTANTS
  Minutes <- MCMinutes
  MaxWindowMinutes = 3
  MaxWindows = 2
  Traded <- MCTraded
  PageLimit = 2
  OddPages <- MCOddPages
  TicksPerMinute = 2
  EpsilonInverse = 2000
  MaxRepresentativeRecords = 2
  MaxChartPoints = 3
  Price <- MCPrice
  Unfinished <- MCUnfinished
  Records <- MCRecords
  MaxRecords = 3
  MaxEarly = 1
  Horizons <- MCHorizons
  Environments <- MCEnvironments
INVARIANTS WindowsCoverMissing BudgetSuffices PagesAreComplete
INVARIANTS ReportsAreOfPrices CountersAddUp SamplesSpan
PROPERTIES ReportEnds
CHECK_DEADLOCK FALSE
