SPECIFICATION ReadersSpec
CONSTANTS
  Runs = {r1}
  Savers = {s1, s2}
  Readers = {g1}
  Relevance = {"RELEVANT", "IRRELEVANT"}
  MaxRecords = 2
  PreviewLimit = 1
  NoRow = NoRow
SYMMETRY RequestSymmetry
INVARIANTS AnswersCarryOneDataset UndisturbedReadsAreCoherent
INVARIANTS QualityUsesACompletedDataset SavedRunIsFound
CHECK_DEADLOCK FALSE
