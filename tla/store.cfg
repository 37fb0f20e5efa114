SPECIFICATION FairSpec
CONSTANTS
  Runs = {r1, r2}
  Savers = {s1, s2, s3}
  Relevance = {"RELEVANT"}
  MaxRecords = 1
  NoRow = NoRow
INVARIANTS OneDatasetPerRun
PROPERTIES ImplementsRegister SavesEnd
CHECK_DEADLOCK FALSE
