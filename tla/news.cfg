SPECIFICATION DatasetSpec
CONSTANTS
  Articles <- MCArticles
  Junk = Junk
  NoTime = NoTime
  FrameStart = 1
  FrameEnd = 2
  PageLimit = 2
  MaxListed = 3
  MaxPublished = 1
  MaxWithdrawn = 1
INVARIANTS MissedOnlyByWithdrawal RepeatsOnlyByPublication
INVARIANTS RecordIdsAreUnique ShiftedPagesChangeNothing ConfidenceFollowsRelevance
PROPERTIES RequestEnds
CHECK_DEADLOCK FALSE
