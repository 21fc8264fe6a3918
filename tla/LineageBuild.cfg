CONSTANTS
  Olds = {1, 2}
  News = {11, 12, 13}
  Rank <- MCRank
  Scores <- MCAllScores
  Threshold = 6200
  Margin = 500
  ActionCap = 8800
  RoundsDown <- MCRoundsDown
  Cores = {c1, c2}
  Nobody = 0
INIT MCWideInit
NEXT Next
INVARIANTS PlacementIsSound NewExplainedOnce IdentityHasEvidence IsolatedPairsContinue
  Explained ClearPairsMatched AmbiguityRespected
CHECK_DEADLOCK FALSE
