CONSTANTS
  Olds = {1, 2}
  News = {11, 12}
  Rank <- MCRank
  Scores <- MCScores
  Threshold = 6200
  Margin = 500
  ActionCap = 8800
  RoundsDown = {}
  Cores = {c1, c2}
  Nobody = 0
INIT MCInit
NEXT Next
INVARIANTS EveryOldAccountedFor
CHECK_DEADLOCK FALSE
