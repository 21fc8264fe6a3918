INIT MCInit
NEXT DiffNext
CONSTANTS
  po = po
  pn = pn
  alt = alt
  link = link
  Olds = {1, 2}
  News = {11, 12}
  Rank <- MCRank
  Scores <- MCScores
  Threshold = 6200
  Margin = 500
  ActionCap = 8800
  RoundsDown = {}
  Absent = Absent
  Contents <- MCContents
  Extracted <- MCExtracted
  Family <- MCFamily
  Metas = {"m"}
  Paths <- MCPaths
  Canonical <- MCCanonical
  GivenPath <- MCGivenPath
  Overrides <- MCOverrides
  Replacements <- MCReplacements
  MaxChanges = 2
CONSTRAINT Focus
INVARIANTS TellsAllOnce Mirrored VerifiedIsTrue GenuineVerifies
CHECK_DEADLOCK FALSE
