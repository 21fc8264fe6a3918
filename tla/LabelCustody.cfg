SPECIFICATION Spec
CONSTANTS
  ann = ann
  ben = ben
  cat = cat
  dan = dan
  eve = eve
  fay = fay
  zoe = zoe
  People <- MCPeople
  Teams <- MCTeams
  Implementers = {zoe}
  Preparer = cat
  Items = {"x", "y"}
  LastSecond = 2
  PacketSeconds = {1}
  PredictionSeconds = {2}
  MaxRounds = 2
  MaxDecisions = 3
  MaxLedgers = 2
  MaxSlips = 1
INVARIANTS Timeline FreshEyes HistoryKept ActiveFollows
SYMMETRY MCSymmetry
CHECK_DEADLOCK FALSE
