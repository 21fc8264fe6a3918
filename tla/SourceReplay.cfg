SPECIFICATION Spec
CONSTANTS
  f1 = f1
  f2 = f2
  f3 = f3
  N = 2
  Files <- MCFiles
  NoFile = NoFile
  Data = {"x", "y"}
  Graphs <- MCGraphs
  MaxWrites = 3
SYMMETRY MCSwaps
INVARIANTS VerifiedIsAnchored VerifiedTogether
CHECK_DEADLOCK FALSE
