SPECIFICATION Spec
CONSTANTS
  f1 = f1
  f2 = f2
  Files <- MCFiles
  NoFile = NoFile
  Data = {0, 1}
  MaxBytes = 2
  Longest = 3
  LastTick = 1
  NoPin = NoPin
  Pins <- MCPinned
SYMMETRY MCSwaps
INVARIANT RejectsOnlyWithCause
PROPERTY ReadsOneVersion
