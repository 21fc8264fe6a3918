SPECIFICATION FairSpec
CONSTANTS
  d1 = d1
  d2 = d2
  N = 3
  Dirs <- MCDirs
  DirOf <- MCDirOf
INVARIANTS
  Recoverable
  CommitIsWhole
  
PROPERTIES
  ImplementsOutputCommit Terminates
CHECK_DEADLOCK FALSE
