SPECIFICATION Spec
CONSTANTS
  p = p
  q = q
  Calls = {p, q}
  N = 4
  MaxCalls = 2
  MaxDisturb = 1
SYMMETRY MCCallers
INVARIANTS SuccessIsExact NoUnreportedStrays FailureLeavesNothing
PROPERTY OnlyFreshRootsWritten
CHECK_DEADLOCK FALSE
