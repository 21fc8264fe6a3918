SPECIFICATION AuditSpec
CONSTANTS
  a = a
  b = b
  Builders <- MCBuilders
  Nobody = Nobody
  MaxEdits = 1
  MaxTouches = 2
SYMMETRY MCSwap
ACTION_CONSTRAINT MCIrregular
INVARIANTS PackageIsExact RunsWhatWasCompared OneChangeIsRefused UnfinishedIsRefused
  GenuineIsAccepted
PROPERTY PackageStays
CHECK_DEADLOCK FALSE
