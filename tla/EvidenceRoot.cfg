SPECIFICATION Spec
CONSTANTS
  Touchable <- MCTouchable
  MaxChanges = 2
  MaxLines = 3
INVARIANTS UsedIsAnchored HeldStill RefusedWithCause SensitiveLeavesNoTrace
CHECK_DEADLOCK FALSE
