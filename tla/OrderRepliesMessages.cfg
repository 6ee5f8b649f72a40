SPECIFICATION Spec
CONSTANTS
  w1 = w1
  w2 = w2
  Warnings = {w1, w2}
  MaxReplies = 2
  MaxMessages = 2
INVARIANTS
  EveryWarningDecided
CHECK_DEADLOCK FALSE
