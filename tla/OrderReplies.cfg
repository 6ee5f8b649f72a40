SPECIFICATION FairSpec
CONSTANTS
  w1 = w1
  w2 = w2
  Warnings = {w1, w2}
  MaxReplies = 2
  MaxMessages = 2
INVARIANTS
  TypeOK
  ConfirmedWereDecided
  SuccessIsSettled
  LiveAfterFailure
PROPERTIES
  AutoEnds
CHECK_DEADLOCK FALSE
