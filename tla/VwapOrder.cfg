CONSTANTS
  Warnings = {w1}
  MaxReplies = 2
  MaxMessages = 1
  Ahead = 2

SPECIFICATION FairSpec
INVARIANT TypeOK
PROPERTIES OrdersNeedAYes ImplementsOrderReplies EndsWhenAbandoned
CHECK_DEADLOCK FALSE
