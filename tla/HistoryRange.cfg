SPECIFICATION Spec
CONSTANTS
  a = a
  b = b
  Midnight <- MCMidnight
  Day = 2
  ShortStep = 1
  MaxDays = 2
  MinDays = 1
  MinDaysMonthly = 2
  RowLimit = 3
  Scales = {a, b}
  NoScale = NoScale
INVARIANTS
  TypeOK
  RangeIsComplete
  OneScale
CHECK_DEADLOCK FALSE
