SPECIFICATION Spec
CONSTANTS
  g1 = g1
  g2 = g2
  g3 = g3
  Generators = {g1, g2, g3}
  NumFiles = 2
  Absent = Absent
  Earlier = Earlier
  Odd = Odd
INVARIANTS
  TypeOK
  UnforcedNeverMix
  SuccessIsWhole
  StagingRemoved
PROPERTIES
  OnlyForceReplaces
SYMMETRY Symmetry
CHECK_DEADLOCK FALSE
