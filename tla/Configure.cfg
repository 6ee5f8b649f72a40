SPECIFICATION Spec
CONSTANTS
  c1 = c1
  c2 = c2
  r1 = r1
  Runs = {c1, c2}
  Commands = {r1}
  NumFiles = 2
  First = First
  None = None
INVARIANTS
  TypeOK
  ActiveUsable
  LoadedStaysUsable
  FailureLeavesNothing
SYMMETRY Symmetry
