SPECIFICATION Spec
CONSTANTS
  p1 = p1
  p2 = p2
  p3 = p3
  Procs = {p1, p2, p3}
  Nobody = Nobody
  LockTTL = 2
  RefreshSkew = 1
  Lifetimes = {0, 1, 3}
INVARIANTS
  TypeOK
  LeaseExclusion
  LockHeldOnlyInside
  RefreshNotRedundant
  UsableForSkew
PROPERTIES
  ImplementsTokenService
SYMMETRY Symmetry
