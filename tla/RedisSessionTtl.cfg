SPECIFICATION Spec
CONSTANTS
  p1 = p1
  p2 = p2
  Procs = {p1, p2}
  Nobody = Nobody
  LockTTL = 2
  RefreshSkew = 1
  Lifetimes = {3}
INVARIANTS
  TtlEndsBeforeExpiry
SYMMETRY Symmetry
