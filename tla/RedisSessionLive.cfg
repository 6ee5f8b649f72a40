SPECIFICATION FairSpec
CONSTANTS
  p1 = p1
  p2 = p2
  Procs = {p1, p2}
  Nobody = Nobody
  LockTTL = 1
  RefreshSkew = 1
  Lifetimes = {0, 1, 3}
PROPERTIES
  CallsReturn
