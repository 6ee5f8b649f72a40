SPECIFICATION FairSpec
CONSTANTS
  c1 = c1
  c2 = c2
  c3 = c3
  Callers = {c1, c2, c3}
  Nobody = Nobody
  RefreshSkew = 2
  Lifetimes = {0, 1, 4}
INVARIANTS
  TypeOK
  HandshakeOnlyWhenNeeded
PROPERTIES
  CallsReturn
  ImplementsTokenService
