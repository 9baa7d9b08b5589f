\* Redis may restart empty; revocations of the user come one after another.
SPECIFICATION Spec
CONSTANTS
  j1 = j1
  o1 = o1
  o2 = o2
  g1 = g1
  v1 = v1
  v2 = v2
  Jti = {j1}
  Pod = {o1, o2}
  Gate = {g1}
  Revoker = {v1}
  AccessTtl = 2
  Leeway = 1
  CacheTtl = 2
  Stall = 0
  MaxTime = 3
  MaxRevocations = 2
  MaxRestarts = 1
SYMMETRY Symmetry
INVARIANTS
  DegradedNeverServesRevoked
  DegradedWindowBounded
  RevokedNeverServed
  LoggedOutUntilExp
\* The bounded clock stops, and every token has expired by then.
CHECK_DEADLOCK FALSE
