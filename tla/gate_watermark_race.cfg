\* Two revocations overlap: SET overwrites the newer watermark.
SPECIFICATION Spec
CONSTANTS
  j1 = j1
  o1 = o1
  o2 = o2
  g1 = g1
  v1 = v1
  v2 = v2
  Jti = {j1}
  Pod = {o1}
  Gate = {g1}
  Revoker = {v1, v2}
  AccessTtl = 1
  Leeway = 1
  CacheTtl = 1
  Stall = 0
  MaxTime = 3
  MaxRevocations = 2
  MaxRestarts = 0
SYMMETRY Symmetry
INVARIANTS
  RevokedNeverServed
\* The bounded clock stops, and every token has expired by then.
CHECK_DEADLOCK FALSE
