SPECIFICATION FairSpec
CONSTANTS
  r1 = r1
  r2 = r2
  r3 = r3
  s1 = s1
  s2 = s2
  u1 = u1
  p1 = p1
  p2 = p2
  User = {u1}
  Session = {s1, s2}
  Req = {p1, p2}
  Owner <- MCOwner
  NoRow = NoRow
  NoSession = NoSession
  NoReq = NoReq
  Row <- MCRow2
PROPERTY
  EveryRequestAnswered
