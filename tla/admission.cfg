\* One component at a time: API keys, rate limit, budget, providers, accounts,
\* file scans.
SPECIFICATION MCSpec
CONSTANTS
  a1 = a1
  a2 = a2
  \* ApiKeys
  Key = {a1, a2}
  Workspace = {"w1", "w2"}
  Member = {"m1"}
  KeyCaller = {"c1"}
  KeyAdmin = {"x1", "x2"}
  Nobody = Nobody
  Grace = 1
  KeyTtl = 1
  LookupStall = 1
  \* RateLimit
  LimitedKey = {a1, a2}
  Shared = "shared"
  Arrival = {"c1", "c2"}
  MaxRequests = 2
  Window = 2
  Capacity = 2
  \* Budget
  Request = {a1, a2, "r3"}
  Rows <- MCRows
  NoBudget = NoBudget
  Sizes = {1, 2}
  DaysPerMonth = 1
  MaxDay = 1
  \* Providers
  Provider = {"p1"}
  Model = {"m1"}
  Editor = {a1, a2}
  Resolver = {"c1"}
  Absent = Absent
  ModelTtl = 1
  ResolveStall = 0
  MaxRows = 2
  MaxCredential = 2
  \* SignIn
  Login = {a1, a2, "r3"}
  Email = {"e1", "E1"}
  Lower <- MCLower
  Home = "home"
  MaxSeats = 2
  Unknown = Unknown
  \* FileScan
  Scan = {a1, a2, "r3"}
  Tenant = {"w1", "w2"}
  Task = {"t1", "t2"}
  Nothing = Nothing
SYMMETRY Symmetry
CONSTRAINT WhileCalm
INVARIANTS
  RateBound
  BooksClose
  ReservationsFit
  RotatedInTime
  AccountsHold
  ScansStayHome
PROPERTIES
  RevokedStopsInTime
  CleanSweepIsComplete
\* The keys, the days and the clocks are bounded.
CHECK_DEADLOCK FALSE
