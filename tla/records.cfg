\* One component at a time: retention, attestation, reports.
SPECIFICATION MCSpec
CONSTANTS
  a1 = a1
  a2 = a2
  None = None
  Workspace = {a1, a2}
  Entry = {"e1"}
  Capture = {"c1"}
  Session = {"s1"}
  VaultTtl = 1
  Days = {1}
  MaxLag = 1
  Nothing = Nothing
  Class <- MCClass
  ProviderKey = "zero"
  MaxRows = 1
  MaxChanges = 1
  \* Reports
  Event = {1, 2, 3, 4, 5}
  Made <- MCMade
  Caller <- MCCaller
  Model = {"m1"}
  KnownClass = {"C"}
  DaySeconds = 2
  Oldest = 0
  MaxSpan = 1
  Seconds = {0, 1}
  Limits = {1, 3}
  MaxLimit = 2
  MaxWrites = 1
  Unset = Unset
SYMMETRY Symmetry
INVARIANTS
  AttestationHolds
  PagesCoverTheWindow
  ReportIsExact
PROPERTIES
  CleanRunIsClean
  PurgeSparesTheLiving
\* Requests, edits and clocks are bounded.
CHECK_DEADLOCK FALSE
