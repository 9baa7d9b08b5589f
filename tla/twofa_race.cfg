\* Two handlers at a time.
SPECIFICATION Spec
CONSTANTS
  r1 = r1
  r2 = r2
  Request = {r1, r2}
  Privileged = FALSE
  BackupCodes = 1
  Threshold = 2
  LockSteps = 1
  ChallengeTtl = 1
  MaxSecrets = 2
  MaxTime = 1
  MaxFailures = 2
  RevokeFaults = TRUE
SYMMETRY Symmetry
INVARIANTS
  BackupCodeOnce
  LockFollowsFailures
  
\* The clock and the enrollments are bounded.
CHECK_DEADLOCK FALSE
