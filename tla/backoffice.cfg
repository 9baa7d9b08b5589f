\* One component at a time: the licence, the workspace settings, the policy rules.
SPECIFICATION Spec
CONSTANTS
  a1 = a1
  a2 = a2
  b1 = b1
  b2 = b2
  Lic = {"l1", "l2"}
  NoLic = NoLic
  Expires <- MCExpires
  EnvToken = "l1"
  Soft = 0
  Hard = 0
  Admin = {"x1"}
  MaxTime = 1
  MaxRollbacks = 1
  MaxRestarts = 1
  Put = {"p1", "p2", "p3"}
  Field = {"f1"}
  Bodies <- MCBodies
  DeploymentDefault = "block"
  MinDays = 1
  MaxDays = 3
  Unset = Unset
  Rule = {a1, a2}
  Priority = {1, 2}
  DefaultRule <- MCDefaultRule
  Editor = {b1, b2}
  Nobody = Nobody
  NoRule = NoRule
  MaxTrail = 2
SYMMETRY Symmetry
INVARIANTS
  NoFreeFreshness
  CaptureIsOnRecord
  TrailReplays
PROPERTIES
  LiftedOnlyBySuccessor
\* Requests, audit rows and clocks are bounded.
CHECK_DEADLOCK FALSE
