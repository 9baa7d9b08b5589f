\* What the code does against DowngradedIsScrubbed.
SPECIFICATION Spec
CONSTANTS
  ann = ann
  bob = bob
  nina = nina
  may = may
  mail = mail
  Entity = {ann, bob, nina, may, mail}
  ClassOf <- Classes
  Configs <- RequestSide
  FloorSeen = {mail}
  Invented = {nina}
  Weak = {may}
  Targets = 2
INVARIANTS
  DowngradedIsScrubbed
\* A request ends.
CHECK_DEADLOCK FALSE
