\* Every policy and secure mode on the way out; buffered, streamed and completion answers.
SPECIFICATION Spec
CONSTANTS
  ann = ann
  bob = bob
  nina = nina
  may = may
  mail = mail
  Entity = {ann, bob, nina, may, mail}
  ClassOf <- Classes
  Configs <- AllConfigs
  FloorSeen = {mail}
  Invented = {nina, may}
  Weak = {may}
  Targets = 2
INVARIANTS
  CoverageGates
  BlocksHold
  FoundIsHidden
  StoredIsSafe
  ShownIsTheClients
\* A request ends.
CHECK_DEADLOCK FALSE
