\* One export, a worker with and one without a key, every fault, and data that changes and expires;
\* and bundles of up to 3 events and 2 actions, edited twice on their way.
SPECIFICATION MCSpec
CONSTANTS
  e1 = e1
  w1 = w1
  w2 = w2
  Export = {e1}
  Worker = {w1, w2}
  Keyed = {w1}
  Windows <- MCWindows
  PageSize = 1
  Cap = 2
  Ttl = 1
  Faults = {"crash", "pg_error", "pg_lost", "redis_error", "redis_lost", "ch_error"}
  MaxTime = 2
  MaxEvents = 2
  MaxActions = 1
  \* ExportBundle
  MaxData = 3
  MaxControl = 2
  MaxSize = 2
  MaxEdits = 2
INVARIANTS
  DownloadVerifies
  NothingOmitted
  VerdictIsSound
PROPERTIES
  AcceptedSettles
\* The bounded environment and the answered requests stop.
CHECK_DEADLOCK FALSE
