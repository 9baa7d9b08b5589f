\* Concurrent requests share one breaker; events, commits and outages overlap in one writer.
SPECIFICATION OutagesSpec
CONSTANTS
  c1 = c1
  c2 = c2
  Caller = {c1, c2}
  FailureThreshold = 2
  OpenDuration = 2
  MaxChunks = 2
INVARIANTS
  CoverageIsTruthful
PROPERTIES
  BreakerFollows
  WriterSettles
