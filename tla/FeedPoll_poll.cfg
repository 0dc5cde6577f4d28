SPECIFICATION FairSpec
CONSTANTS
  f1 = f1
  f2 = f2
  g1 = g1
  w1 = w1
  w2 = w2
  Feeds = {f1}
  Guids = {g1}
  Workers = {w1, w2}
  Limit = 1
  Concurrency = 1
  Pause = 2
  MaxJitter = 1
  MaxClock = 4
  MaxVersion = 2
  MaxAsks = 2
  MaxFaults = 1
INVARIANTS
  CountersExact
PROPERTIES
  NeverOlder
  PolitePolling
  DueIsPolled
CHECK_DEADLOCK FALSE
