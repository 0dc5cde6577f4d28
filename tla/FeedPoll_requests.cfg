SPECIFICATION Spec
CONSTANTS
  f1 = f1
  f2 = f2
  g1 = g1
  w1 = w1
  w2 = w2
  Feeds = {f1}
  Guids = {}
  Workers = {w1}
  Limit = 1
  Concurrency = 1
  Pause = 2
  MaxJitter = 1
  MaxClock = 3
  MaxVersion = 1
  MaxAsks = 3
  MaxFaults = 1
CHECK_DEADLOCK FALSE
INVARIANTS
  RequestKept
