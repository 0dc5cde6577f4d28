SPECIFICATION DiscussSpec
CONSTANTS
  u1 = u1
  u2 = u2
  d1 = d1
  d2 = d2
  Urls = {u1}
  Threads = {d1}
  NumFetchers = 1
  Limit = 1
  MaxChecks = 33
  MaxAsks = 0
  MaxFaults = 0
INVARIANTS
  BackOffAlwaysInBounds
CHECK_DEADLOCK FALSE
