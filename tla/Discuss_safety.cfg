SPECIFICATION DiscussSpec
CONSTANTS
  u1 = u1
  u2 = u2
  d1 = d1
  d2 = d2
  Urls = {u1, u2}
  Threads = {d1, d2}
  NumFetchers = 2
  Limit = 2
  MaxChecks = 3
  MaxAsks = 1
  MaxFaults = 1
INVARIANTS
  FindEndsBackOff
  MissingIsRetried
CHECK_DEADLOCK FALSE
