SPECIFICATION FairSpec
CONSTANTS
  p1 = p1
  p2 = p2
  feed_poll = feed_poll
  Procs = {p1, p2}
  Jobs = {feed_poll}
  Interval <- LongInterval
  RunMax <- ShortRunMax
  MaxJitter = 1
  MaxDelay = 1
  Skew <- SomeSkew
  MaxSkew = 1
  MaxClock = 6
  MaxFaults = 1
CHECK_DEADLOCK TRUE
INVARIANTS
  OneRunAtATime
  AbandonedRowsAreFaults
PROPERTIES
  ImplementsLease
  DueJobIsClaimed
  RunnersStop
