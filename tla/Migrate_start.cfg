SPECIFICATION FairMigrateSpec
CONSTANTS
  p1 = p1
  p2 = p2
  p3 = p3
  Starters = {p1, p2, p3}
  Versions = {1, 2, 3}
  Files <- Releases
  Nobody = Nobody
INVARIANTS
  AppliedOnce
  InOrder
  ServesOnFullSchema
  FailsForItself
PROPERTIES
  WaitersProceed
