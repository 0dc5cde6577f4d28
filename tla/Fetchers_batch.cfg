SPECIFICATION FetchSpec
CONSTANTS
  N = 4
  Concurrency = 3
  Timeout = 4
  ClientTimeout = 1
  ContextTimeout = 2
  Life = 3
  Margin = 2
  MaxRevoked = 1
INVARIANTS
  StartsInTurn
  OnlyRevokedRefused
  RenewalsHaveGrounds
PROPERTIES
  ImplementsPool
  Returns
CHECK_DEADLOCK FALSE
