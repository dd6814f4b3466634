SPECIFICATION Spec
CONSTANTS
  t1 = t1  none = none
  NoSession = none
  Run <- MCPair
  Tenant <- MCTenant
  TenantOf <- MCPairTenantOf
  SessionOf <- MCPairSessionOf
  MaxActive = 2
  MaxPerTenant = 2
  AgingMs = 0
  QueueTtl = 0
  MaxRetries = 0
  MaxCkpt = 1
  MaxCrashes = 0
INVARIANTS TypeOK SlotsAreAccountedFor PendingHasItsRun SweepsAreExclusive
PROPERTIES Promise
