SPECIFICATION FairSpec
CONSTANTS
  t1 = t1  none = none
  NoSession = none
  Run <- MCPair
  Tenant <- MCTenant
  TenantOf <- MCPairTenantOf
  SessionOf <- MCPairSessionOf
  MaxActive = 1
  MaxPerTenant = 1
  AgingMs = 0
  QueueTtl = 0
  MaxRetries = 0
  MaxCkpt = 1
  MaxCrashes = 0
PROPERTY QueuedRunsLeave
