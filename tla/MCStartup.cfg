SPECIFICATION Spec
CONSTANTS
  t1 = t1  none = none
  NoSession = none
  Run <- MCOne
  Tenant <- MCTenant
  TenantOf <- MCOneTenantOf
  SessionOf <- MCOneSessionOf
  MaxActive = 1
  MaxPerTenant = 1
  AgingMs = 0
  QueueTtl = 0
  MaxRetries = 0
  MaxCkpt = 2
  MaxCrashes = 1
INVARIANT StartupSucceeds
\* Nothing is left to do after a startup that failed.
CHECK_DEADLOCK FALSE
