SPECIFICATION FairSpec
CONSTANTS
  t1 = t1  none = none
  NoSession = none
  Run <- MCOne
  Tenant <- MCTenant
  TenantOf <- MCOneTenantOf
  SessionOf <- MCOneSessionOf
  MaxActive = 1
  MaxPerTenant = 1
  AgingMs = 0
  QueueTtl = 0
  MaxRetries = 1
  MaxCkpt = 2
  MaxCrashes = 2
INVARIANTS RunningHoldsSlot WaitIsNeverReset
PROPERTIES Promise QueuedRunsLeave
\* Startup may fail for good, see StartupSucceeds.
CHECK_DEADLOCK FALSE
