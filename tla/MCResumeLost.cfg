SPECIFICATION Spec
CONSTANTS
  t1 = t1  none = none
  NoSession = none
  Run <- MCOne
  Tenant <- MCTenant
  TenantOf <- MCOneTenantOf
  SessionOf <- MCOneSessionOf
  MaxActive = 1
  MaxPerTenant = 1
  AgingMs = 0
  QueueTtl = 0
  MaxRetries = 0
  MaxCkpt = 1
  MaxCrashes = 0
PROPERTY ResumesAreNotRestarts
