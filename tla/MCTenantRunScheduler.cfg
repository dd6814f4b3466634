CONSTANTS
  ta = ta
  tb = tb
  a1 = a1
  a2 = a2
  a3 = a3
  b1 = b1
  b2 = b2
  s1 = s1
  NoSession = NoSession
  Run <- MCRun
  Tenant <- MCTenant
  TenantOf <- MCTenantOf
  SessionOf <- MCSessionOf
  MaxActive = 3
  MaxPerTenant = 2
  AgingMs = 1
  MaxTime = 2
SPECIFICATION Spec
INVARIANTS TypeOK WithinLimits SessionsAreSerial NoRunTwice OrderIsBacklog
PROPERTIES ClaimsFromTheHead
