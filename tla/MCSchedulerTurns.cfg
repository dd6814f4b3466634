CONSTANTS
  ta = ta
  tb = tb
  tc = tc
  a1 = a1
  a2 = a2
  a3 = a3
  b1 = b1
  c1 = c1
  NoSession = NoSession
  Run <- MCRun
  Tenant <- MCTenant
  TenantOf <- MCTenantOf
  SessionOf <- MCSessionOf
  MaxActive = 2
  MaxPerTenant = 2
  AgingMs = 0
  MaxTime = 0
SPECIFICATION TurnFairSpec
INVARIANTS TenantsTakeTurns
PROPERTIES NoStarvation
