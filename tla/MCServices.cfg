\* One of the services around the scheduler at a time; see MCServices.tla for
\* the values of their constants.  Each of them may stop.
SPECIFICATION ServicesSpec
CONSTANTS
  i1 = i1
  i2 = i2
  w1 = w1
  w2 = w2
  t1 = t1
  t2 = t2
  r1 = r1
  Null = Null
  Run = {r1}
  Tool = {"read", "write", "bash"}
  Bash = "bash"
  Model = {"m1", "m2"}
  Profile = {"development", "default", "restricted-egress", "strict"}
  Path <- PathValues
  Workspace <- WorkspaceValue
  Template <- TemplateValue
  Policies <- PolicyValues
  GatewayCall <- Id
  Backends = 2
  Threshold = 1
  AdmissionRun <- Runs
  TenantOf <- TenantOfValues
  MaxActiveRuns = 3
  MaxActiveRunsPerTenant = 3
  Budgets <- BudgetValues
  Thresholds <- ThresholdValues
  VllmAnswers <- VllmAnswerValues
  GpuAnswers <- GpuAnswerValues
  Tenant = {t1, t2}
  Token = {"key", "login"}
  Keys <- KeyValues
  Session <- Id
  TenantWorkspace <- WorkspaceId
  Request = {"q"}
  Config <- ConfigValues
  MaxRuns = 2
  TimelineCall <- Calls
  TimelineTool <- Tools
  Channel = {"answer"}
  Bounds <- BoundValues
  MaxPipe = 2
  PoolRun <- Runs
  Key = {"k1", "k2"}
  KeyOf <- KeyOfValues
  Container = {"x1", "x2", "x3", "x4"}
  Capacity = 1
  MaxStarts = 2
  File <- Id
  Content = {"c1", "c2"}
  MaxWrites = 3
  MaxAttempts = 2
  Conversation <- Id
  MaxVersion = 2
  MaxInFlight = 2
  Budget = 8
  NoticeTokens = 1
  ToolsTokens = 1
  Sizes = {1, 3}
  Documents <- Texts
  MaxMessages = 5
SYMMETRY Sym
CHECK_DEADLOCK FALSE
INVARIANT ServicesTypeOK
INVARIANT RoutingIsFair
INVARIANT AdmissionsAreSound
INVARIANT EveryLayerIsRespected
INVARIANT TenantsStayApart
INVARIANT TimelineTellsTheTruth
INVARIANT PoolIsDrained
INVARIANT PageFollowsConversation
INVARIANT TrafficStaysUsable
INVARIANT ResultsAreWhatWasLeft
