CONSTANTS
  r1 = r1
  r2 = r2
  i1 = i1
  Run <- MCRun
  Instances <- MCInstances
  InstanceOf <- MCInstanceOf
  MaxAttempts = 2
  Interruptible = {r1}
  MaxCrashes = 1
SPECIFICATION FairSpec
CHECK_DEADLOCK FALSE
INVARIANTS TypeOK SlotsAreReturned NoForgottenContainer RunningIsExecuting
PROPERTIES KeepsSandboxLifecycle InvocationsReturn
