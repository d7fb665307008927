CONSTANTS
  j1 = j1
  j2 = j2
  w1 = w1
  w2 = w2
  c1 = c1
  c2 = c2
  None = None
  LeaseTicks = 1
  MaxDecisions = 1
  BatchSize = 1
  Jobs = {j1}
  Deferrable = {j1}
  Workers = {w1, w2}
  Callers = {c1}
  CallerOps = {"dispatch"}
  RuntimeTicks = 0
  MaxDelay = 1
  Rank <- RankOne
  Faults = {"api_error", "ttl"}
  CrashPoints <- AnyStep
  MaxCrashes = 1
SPECIFICATION FairDispatcherSpec
CONSTRAINT AtMostTwoBusy
INVARIANTS QueuedHasExecution ExecutionBacked
PROPERTIES ClaimsResolve NotBeforeWindow
