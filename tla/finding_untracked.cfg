CONSTANTS
  j1 = j1
  j2 = j2
  w1 = w1
  w2 = w2
  c1 = c1
  c2 = c2
  None = None
  LeaseTicks = 1
  MaxDecisions = 1
  BatchSize = 1
  Jobs = {j1}
  Deferrable = {j1}
  Workers = {w1}
  Callers = {}
  CallerOps = {"dispatch", "status"}
  RuntimeTicks = 0
  MaxDelay = 0
  Rank <- RankOne
  Faults = {}
  CrashPoints = {}
  MaxCrashes = 0
SPECIFICATION FairDispatcherSpec
PROPERTY RunsAreTracked
