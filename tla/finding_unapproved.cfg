CONSTANTS
  j1 = j1
  j2 = j2
  w1 = w1
  w2 = w2
  c1 = c1
  u1 = u1
  u2 = u2
  d1 = d1
  s1 = s1
  b1 = b1
  None = None
  Jobs = {j1}
  Deferrable = {j1}
  Workers = {w1}
  Callers = {}
  CallerOps = {"dispatch", "status"}
  Users = {u1}
  Loops = {d1}
  Schedulers = {}
  Batchers = {}
  Ops = {"APPROVED","RESUBMIT","CANCEL"}
  LeaseTicks = 1
  RuntimeTicks = 0
  MaxDelay = 0
  MaxDecisions = 2
  Rank <- RankOne
  BatchSize = 1
  Faults = {"api_error"}
  CrashPoints <- BeforeDispatching
  MaxCrashes = 0
SPECIFICATION Spec
PROPERTY OnlyApprovedStarts
