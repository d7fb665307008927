CONSTANTS
  j1 = j1
  j2 = j2
  w1 = w1
  w2 = w2
  c1 = c1
  u1 = u1
  u2 = u2
  d1 = d1
  s1 = s1
  b1 = b1
  None = None
  Jobs = {j1}
  Deferrable = {j1}
  Workers = {w1}
  Callers = {c1}
  CallerOps = {"dispatch"}
  Users = {u1, u2}
  Loops = {}
  Schedulers = {s1}
  Batchers = {b1}
  Ops = {"APPROVED", "DECLINED", "RESUBMIT", "CANCEL", "REGISTER"}
  LeaseTicks = 1
  RuntimeTicks = 0
  MaxDelay = 0
  MaxDecisions = 2
  Rank <- RankOne
  BatchSize = 1
  Faults = {"unreachable"}
  CrashPoints = {}
  MaxCrashes = 0
SPECIFICATION Spec
CONSTRAINT AtMostTwoBusy
INVARIANTS ApprovedIsBacked PendingHasDecision
PROPERTY OneVerdictWins
