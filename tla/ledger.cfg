CONSTANTS
  w1 = w1
  w2 = w2
  k1 = k1
  e1 = e1
  e2 = e2
  e3 = e3
  None = None
  Writers = {w1, w2}
  Keepers = {k1}
  Events = {e1, e2}
  MaxRetries = 2
  Interval = 1
  Faults = {"error", "lost_ack", "file"}
  Companies = {}
SPECIFICATION FairLedgerSpec
INVARIANTS VerifyAnchors CollisionsMeanProgress
PROPERTIES ImplementsLog AppendsEnd
CHECK_DEADLOCK FALSE
