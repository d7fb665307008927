CONSTANTS
  w1 = w1
  w2 = w2
  e1 = e1
  e2 = e2
  e3 = e3
  e4 = e4
  c1 = c1
  c2 = c2
  None = None
  Writers = {w1, w2}
  Keepers = {}
  Events = {e1, e2, e3, e4}
  MaxRetries = 2
  Interval = 1
  Faults = {}
  Companies = {c1, c2}
  CreatedEvent <- Created
  AdminEvent <- Admin
SPECIFICATION RegistrationSpec
CHECK_DEADLOCK FALSE
INVARIANT AuditedIsSaved
