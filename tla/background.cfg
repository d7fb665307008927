CONSTANTS
  s1 = s1
  m1 = m1
  m2 = m2
  r1 = r1
  g1 = g1
  Null = Null
  NoCurve = NoCurve
  Unreadable = Unreadable
  UserRow <- SomeUsers
  Topics <- SomeTopics
  Owner <- SomeOwner
  Senders = {s1}
  MaxOccasions = 1
  Viewers = {"sub"}
  Edited = {"SCHEDULING"}
  Mailers = {m1, m2}
  MaxAttempts = 2
  EmailLimit = 2
  MaxFaults = 1
  Readers = {r1}
  Ingesters = {g1}
  Ttl = 1
  StaleTtl = 2
  LockTtl = 1
  MaxAge = 2
  CsvOutcomes = {TRUE, FALSE}
  DataSet <- SomeDataSet
  Today = 20
  Loaders = {"l1"}
  Simulators = {"sim"}
  MaxLoads = 1
  MaxUnscheduled = 1
  MaxWithdrawn = 1
  Replicas = {"p1", "p2"}
  MaxRetries = 3
  Origins <- SomeOrigins
  Accounts <- SomeAccounts
  OldestRevision = 7
  MaxStarts = 3
SPECIFICATION Spec
INVARIANTS StartedHasModels VersionIsTruthful AdminsKeepTheirReach EveryRowIsStored
  OutcomeIsTruthful OnlyApproversAreAsked AnswersAreFresh
PROPERTIES MailsSettle HealsAfterOutage
CHECK_DEADLOCK FALSE
