CONSTANTS
  a1 = a1
  w1 = w1
  w2 = w2
  e1 = e1
  e2 = e2
  e3 = e3
  e4 = e4
  c1 = c1
  c2 = c2
  None = None
  Unset = Unset
  Absent = Absent
  PerHour = 2
  Resources = {"cpu", "memory", "gpu"}
  CarbonCurve <- Curve
  TariffCurve <- Price
  TariffTemplate <- NoTemplate
  Files <- SomeFiles
  Offset <- SomeOffset
  SummerDays = {3}
  Seasonal = {"west"}
  DefaultPrice = 7
  Windows <- SomeWindows
  Pricers = {"p1"}
  Tenants = {"t1", "t2"}
  Admins = {a1}
  Tolerances = {10}
  MaxUpdates = 1
  Jobs = {1, 2, 3}
  Shapes <- SomeShapes
  Clusters <- SomeClusters
  Pressure <- Busy
  Null = Null
  UserRow <- SomeUsers
  Topics <- SomeTopics
  Owner <- SomeOwner
  Senders = {"s1", "s2"}
  MaxOccasions = 2
  Viewers = {"sub"}
  Edited = {"SCHEDULING"}
  People = {"plat", "adm", "sub", "oth", "new"}
  FirstRows <- SomeRows
  Firms = {"t1", "t2", "t3"}
  OpenFirms = {"t1", "t2"}
  KeyIds = {"k"}
  Handlers = {"h1", "h2"}
  Orders <- SomeOrders
  MaxOrders = 3
  Workloads <- SomeWorkloads
  Writers = {w1, w2}
  Keepers = {}
  Events = {e1, e2, e3, e4}
  MaxRetries = 2
  Interval = 1
  Faults = {"error"}
  Companies = {c1, c2}
  CreatedEvent <- Created
  AdminEvent <- Admin
SPECIFICATION Spec
CONSTRAINT FewEvents
INVARIANTS SlotsAreAccounted OnlyTheUrgentDisplace PolicyIsKept AgreesWithSingle DeadlineIsKept
  PricesAreCurrent PricesFollowTheClock PushedOnce DeactivationIsNoticed ChecksAgree
  VerifyChain RegisteredIsSaved OneCompanyPerName SavedIsAudited
PROPERTY ChangesStayHome
CHECK_DEADLOCK FALSE
