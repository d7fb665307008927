CONSTANTS
  a1 = a1
  Unset = Unset
  PerHour = 2
  Resources = {"cpu", "memory"}
  CarbonCurve <- Curve
  TariffCurve <- Price
  TariffTemplate <- NoTemplate
  Tenants = {"t1"}
  Admins = {a1}
  Tolerances = {5}
  MaxUpdates = 1
  Jobs = {1, 2}
  Shapes <- SomeShapes
  Clusters <- SomeClusters
  Pressure <- Calm
SPECIFICATION PlanningSpec
INVARIANT SpillsWhenFull
