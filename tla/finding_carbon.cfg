CONSTANTS
  NoCurve = NoCurve
  Readers = {"r1"}
  Ingesters = {"g1"}
  Ttl = 1
  StaleTtl = 2
  LockTtl = 1
  MaxAge = 2
  CsvOutcomes = {TRUE, FALSE}
SPECIFICATION CarbonSpec
CHECK_DEADLOCK FALSE
INVARIANT FallbackStaysTagged
