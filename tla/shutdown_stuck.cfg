SPECIFICATION FairSpec
CONSTANTS
  Requests = {r1, r2}
  r1 = r1
  r2 = r2
  Absent = Absent
  Null = Null
  MaxConcurrent = 1
  MaxStreams = 2
  ActiveMigration = FALSE
  EarlyData = FALSE
  Calls = {}
  MaxCalls = 0
  Failures = {"sendSocket"}
  MaxFailures = 1
  TransportErrors = {}
  StartErrors = {}
  BodyErrors = {}
PROPERTY ErrorsPark
