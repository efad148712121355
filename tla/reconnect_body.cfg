SPECIFICATION Spec
CONSTANTS
  Requests = {r1, r2}
  r1 = r1
  r2 = r2
  Absent = Absent
  Null = Null
  MaxConcurrent = 1
  MaxStreams = 3
  ActiveMigration = FALSE
  EarlyData = FALSE
  Calls = {"Reconnect"}
  MaxCalls = 1
  Failures = {}
  MaxFailures = 0
  TransportErrors = {}
  StartErrors = {}
  BodyErrors = {}
SYMMETRY Symmetric
INVARIANT BodyFromOneSending
