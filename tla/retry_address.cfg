SPECIFICATION Spec
CONSTANTS
  Requests = {r1, r2}
  r1 = r1
  r2 = r2
  Absent = Absent
  Null = Null
  MaxConcurrent = 1
  MaxStreams = 2
  ActiveMigration = FALSE
  EarlyData = FALSE
  Calls = {"Retry"}
  MaxCalls = 1
  Failures = {"idleTimeout"}
  MaxFailures = 1
  TransportErrors = {}
  StartErrors = {}
  BodyErrors = {}
SYMMETRY Symmetric
INVARIANT RetryHasAddress
