SPECIFICATION FairSpec
CONSTANTS
  Requests = {r1, r2}
  r1 = r1
  r2 = r2
  Absent = Absent
  Null = Null
  MaxConcurrent = 1
  MaxStreams = 3
  ActiveMigration = TRUE
  EarlyData = FALSE
  Calls = {"Abort", "Reconnect"}
  MaxCalls = 1
  Failures = {"resolve", "idleTimeout"}
  MaxFailures = 1
  TransportErrors = {}
  StartErrors = {}
  BodyErrors = {}
PROPERTIES RequestsSettle AbortEnds MigrationEnds
