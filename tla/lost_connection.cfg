SPECIFICATION FairSpec
CONSTANTS
  Requests = {r1, r2}
  r1 = r1
  r2 = r2
  Absent = Absent
  Null = Null
  MaxConcurrent = 1
  MaxStreams = 2
  ActiveMigration = FALSE
  EarlyData = TRUE
  Calls = {"Reconnect"}
  MaxCalls = 1
  Failures = {"peerClose", "idleTimeout"}
  MaxFailures = 2
  TransportErrors = {}
  StartErrors = {}
  BodyErrors = {}
INVARIANT WaitMeansNoneStarted
PROPERTY ErrorsPark
