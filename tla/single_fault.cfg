SPECIFICATION Spec
CONSTANTS
  Requests = {r1, r2}
  r1 = r1
  r2 = r2
  Absent = Absent
  Null = Null
  MaxConcurrent = 2
  MaxStreams = 3
  ActiveMigration = FALSE
  EarlyData = FALSE
  Calls = {"Retry", "Abort"}
  MaxCalls = 2
  Failures = {"resolve", "socket", "getsockname", "newConnection", "qlog", "newH3",
              "sendSocket", "sendQuiche", "recvSocket", "recvQuiche",
              "peerClose", "statelessReset", "idleTimeout", "sendRequest",
              "openFile", "body", "streamReset", "goAway", "newScid", "probePath"}
  MaxFailures = 1
  TransportErrors = {"FLOW_CONTROL", "TLS_FAIL", "CRYPTO_FAIL"}
  StartErrors = {"STREAM_LIMIT", "OTHER"}
  BodyErrors = {"DONE", "REQUEST_CANCELLED", "INTERNAL_ERROR"}
SYMMETRY Symmetric
INVARIANTS TypeOK NoDanglingStream EventsReachOwner EventsFindStream PhaseHasConnection
INVARIANT StartedHaveHttp3
