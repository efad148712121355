SPECIFICATION TransferSpec
CONSTANTS
  Requests = {r1, r2}
  r1 = r1
  r2 = r2
  Absent = Absent
  Null = Null
  MaxConcurrent = 2
  MaxStreams = 4
  ActiveMigration = FALSE
  EarlyData = FALSE
  Calls = {"Retry", "Abort", "Reconnect"}
  MaxCalls = 1
  Failures = {"peerClose", "streamReset"}
  MaxFailures = 1
  TransportErrors = {}
  StartErrors = {}
  BodyErrors = {}
  Word = 16
  Saved = {r2}
  Length <- MCLength
INVARIANTS TransferTypeOK BodyFits BodyComplete ReportedBeforeDelivered
PROPERTIES TotalRestartsIdle FileFinished
