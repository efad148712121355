--------------------------- MODULE ConnectionProofs ---------------------------
(***************************************************************************)
(* Theorems about the connection for every value of the constants.         *)
(***************************************************************************)
EXTENDS ConnectionProperties, TLAPS

-----------------------------------------------------------------------------
(* Conversions between error codes                                         *)

(* A conversion of an error gives a status, whatever the error is.         *)
LEMMA ConversionTypes ==
  ASSUME NEW error, NEW now \in QwfsStatus
  PROVE  /\ ConvertQuicheErrorToStatus(error, now) \in QwfsStatus
         /\ ConvertQuicheH3ErrorToStatus(error, now) \in QwfsStatus
BY DEF ConvertQuicheErrorToStatus, ConvertQuicheH3ErrorToStatus, QwfsStatus,
       NormalStatus, ErrorStatus, CriticalStatus, OrdinaryErrorStatus

-----------------------------------------------------------------------------
(* The control state: status, phase, step and budgets                      *)

(* Every step keeps status, phase, program point and budgets in range.     *)
LEMMA ControlStep ==
  ASSUME TypeOK, Next
  PROVE  ControlOK'
<1> USE DEF ControlOK, Running
<1>0. /\ ControlOK /\ streams \in Seq(Requests)
      /\ \A r \in Requests : stream[r].status \in QwfsStatus
  BY DEF TypeOK, QueuesOK, StreamsOK, Streams
<1> USE <1>0
<1>f. ASSUME NEW kind, Fail(kind)
      PROVE  failures' \in 0 .. MaxFailures
  BY <1>f, ConnectionAssumption DEF Fail
<1>c. ASSUME NEW kind, Call(kind)
      PROVE  calls' \in 0 .. MaxCalls
  BY <1>c, ConnectionAssumption DEF Call
<1>x. ASSUME NEW site \in FaultSites, Crash(site)
      PROVE  ControlOK'
  BY <1>x DEF Crash, netVars, stateVars
<1>s. {"Wait", "Connecting", "Aborting", "ErrorSocket", "ErrorResolveHost",
       "CriticalErrorQuiche", "ErrorFileIO", "ErrorTimeout",
       "ErrorConnectionMigration", "ErrorConnectionClose"} \subseteq QwfsStatus
  BY DEF QwfsStatus, NormalStatus, ErrorStatus, CriticalStatus, OrdinaryErrorStatus
<1>1. CASE Publishing
  BY <1>1, <1>s DEF Publishing, PublishRequest, quietVars, budgetVars
<1>2. CASE Calling
  <2>1. CASE Retry
    BY <2>1, <1>c DEF Retry, Call, netVars, stateVars
  <2>2. CASE Abort
    BY <2>2, <1>c, <1>s DEF Abort, Call, SetStatus, Phases
  <2>3. CASE AbortWithoutConnection
    BY <2>3, <1>x DEF AbortWithoutConnection, FaultSites
  <2>4. CASE AbortIgnored
    BY <2>4, <1>c DEF AbortIgnored, Call, netVars, stateVars
  <2>5. CASE Reconnect
    BY <2>5, <1>c, <1>s DEF Reconnect, Call, SetStatus, Phases,
       TransitionConnectionMigration, ReconnectFromScratch
  <2>6. CASE ReconnectWithoutConnection
    BY <2>6, <1>x DEF ReconnectWithoutConnection, FaultSites
  <2> QED BY <1>2, <2>1, <2>2, <2>3, <2>4, <2>5, <2>6 DEF Calling
<1>3. CASE IssueCallbacks
  BY <1>3 DEF IssueCallbacks, Points, netVars, stateVars, budgetVars
<1>4. CASE Callbacks
  <2>1. CASE CallSuccessCallback
    BY <2>1 DEF CallSuccessCallback, netVars, stateVars, quietVars, budgetVars
  <2>2. CASE CallErrorCallback
    <3>1. streams[cursor] \in Requests
      BY <2>2 DEF CallErrorCallback, InCallbacks
    <3> QED
      BY <2>2, <3>1 DEF CallErrorCallback, SetStatus, Phases, budgetVars
  <2>3. CASE RetryStreamAtOnce
    BY <2>3, <1>x DEF RetryStreamAtOnce, FaultSites
  <2>4. CASE SkipStream
    BY <2>4 DEF SkipStream, netVars, stateVars, budgetVars
  <2>5. CASE CallbacksDone
    BY <2>5 DEF CallbacksDone, Points, netVars, stateVars, budgetVars
  <2> QED BY <1>4, <2>1, <2>2, <2>3, <2>4, <2>5 DEF Callbacks
<1>b. ASSUME NEW spare, NEW s \in QwfsStatus, NEW p \in Phases,
             BreakOff(spare, s, p)
      PROVE  status' \in QwfsStatus /\ phase' \in Phases /\ at' \in Points
  BY <1>b, <1>s DEF BreakOff, TransitionConnectionMigration, SetStatus, Phases, Points
<1>5. CASE Sending
  <2>1. CASE Send
    BY <2>1 DEF Send, OnlyMoves, Points, netVars, stateVars, quietVars, budgetVars
  <2>2. CASE SendToFails
    BY <2>2, <1>b, <1>f, <1>s DEF SendToFails, Phases, stepVars
  <2>3. CASE QuicheSendFails
    BY <2>3, <1>b, <1>f, ConversionTypes DEF QuicheSendFails, SetStatus, Points, stepVars
  <2> QED BY <1>5, <2>1, <2>2, <2>3 DEF Sending
<1>6. CASE Receiving
  <2>1. CASE Receive
    BY <2>1 DEF Receive, OnlyMoves, Points, netVars, stateVars, quietVars, budgetVars
  <2>2. CASE ReceiveEstablished
    BY <2>2 DEF ReceiveEstablished, stateVars, quietVars, budgetVars
  <2>3. CASE ReceiveClose
    BY <2>3, <1>f DEF ReceiveClose, stateVars, stepVars
  <2>4. CASE RecvFromFails
    BY <2>4, <1>b, <1>f, <1>s DEF RecvFromFails, Phases, stepVars
  <2>5. CASE RecvFromFailsWithoutConnection
    BY <2>5, <1>x DEF RecvFromFailsWithoutConnection, FaultSites
  <2>6. CASE QuicheRecvFails
    BY <2>6, <1>b, <1>f, ConversionTypes DEF QuicheRecvFails, SetStatus, Phases, Points, stepVars
  <2> QED BY <1>6, <2>1, <2>2, <2>3, <2>4, <2>5, <2>6 DEF Receiving
<1>7. CASE Connecting
  <2>1. CASE UpdatePhaseCreateSocket
    <3>1. failures' \in 0 .. MaxFailures
      BY <2>1, <1>f DEF UpdatePhaseCreateSocket, CreateUdpSocket
    <3>2. SocketErrors \ {"none"} \subseteq QwfsStatus
      BY <1>s DEF SocketErrors
    <3> QED
      BY <2>1, <3>1, <3>2, <1>s DEF UpdatePhaseCreateSocket, SetStatus,
         Phases, Points, stepVars
  <2>2. CASE UpdatePhaseInitialize
    BY <2>2, <1>f, <1>s DEF UpdatePhaseInitialize, SetStatus, Phases, Points,
       Phases, Points, stepVars
  <2>3. CASE InitializeWithoutAddress
    BY <2>3, <1>x DEF InitializeWithoutAddress, FaultSites
  <2>4. CASE StartEarlyData
    BY <2>4, <1>f DEF StartEarlyData, Points, stateVars, stepVars
  <2>5. CASE SkipEarlyData
    BY <2>5 DEF SkipEarlyData, OnlyMoves, Points, netVars, stateVars,
       quietVars, budgetVars
  <2>6. CASE AwaitEstablished
    BY <2>6 DEF AwaitEstablished, OnlyMoves, Points, netVars, stateVars,
       quietVars, budgetVars
  <2>7. CASE FinishHandshake
    BY <2>7, <1>f, <1>s DEF FinishHandshake, SetStatus, Phases, Points, stepVars
  <2> QED
    BY <1>7, <2>1, <2>2, <2>3, <2>4, <2>5, <2>6, <2>7 DEF Connecting
<1>8. CASE Waiting
  <2>1. CASE StartRetry
    BY <2>1, <1>s DEF StartRetry, SetStatus, Phases, Points, quietVars, budgetVars
  <2>2. CASE AwaitRetry
    BY <2>2 DEF AwaitRetry, OnlyMoves, Points, netVars, stateVars, quietVars,
       budgetVars
  <2>3. CASE StartPolling
    BY <2>3, <1>x DEF StartPolling, OnlyMoves, Points, FaultSites, netVars,
       stateVars, quietVars, budgetVars
  <2> QED BY <1>8, <2>1, <2>2, <2>3 DEF Waiting
<1>9. CASE Polling
  <2> USE DEF DropEvent, Points, netVars, stateVars
  <2>1. CASE PollDone
    BY <2>1 DEF PollDone, OnlyMoves, quietVars, budgetVars
  <2>2. ASSUME NEW id \in StreamIds, PollFinished(id)
        PROVE  ControlOK'
    BY <2>2 DEF PollFinished, quietVars, budgetVars
  <2>3. ASSUME NEW id \in StreamIds, PollResponse(id)
        PROVE  ControlOK'
    BY <2>3, <1>f DEF PollResponse, stepVars
  <2>4. ASSUME NEW id \in StreamIds, PollInvalidStream(id)
        PROVE  ControlOK'
    BY <2>4, <1>x DEF PollInvalidStream, FaultSites
  <2>5. ASSUME NEW id \in StreamIds, PollReset(id)
        PROVE  ControlOK'
    BY <2>5, <1>f DEF PollReset, Phases, stepVars
  <2>6. ASSUME NEW id \in StreamIds, PollGoAway(id)
        PROVE  ControlOK'
    BY <2>6, <1>f DEF PollGoAway, stepVars
  <2> QED BY <1>9, <2>1, <2>2, <2>3, <2>4, <2>5, <2>6 DEF Polling
<1>10. CASE Starting
  <2>l. ASSUME LeaveLoop
        PROVE  status' \in QwfsStatus /\ phase' \in Phases /\ at' \in Points
    BY <2>l, <1>s DEF LeaveLoop, Points
  <2>1. CASE StartStream
    BY <2>1, <1>s DEF StartStream, quietVars, budgetVars
  <2>2. CASE StartStreamFails
    <3>1. ASSUME NEW r, NEW failed, NEW code, FailToStart(r, failed, code)
          PROVE  status' \in QwfsStatus /\ phase' \in Phases /\ at' \in Points
      BY <3>1, <2>l, <1>s DEF FailToStart, SetStatus, Phases, Points
    <3> QED BY <2>2, <3>1, <1>f DEF StartStreamFails, stepVars
  <2>3. CASE StartDone
    BY <2>3, <2>l DEF StartDone, quietVars, budgetVars
  <2> QED BY <1>10, <2>1, <2>2, <2>3 DEF Starting
<1>11. CASE ShuttingDown
  <2>1. CASE UpdatePhaseStartShutdown
    BY <2>1 DEF UpdatePhaseStartShutdown, SetStatus, Phases, Points, quietVars,
       budgetVars
  <2>2. CASE UpdatePhaseWaitShutdown
    BY <2>2, <1>x, <1>s DEF UpdatePhaseWaitShutdown, FinishAbort, ParkRequests,
       SetStatus, Phases, Points, FaultSites, stateVars, quietVars, budgetVars
  <2> QED BY <1>11, <2>1, <2>2 DEF ShuttingDown
<1>12. CASE Migrating
  <2>f. ASSUME NEW open, NEW error, CreateUdpSocket(open, error)
        PROVE  failures' \in 0 .. MaxFailures
    BY <2>f, <1>f DEF CreateUdpSocket
  <2>e. SocketErrors \ {"none"} \subseteq QwfsStatus
    BY <1>s DEF SocketErrors
  <2>1. CASE AwaitResolution
    BY <2>1, <2>f, <1>s DEF AwaitResolution, MigrationTimeout, Timeout, SetStatus,
       Phases, Points, stepVars
  <2>2. CASE Migrate
    BY <2>2, <2>f, <2>e DEF Migrate, SetStatus, Phases, Points, stepVars
  <2>3. CASE MigrateRefused
    BY <2>3, <1>f, <1>s DEF MigrateRefused, SetStatus, Phases, Points, stepVars
  <2>4. CASE MigrateWithoutAddress
    BY <2>4, <1>x DEF MigrateWithoutAddress, FaultSites
  <2> QED BY <1>12, <2>1, <2>2, <2>3, <2>4 DEF Migrating
<1>13. CASE Checking
  <2>1. CASE CheckConnectionClosed
    BY <2>1, <1>s DEF CheckConnectionClosed, SetStatus, Phases, Points,
       quietVars, budgetVars
  <2>2. CASE CheckConnectionTimeout
    BY <2>2, <1>f, <1>s DEF CheckConnectionTimeout, SetStatus, Phases, Points,
       stateVars, stepVars
  <2>3. CASE CheckDone
    BY <2>3 DEF CheckDone, OnlyMoves, Points, netVars, stateVars, quietVars,
       budgetVars
  <2> QED BY <1>13, <2>1, <2>2, <2>3 DEF Checking
<1>14. CASE Crashed
  BY <1>14 DEF Crashed, vars, netVars, stateVars, quietVars, budgetVars
<1> QED
  BY <1>1, <1>2, <1>3, <1>4, <1>5, <1>6, <1>7, <1>8, <1>9, <1>10, <1>11,
     <1>12, <1>13, <1>14 DEF Next

-----------------------------------------------------------------------------
(* The handles and the two flags                                           *)

(* Every step keeps the handles and the flags of Retry and Abort in range. *)
LEMMA HandlesStep ==
  ASSUME TypeOK, Next
  PROVE  HandlesOK'
<1> USE DEF HandlesOK, ConnStates, Handles
<1>0. HandlesOK
  BY DEF TypeOK
<1> USE <1>0
<1>x. ASSUME NEW site, Crash(site)
      PROVE  HandlesOK'
  BY <1>x DEF Crash, netVars, socketVars, quicVars, setupVars, appVars, flagVars
<1> USE DEF socketVars, setupVars, flagVars
<1>1. CASE Publishing
  BY <1>1 DEF Publishing, PublishRequest, quicVars
<1>2. CASE Calling
  <2> USE DEF netVars, quicVars
  <2>1. CASE Retry
    BY <2>1 DEF Retry
  <2>2. CASE Abort
    BY <2>2 DEF Abort
  <2>3. CASE AbortIgnored
    BY <2>3 DEF AbortIgnored, appVars
  <2>4. CASE Reconnect
    BY <2>4 DEF Reconnect, TransitionConnectionMigration, ReconnectFromScratch,
       CloseUdpSocket
  <2> QED
    BY <1>2, <1>x, <2>1, <2>2, <2>3, <2>4 DEF Calling, AbortWithoutConnection,
       ReconnectWithoutConnection
<1>3. CASE IssueCallbacks
  BY <1>3 DEF IssueCallbacks, netVars, quicVars, appVars
<1>4. CASE Callbacks
  BY <1>4, <1>x DEF Callbacks, CallSuccessCallback, CallErrorCallback,
     RetryStreamAtOnce, SkipStream, CallbacksDone, netVars, quicVars, appVars
<1>b. ASSUME NEW spare, NEW s, NEW p, BreakOff(spare, s, p)
      PROVE  sock' \in BOOLEAN /\ peerAddInfo' \in BOOLEAN
  BY <1>b DEF BreakOff, TransitionConnectionMigration, CloseUdpSocket
<1>5. CASE Sending
  BY <1>5, <1>b DEF Sending, Send, OnlyMoves, SendToFails, QuicheSendFails,
     netVars, quicVars, appVars
<1>6. CASE Receiving
  <2> USE DEF appVars
  <2>1. CASE Receive \/ ReceiveEstablished \/ ReceiveClose
    BY <2>1 DEF Receive, OnlyMoves, ReceiveEstablished, ReceiveClose, netVars,
       quicVars
  <2>2. CASE RecvFromFails
    BY <2>2, <1>b DEF RecvFromFails, quicVars
  <2>3. CASE QuicheRecvFails
    BY <2>3, <1>b DEF QuicheRecvFails
  <2> QED
    BY <1>6, <1>x, <2>1, <2>2, <2>3 DEF Receiving, RecvFromFailsWithoutConnection
<1>u. ASSUME NEW open \in BOOLEAN, NEW error, CreateUdpSocket(open, error)
      PROVE  sock' \in BOOLEAN /\ peerAddInfo' \in BOOLEAN
  BY <1>u DEF CreateUdpSocket
<1>7. CASE Connecting
  <2>1. CASE UpdatePhaseCreateSocket
    BY <2>1, <1>u DEF UpdatePhaseCreateSocket
  <2>2. CASE UpdatePhaseInitialize
    BY <2>2, ConnectionAssumption DEF UpdatePhaseInitialize
  <2>3. CASE StartEarlyData \/ FinishHandshake
    BY <2>3 DEF StartEarlyData, FinishHandshake, appVars
  <2>4. CASE SkipEarlyData \/ AwaitEstablished
    BY <2>4 DEF SkipEarlyData, AwaitEstablished, OnlyMoves, netVars, quicVars,
       appVars
  <2> QED
    BY <1>7, <1>x, <2>1, <2>2, <2>3, <2>4 DEF Connecting, InitializeWithoutAddress
<1>8. CASE Waiting
  BY <1>8, <1>x DEF Waiting, StartRetry, AwaitRetry, StartPolling, OnlyMoves,
     netVars, quicVars, appVars
<1>9. CASE Polling
  <2>1. CASE PollDone
    BY <2>1 DEF PollDone, OnlyMoves, netVars, quicVars, appVars
  <2>2. ASSUME NEW id \in StreamIds,
               PollFinished(id) \/ PollReset(id)
        PROVE  HandlesOK'
    BY <2>2 DEF PollFinished, PollReset
  <2>3. ASSUME NEW id \in StreamIds,
               PollResponse(id) \/ PollGoAway(id)
        PROVE  HandlesOK'
    BY <2>3 DEF PollResponse, PollGoAway, netVars, quicVars
  <2> QED BY <1>9, <1>x, <2>1, <2>2, <2>3 DEF Polling, PollInvalidStream
<1>10. CASE Starting
  BY <1>10 DEF Starting, StartStream, StartStreamFails, StartDone, netVars,
     quicVars, appVars
<1>11. CASE ShuttingDown
  BY <1>11, <1>x DEF ShuttingDown, UpdatePhaseStartShutdown,
     UpdatePhaseWaitShutdown, FinishAbort, ParkRequests, CloseUdpSocket, quicVars
<1>12. CASE Migrating
  <2>1. CASE AwaitResolution
    BY <2>1, <1>u DEF AwaitResolution, MigrationTimeout, Timeout, appVars
  <2>2. CASE Migrate
    BY <2>2, <1>u DEF Migrate, quicVars, appVars
  <2>3. CASE MigrateRefused
    BY <2>3 DEF MigrateRefused, quicVars, appVars
  <2> QED BY <1>12, <1>x, <2>1, <2>2, <2>3 DEF Migrating, MigrateWithoutAddress
<1>13. CASE Checking
  BY <1>13 DEF Checking, CheckConnectionClosed, CheckConnectionTimeout,
     CheckDone, OnlyMoves, netVars, quicVars, appVars
<1>14. CASE Crashed
  BY <1>14 DEF Crashed, vars, netVars, quicVars, appVars
<1> QED
  BY <1>1, <1>2, <1>3, <1>4, <1>5, <1>6, <1>7, <1>8, <1>9, <1>10, <1>11,
     <1>12, <1>13, <1>14 DEF Next

-----------------------------------------------------------------------------
(* The Stream objects, the map to them and the server's view               *)

(* A Stream with another status or body is one.                            *)
LEMMA FieldUpdate ==
  ASSUME NEW f \in [Requests -> Streams], NEW r \in Requests
  PROVE  /\ \A s \in QwfsStatus : [f EXCEPT ![r].status = s] \in [Requests -> Streams]
         /\ \A b \in Bodies : [f EXCEPT ![r].body = b] \in [Requests -> Streams]
BY DEF Streams

(* Every step keeps Streams, map, server and history in range.             *)
LEMMA StreamsStep ==
  ASSUME TypeOK, Next
  PROVE  StreamsOK'
<1> DEFINE MapOK    == streamsMap \in [StreamIds -> Requests \cup {Absent, Null}]
           ObjectOK == stream \in [Requests -> Streams]
           PeerOK   == peer \in [next : 0 .. MaxStreams,
                                 asked : [StreamIds -> Requests \cup {Absent}]]
           OutcomeOK ==
             outcome \in [Requests -> {"new", "pending", "delivered", "aborted"}]
<1>0. /\ MapOK /\ ObjectOK /\ PeerOK /\ OutcomeOK
      /\ streams \in Seq(Requests) /\ stock \in Seq(Requests)
      /\ status \in QwfsStatus /\ cursor \in Nat \ {0}
  BY DEF TypeOK, StreamsOK, QueuesOK, ControlOK
<1>k. /\ UNCHANGED streamsMap => MapOK'
      /\ UNCHANGED stream => ObjectOK'
      /\ UNCHANGED peer => PeerOK'
      /\ UNCHANGED outcome => OutcomeOK'
  BY <1>0
<1>q. (MapOK /\ ObjectOK /\ PeerOK /\ OutcomeOK)' => StreamsOK'
  BY DEF StreamsOK
<1>u. ASSUME NEW ids PROVE Unmap(ids) \in [StreamIds -> Requests \cup {Absent, Null}]
  BY <1>0 DEF Unmap
<1>c. /\ 0 \in StreamIds /\ NoId \in StreamIds \cup {NoId}
      /\ {"null", "current", "stale"} \subseteq Handles
      /\ {"Connecting", "Completed", "ErrorFileIO", "CriticalErrorQuiche"}
           \subseteq QwfsStatus
      /\ "empty" \in Bodies
  BY ConnectionAssumption DEF StreamIds, NoId, Handles, Bodies, QwfsStatus,
     NormalStatus, ErrorStatus, CriticalStatus, OrdinaryErrorStatus
<1>s. /\ ClearedStream \in Streams
      /\ \A s \in QwfsStatus : [ClearedStream EXCEPT !.status = s] \in Streams
      /\ \A b \in Bodies : [ClearedStream EXCEPT !.body = b] \in Streams
  BY <1>c DEF ClearedStream, Streams
<1>d. Detached \in [Requests -> Streams]
  BY <1>0, <1>c DEF Detached, Streams
<1>n. NothingAsked \in [StreamIds -> Requests \cup {Absent}]
  BY DEF NothingAsked
<1>x. ASSUME NEW site, Crash(site)
      PROVE  StreamsOK'
  BY <1>x, <1>k, <1>q DEF Crash, netVars, quicVars, appVars, listVars, requestVars
<1>1. CASE Publishing
  BY <1>1, <1>0, <1>k, <1>q DEF Publishing, PublishRequest, quicVars
<1>2. CASE Calling
  <2>1. CASE Retry \/ AbortIgnored
    BY <2>1, <1>k, <1>q DEF Retry, AbortIgnored, netVars, quicVars, appVars,
       listVars, requestVars
  <2>2. CASE Abort
    BY <2>2, <1>0, <1>k, <1>q, <1>u, <1>s DEF Abort
  <2>3. CASE Reconnect
    BY <2>3, <1>k, <1>q, <1>u DEF Reconnect, ReconnectFromScratch, quicVars,
       listVars, requestVars
  <2> QED
    BY <1>2, <1>x, <2>1, <2>2, <2>3 DEF Calling, AbortWithoutConnection,
       ReconnectWithoutConnection
<1>3. CASE IssueCallbacks
  BY <1>3, <1>k, <1>q DEF IssueCallbacks, netVars, quicVars, appVars, listVars,
     requestVars
<1>4. CASE Callbacks
  <2>1. CASE CallSuccessCallback
    <3>1. streams[cursor] \in Requests
      BY <2>1, <1>0 DEF CallSuccessCallback, InCallbacks
    <3>2. stream[streams[cursor]].body \in Bodies
      BY <3>1, <1>0 DEF Streams
    <3> QED
      BY <2>1, <3>1, <3>2, <1>0, <1>k, <1>q, <1>u, <1>s DEF CallSuccessCallback,
         netVars, quicVars
  <2>2. CASE CallErrorCallback \/ SkipStream \/ CallbacksDone
    BY <2>2, <1>k, <1>q DEF CallErrorCallback, SkipStream, CallbacksDone,
       netVars, quicVars, appVars, listVars, requestVars
  <2> QED BY <1>4, <1>x, <2>1, <2>2 DEF Callbacks, RetryStreamAtOnce
<1>5. CASE Sending
  BY <1>5, <1>k, <1>q DEF Sending, Send, OnlyMoves, SendToFails, QuicheSendFails,
     netVars, quicVars, appVars, listVars, requestVars
<1>6. CASE Receiving
  BY <1>6, <1>x, <1>k, <1>q DEF Receiving, Receive, OnlyMoves, ReceiveEstablished,
     ReceiveClose, RecvFromFails, RecvFromFailsWithoutConnection, QuicheRecvFails,
     netVars, quicVars, appVars, listVars, requestVars
<1>7. CASE Connecting
  <2>1. CASE UpdatePhaseCreateSocket
    BY <2>1, <1>k, <1>q, <1>d, <1>n, ConnectionAssumption
       DEF UpdatePhaseCreateSocket, listVars
  <2>2. CASE UpdatePhaseInitialize
    BY <2>2, <1>0, <1>k, <1>q, <1>d, <1>n DEF UpdatePhaseInitialize, listVars
  <2>3. CASE StartEarlyData \/ FinishHandshake
    <3>1. [peer EXCEPT !.next = 0] \in
            [next : 0 .. MaxStreams, asked : [StreamIds -> Requests \cup {Absent}]]
      BY <1>0, ConnectionAssumption
    <3>2. PeerOK'
      BY <2>3, <3>1, <1>0 DEF StartEarlyData, FinishHandshake
    <3> QED
      BY <2>3, <3>2, <1>k, <1>q DEF StartEarlyData, FinishHandshake, appVars,
         listVars, requestVars
  <2>4. CASE SkipEarlyData \/ AwaitEstablished
    BY <2>4, <1>k, <1>q DEF SkipEarlyData, AwaitEstablished, OnlyMoves, netVars,
       quicVars, appVars, listVars, requestVars
  <2> QED
    BY <1>7, <1>x, <2>1, <2>2, <2>3, <2>4 DEF Connecting, InitializeWithoutAddress
<1>8. CASE Waiting
  BY <1>8, <1>x, <1>k, <1>q DEF Waiting, StartRetry, AwaitRetry, StartPolling,
     OnlyMoves, netVars, quicVars, appVars, listVars, requestVars
<1>9. CASE Polling
  <2>1. CASE PollDone
    BY <2>1, <1>k, <1>q DEF PollDone, OnlyMoves, netVars, quicVars, appVars,
       listVars, requestVars
  <2> SUFFICES ASSUME NEW id \in StreamIds,
                      \/ PollFinished(id) \/ PollResponse(id)
                      \/ PollReset(id) \/ PollGoAway(id)
               PROVE  StreamsOK'
    BY <1>9, <1>x, <2>1 DEF Polling, PollInvalidStream
  <2>a. Answered(id) => PeerOK'
    BY <1>0 DEF Answered
  <2>m. DropEvent(id) => MapOK'
    BY <1>0 DEF DropEvent
  <2>o. ASSUME ~Unmapped(id)
        PROVE  /\ streamsMap[id] \in Requests
               /\ stream[streamsMap[id]] \in Streams
    BY <2>o, <1>0 DEF Unmapped
  <2>2. CASE PollFinished(id)
    <3>1. CASE Unmapped(id)
      BY <2>2, <2>a, <2>m, <3>1, <1>k, <1>q DEF PollFinished
    <3>2. CASE ~Unmapped(id)
      <4>1. streamsMap[id] \in Requests /\ "Completed" \in QwfsStatus
        BY <2>o, <3>2, <1>c
      <4>2. stream' = [stream EXCEPT ![streamsMap[id]].status = "Completed"]
        BY <2>2, <3>2 DEF PollFinished
      <4>3. [stream EXCEPT ![streamsMap[id]].status = "Completed"]
              \in [Requests -> Streams]
        BY <1>0, <4>1, FieldUpdate
      <4> QED BY <2>2, <2>a, <3>2, <4>2, <4>3, <1>k, <1>q DEF PollFinished
    <3> QED BY <3>1, <3>2
  <2>3. CASE PollResponse(id)
    <3>1. \A b \in Bodies : Extended(b) \in Bodies
      BY DEF Extended, Bodies
    <3>2. CASE UNCHANGED stream
      BY <2>3, <2>m, <3>2, <1>k, <1>q DEF PollResponse, netVars, quicVars
    <3>3. CASE ~Unmapped(id)
      <4>1. streamsMap[id] \in Requests /\ stream[streamsMap[id]] \in Streams
        BY <2>o, <3>3
      <4>2. ASSUME stream' = [stream EXCEPT ![streamsMap[id]].body = Extended(@)]
            PROVE  ObjectOK'
        <5>1. Extended(stream[streamsMap[id]].body) \in Bodies
          BY <3>1, <4>1 DEF Streams
        <5>2. [stream EXCEPT ![streamsMap[id]].body = Extended(@)]
                \in [Requests -> Streams]
          BY <1>0, <4>1, <5>1, FieldUpdate
        <5> QED BY <4>2, <5>2
      <4>3. ASSUME NEW error \in BodyErrors,
                   stream' = [stream EXCEPT ![streamsMap[id]].status =
                                ConvertQuicheH3ErrorToStatus(error, @)]
            PROVE  ObjectOK'
        <5>1. ConvertQuicheH3ErrorToStatus(error, stream[streamsMap[id]].status)
                \in QwfsStatus
          BY <4>1, ConversionTypes DEF Streams
        <5>2. [stream EXCEPT ![streamsMap[id]].status =
                 ConvertQuicheH3ErrorToStatus(error, @)] \in [Requests -> Streams]
          BY <1>0, <4>1, <5>1, FieldUpdate
        <5> QED BY <4>3, <5>2
      <4>4. UNCHANGED streamsMap
        BY <2>3, <3>3 DEF PollResponse
      <4>5. ObjectOK'
        BY <2>3, <3>3, <4>2, <4>3, <1>0 DEF PollResponse
      <4> QED BY <2>3, <4>4, <4>5, <1>k, <1>q DEF PollResponse, netVars, quicVars
    <3> QED BY <2>3, <3>2, <3>3 DEF PollResponse
  <2>4. CASE PollReset(id)
    BY <2>4, <2>a, <2>m, <1>k, <1>q DEF PollReset, requestVars
  <2>5. CASE PollGoAway(id)
    BY <2>5, <2>m, <1>k, <1>q DEF PollGoAway, netVars, quicVars, requestVars
  <2> QED BY <2>2, <2>3, <2>4, <2>5
<1>10. CASE Starting
  <2>h. ASSUME CanStart
        PROVE  Head(stock) \in Requests /\ stream[Head(stock)] \in Streams
    BY <2>h, <1>0 DEF CanStart
  <2>1. CASE StartStream
    <3> DEFINE r  == Head(stock)
               id == peer.next
    <3>1. r \in Requests /\ stream[r] \in Streams
      BY <2>1, <2>h DEF StartStream
    <3>2. id \in StreamIds /\ id + 1 \in 0 .. MaxStreams
      <4>1. id \in 0 .. MaxStreams /\ id < MaxStreams
        BY <2>1, <1>0 DEF StartStream
      <4> HIDE DEF id
      <4> QED BY <4>1, ConnectionAssumption DEF StreamIds
    <3>3. \A b \in Bodies : (IF b = "part" THEN "old" ELSE b) \in Bodies
      BY DEF Bodies
    <3>4. stream' = [stream EXCEPT ![r].id = id, ![r].handle = "current",
                                   ![r].body = IF @ = "part" THEN "old" ELSE @]
      BY <2>1 DEF StartStream
    <3>5. ObjectOK'
      <4>1. stream' = [stream EXCEPT ![r] =
                [stream[r] EXCEPT !.id = id, !.handle = "current",
                                  !.body = IF @ = "part" THEN "old" ELSE @]]
        BY <3>1, <3>4, <1>0 DEF Streams
      <4>2. [stream[r] EXCEPT !.id = id, !.handle = "current",
                              !.body = IF @ = "part" THEN "old" ELSE @] \in Streams
        BY <3>1, <3>2, <3>3, <1>c DEF Streams
      <4> QED BY <4>1, <4>2, <3>1, <1>0
    <3>6. MapOK'
      BY <2>1, <3>1, <3>2, <1>0 DEF StartStream
    <3>7. PeerOK'
      <4>1. [peer.asked EXCEPT ![id] = IF conn = "open" THEN r ELSE @]
              \in [StreamIds -> Requests \cup {Absent}]
        BY <3>1, <3>2, <1>0
      <4> QED BY <2>1, <3>2, <4>1 DEF StartStream
    <3> QED BY <2>1, <3>5, <3>6, <3>7, <1>k, <1>q DEF StartStream
  <2>2. CASE StartStreamFails
    <3>1. /\ [stream[Head(stock)] EXCEPT !.status = "ErrorFileIO"] \in Streams
          /\ [stream[Head(stock)] EXCEPT !.id = NoId,
                !.status = "CriticalErrorQuiche", !.handle = "current"] \in Streams
      BY <2>2, <2>h, <1>c DEF StartStreamFails, Streams
    <3>2. ObjectOK'
      BY <2>2, <2>h, <3>1, <1>0 DEF StartStreamFails, FailToStart
    <3> QED BY <2>2, <3>2, <1>k, <1>q DEF StartStreamFails, quicVars, listVars
  <2>3. CASE StartDone
    BY <2>3, <1>k, <1>q DEF StartDone, quicVars, appVars, listVars, requestVars
  <2> QED BY <1>10, <2>1, <2>2, <2>3 DEF Starting
<1>11. CASE ShuttingDown
  <2>1. CASE UpdatePhaseStartShutdown
    BY <2>1, <1>0, <1>s, <1>k, <1>q DEF UpdatePhaseStartShutdown, quicVars, listVars
  <2>2. CASE UpdatePhaseWaitShutdown
    BY <2>2, <1>u, <1>k, <1>q, <1>x DEF UpdatePhaseWaitShutdown, FinishAbort,
       ParkRequests, quicVars, listVars, requestVars
  <2> QED BY <1>11, <2>1, <2>2 DEF ShuttingDown
<1>12. CASE Migrating
  BY <1>12, <1>x, <1>k, <1>q DEF Migrating, AwaitResolution, Migrate,
     MigrateRefused, MigrateWithoutAddress, quicVars, appVars, listVars, requestVars
<1>13. CASE Checking
  BY <1>13, <1>k, <1>q DEF Checking, CheckConnectionClosed, CheckConnectionTimeout,
     CheckDone, OnlyMoves, netVars, quicVars, appVars, listVars, requestVars
<1>14. CASE Crashed
  BY <1>14, <1>k, <1>q DEF Crashed, vars, netVars, quicVars, appVars, listVars,
     requestVars
<1> QED
  BY <1>1, <1>2, <1>3, <1>4, <1>5, <1>6, <1>7, <1>8, <1>9, <1>10, <1>11,
     <1>12, <1>13, <1>14 DEF Next

-----------------------------------------------------------------------------
(* Sequences without repetition                                            *)

(* A concatenation repeats nothing iff its parts do not and are disjoint.  *)
LEMMA Concatenation ==
  ASSUME NEW S, NEW s \in Seq(S), NEW t \in Seq(S)
  PROVE  /\ s \o t \in Seq(S)
         /\ ToSet(s \o t) = ToSet(s) \cup ToSet(t)
         /\ IsInjective(s \o t) <=>
              IsInjective(s) /\ IsInjective(t) /\ ToSet(s) \cap ToSet(t) = {}
<1> DEFINE st == s \o t
<1>1. /\ st \in Seq(S) /\ Len(st) = Len(s) + Len(t)
      /\ DOMAIN s = 1 .. Len(s) /\ DOMAIN t = 1 .. Len(t)
      /\ DOMAIN st = 1 .. Len(s) + Len(t)
      /\ Len(s) \in Nat /\ Len(t) \in Nat
  OBVIOUS
<1>2. /\ \A i \in DOMAIN s : i \in DOMAIN st /\ st[i] = s[i]
      /\ \A i \in DOMAIN t : Len(s) + i \in DOMAIN st /\ st[Len(s) + i] = t[i]
  BY <1>1
<1>3. \A i \in DOMAIN st : \/ i \in DOMAIN s /\ st[i] = s[i]
                           \/ i - Len(s) \in DOMAIN t /\ st[i] = t[i - Len(s)]
  BY <1>1
<1> HIDE DEF st
<1>4. ToSet(st) = ToSet(s) \cup ToSet(t)
  BY <1>1, <1>2, <1>3 DEF ToSet
<1>5. ASSUME IsInjective(st)
      PROVE  IsInjective(s) /\ IsInjective(t) /\ ToSet(s) \cap ToSet(t) = {}
  <2>1. IsInjective(s)
    BY <1>2, <1>5 DEF IsInjective
  <2>2. IsInjective(t)
    BY <1>1, <1>2, <1>5 DEF IsInjective
  <2>3. \A i \in DOMAIN s, j \in DOMAIN t : s[i] # t[j]
    BY <1>1, <1>2, <1>5 DEF IsInjective
  <2> QED BY <2>1, <2>2, <2>3 DEF ToSet
<1>6. ASSUME IsInjective(s), IsInjective(t), ToSet(s) \cap ToSet(t) = {}
      PROVE  IsInjective(st)
  <2>1. \A i \in DOMAIN s, j \in DOMAIN t : s[i] # t[j]
    BY <1>6 DEF ToSet
  <2> SUFFICES ASSUME NEW a \in DOMAIN st, NEW b \in DOMAIN st, st[a] = st[b]
               PROVE  a = b
    BY DEF IsInjective
  <2> QED BY <1>1, <1>3, <1>6, <2>1 DEF IsInjective
<1> QED BY <1>1, <1>4, <1>5, <1>6 DEF st

(* Append of something new, Tail.                                          *)
LEMMA AppendTail ==
  ASSUME NEW S, NEW s \in Seq(S), IsInjective(s)
  PROVE  /\ \A e \in S : /\ Append(s, e) \in Seq(S)
                         /\ ToSet(Append(s, e)) = ToSet(s) \cup {e}
                         /\ e \notin ToSet(s) => IsInjective(Append(s, e))
         /\ s # <<>> => /\ Tail(s) \in Seq(S) /\ Head(s) \in ToSet(s)
                        /\ ToSet(Tail(s)) = ToSet(s) \ {Head(s)}
                        /\ IsInjective(Tail(s))
<1>1. ASSUME NEW e \in S
      PROVE  /\ Append(s, e) \in Seq(S)
             /\ ToSet(Append(s, e)) = ToSet(s) \cup {e}
             /\ e \notin ToSet(s) => IsInjective(Append(s, e))
  <2>1. /\ Len(Append(s, e)) = Len(s) + 1
        /\ DOMAIN Append(s, e) = 1 .. Len(s) + 1 /\ DOMAIN s = 1 .. Len(s)
        /\ Append(s, e)[Len(s) + 1] = e
        /\ \A i \in 1 .. Len(s) : Append(s, e)[i] = s[i]
    OBVIOUS
  <2>2. ToSet(Append(s, e)) = ToSet(s) \cup {e}
    BY <2>1 DEF ToSet
  <2>3. e \notin ToSet(s) => IsInjective(Append(s, e))
    BY <2>1 DEF ToSet, IsInjective
  <2> QED BY <2>2, <2>3
<1>2. ASSUME s # <<>>
      PROVE  /\ Tail(s) \in Seq(S) /\ Head(s) \in ToSet(s)
             /\ ToSet(Tail(s)) = ToSet(s) \ {Head(s)}
             /\ IsInjective(Tail(s))
  <2>1. /\ Len(Tail(s)) = Len(s) - 1 /\ Len(s) > 0 /\ Tail(s) \in Seq(S)
        /\ DOMAIN Tail(s) = 1 .. Len(s) - 1 /\ DOMAIN s = 1 .. Len(s)
        /\ Head(s) = s[1]
        /\ \A i \in 1 .. Len(s) - 1 : Tail(s)[i] = s[i + 1]
    BY <1>2
  <2>2. IsInjective(Tail(s))
    BY <1>2, <2>1 DEF IsInjective
  <2>3. ToSet(Tail(s)) = ToSet(s) \ {Head(s)}
    <3>1. \A i \in 2 .. Len(s) : i - 1 \in DOMAIN Tail(s) /\ Tail(s)[i - 1] = s[i]
      BY <2>1
    <3>2. \A i \in 2 .. Len(s) : s[i] # s[1]
      BY <2>1 DEF IsInjective
    <3>3. \A i \in DOMAIN Tail(s) : \E j \in 2 .. Len(s) : Tail(s)[i] = s[j]
      BY <2>1
    <3>4. \A i \in DOMAIN s : i = 1 \/ i \in 2 .. Len(s)
      BY <2>1
    <3>5. ToSet(Tail(s)) = {s[i] : i \in 2 .. Len(s)}
      <4> DEFINE t == Tail(s)
      <4>1. /\ \A i \in DOMAIN t : \E j \in 2 .. Len(s) : t[i] = s[j]
            /\ \A j \in 2 .. Len(s) : \E i \in DOMAIN t : t[i] = s[j]
        BY <3>1, <3>3
      <4> HIDE DEF t
      <4>2. ToSet(t) = {t[i] : i \in DOMAIN t}
        BY DEF ToSet
      <4>3. {t[i] : i \in DOMAIN t} = {s[i] : i \in 2 .. Len(s)}
        BY <4>1
      <4> QED BY <4>2, <4>3 DEF t
    <3>6. ToSet(s) = {s[1]} \cup {s[i] : i \in 2 .. Len(s)}
      BY <2>1, <3>4 DEF ToSet
    <3> QED BY <2>1, <3>2, <3>5, <3>6
  <2>4. Head(s) \in ToSet(s)
    BY <2>1 DEF ToSet
  <2> QED BY <2>1, <2>2, <2>3, <2>4
<1> QED BY <1>1, <1>2

(* Reverse.                                                                *)
LEMMA Reversal ==
  ASSUME NEW S, NEW s \in Seq(S)
  PROVE  /\ Reverse(s) \in Seq(S)
         /\ ToSet(Reverse(s)) = ToSet(s)
         /\ IsInjective(s) => IsInjective(Reverse(s))
<1>1. /\ DOMAIN s = 1 .. Len(s) /\ DOMAIN Reverse(s) = 1 .. Len(s)
      /\ Len(s) \in Nat
      /\ \A i \in 1 .. Len(s) : /\ Reverse(s)[i] = s[Len(s) - i + 1]
                                /\ Len(s) - i + 1 \in 1 .. Len(s)
                                /\ Reverse(s)[Len(s) - i + 1] = s[i]
  BY DEF Reverse
<1>2. Reverse(s) \in Seq(S)
  BY DEF Reverse
<1>3. ToSet(Reverse(s)) = ToSet(s)
  BY <1>1 DEF ToSet
<1>4. IsInjective(s) => IsInjective(Reverse(s))
  BY <1>1 DEF IsInjective
<1> QED BY <1>2, <1>3, <1>4

(* RemoveAt.                                                               *)
LEMMA Removal ==
  ASSUME NEW S, NEW s \in Seq(S), NEW k \in 1 .. Len(s)
  PROVE  /\ RemoveAt(s, k) \in Seq(S)
         /\ IsInjective(s) => /\ ToSet(RemoveAt(s, k)) = ToSet(s) \ {s[k]}
                              /\ IsInjective(RemoveAt(s, k))
<1> DEFINE front == SubSeq(s, 1, k - 1)
           back  == SubSeq(s, k + 1, Len(s))
<1>1. /\ front \in Seq(S) /\ DOMAIN front = 1 .. k - 1
      /\ \A i \in 1 .. k - 1 : front[i] = s[i]
  OBVIOUS
<1>2. /\ back \in Seq(S) /\ DOMAIN back = 1 .. Len(s) - k
      /\ \A i \in 1 .. Len(s) - k : back[i] = s[k + i]
  OBVIOUS
<1>3. RemoveAt(s, k) = front \o back
  BY DEF RemoveAt
<1>4. DOMAIN s = 1 .. Len(s) /\ Len(s) \in Nat
  OBVIOUS
<1> HIDE DEF front, back
<1>5. RemoveAt(s, k) \in Seq(S)
  BY <1>1, <1>2, <1>3, Concatenation
<1>6. ASSUME IsInjective(s)
      PROVE  /\ ToSet(RemoveAt(s, k)) = ToSet(s) \ {s[k]}
             /\ IsInjective(RemoveAt(s, k))
  <2>0. /\ \A i \in DOMAIN front : i \in DOMAIN s /\ i < k
        /\ \A i \in DOMAIN back : k + i \in DOMAIN s /\ i > 0
    BY <1>1, <1>2, <1>4
  <2>1. IsInjective(front) /\ IsInjective(back)
    <3>1. IsInjective(front)
      BY <1>1, <1>6, <2>0 DEF IsInjective
    <3>2. ASSUME NEW i \in DOMAIN back, NEW j \in DOMAIN back, back[i] = back[j]
          PROVE  i = j
      <4>1. s[k + i] = s[k + j]
        BY <1>2, <3>2
      <4>2. k + i = k + j
        BY <4>1, <1>6, <2>0 DEF IsInjective
      <4> QED BY <4>2, <1>2
    <3> QED BY <3>1, <3>2 DEF IsInjective
  <2>2. ASSUME NEW i \in DOMAIN front, NEW j \in DOMAIN back
        PROVE  front[i] # back[j]
    <3>1. front[i] = s[i] /\ back[j] = s[k + j]
      BY <1>1, <1>2
    <3>2. i # k + j
      BY <1>1, <1>2
    <3> QED BY <3>1, <3>2, <1>6, <2>0 DEF IsInjective
  <2>3. \A i \in 1 .. k - 1 : s[i] \in ToSet(front) /\ s[i] # s[k]
    BY <1>1, <1>4, <1>6 DEF IsInjective, ToSet
  <2>4. \A i \in k + 1 .. Len(s) : s[i] \in ToSet(back) /\ s[i] # s[k]
    <3> SUFFICES ASSUME NEW i \in k + 1 .. Len(s)
                 PROVE  s[i] \in ToSet(back) /\ s[i] # s[k]
      OBVIOUS
    <3>1. i - k \in DOMAIN back /\ back[i - k] = s[i]
      BY <1>2
    <3> QED BY <3>1, <1>4, <1>6 DEF IsInjective, ToSet
  <2>5. ToSet(front) \cup ToSet(back) \subseteq ToSet(s) \ {s[k]}
    <3>1. \A i \in DOMAIN front : front[i] \in ToSet(s) \ {s[k]}
      BY <1>1, <1>4, <2>3 DEF ToSet
    <3>2. \A i \in DOMAIN back : back[i] \in ToSet(s) \ {s[k]}
      <4>1. \A i \in DOMAIN back : /\ k + i \in k + 1 .. Len(s)
                                  /\ k + i \in DOMAIN s
        BY <1>2, <1>4
      <4> QED BY <1>2, <2>4, <4>1 DEF ToSet
    <3> QED BY <3>1, <3>2 DEF ToSet
  <2>6. ToSet(s) \ {s[k]} \subseteq ToSet(front) \cup ToSet(back)
    <3>1. \A i \in DOMAIN s : i \in 1 .. k - 1 \/ i = k \/ i \in k + 1 .. Len(s)
      BY <1>4
    <3> QED BY <2>3, <2>4, <3>1 DEF ToSet
  <2>7. ToSet(front) \cap ToSet(back) = {}
    BY <2>2 DEF ToSet
  <2> QED BY <1>1, <1>2, <1>3, <2>1, <2>5, <2>6, <2>7, Concatenation
<1> QED BY <1>5, <1>6

-----------------------------------------------------------------------------
(* The three lists                                                         *)

(* Only these steps touch the lists or settle a request.                   *)
LEMMA QueueSteps ==
  ASSUME Next
  PROVE  \/ UNCHANGED <<queueVars, outcome>>
         \/ Publishing \/ Abort \/ Reconnect \/ CallSuccessCallback
         \/ StartRetry \/ StartStream \/ UpdatePhaseWaitShutdown
<1> USE DEF Crash, OnlyMoves, netVars, appVars, listVars, queueVars, requestVars
<1>1. CASE Calling
  BY <1>1 DEF Calling, Retry, AbortWithoutConnection, AbortIgnored,
     ReconnectWithoutConnection
<1>2. CASE IssueCallbacks
  BY <1>2 DEF IssueCallbacks
<1>3. CASE Callbacks
  BY <1>3 DEF Callbacks, CallErrorCallback, RetryStreamAtOnce, SkipStream,
     CallbacksDone
<1>4. CASE Sending
  BY <1>4 DEF Sending, Send, SendToFails, QuicheSendFails
<1>5. CASE Receiving
  BY <1>5 DEF Receiving, Receive, ReceiveEstablished, ReceiveClose,
     RecvFromFails, RecvFromFailsWithoutConnection, QuicheRecvFails
<1>6. CASE Connecting
  BY <1>6 DEF Connecting, UpdatePhaseCreateSocket, UpdatePhaseInitialize,
     InitializeWithoutAddress, StartEarlyData, SkipEarlyData, AwaitEstablished,
     FinishHandshake
<1>7. CASE Waiting
  BY <1>7 DEF Waiting, AwaitRetry, StartPolling
<1>8. CASE Polling
  BY <1>8 DEF Polling, PollFinished, PollResponse, PollInvalidStream, PollReset,
     PollGoAway, PollDone
<1>9. CASE Starting
  BY <1>9 DEF Starting, StartStreamFails, StartDone
<1>10. CASE ShuttingDown
  BY <1>10 DEF ShuttingDown, UpdatePhaseStartShutdown
<1>11. CASE Migrating
  BY <1>11 DEF Migrating, AwaitResolution, Migrate, MigrateRefused,
     MigrateWithoutAddress
<1>12. CASE Checking
  BY <1>12 DEF Checking, CheckConnectionClosed, CheckConnectionTimeout, CheckDone
<1>13. CASE Crashed
  BY <1>13 DEF Crashed, vars
<1> QED
  BY <1>1, <1>2, <1>3, <1>4, <1>5, <1>6, <1>7, <1>8, <1>9, <1>10, <1>11,
     <1>12, <1>13 DEF Next

(* The lists repeat nothing, share nothing, and hold what is pending.      *)
Partition(a, b, c, set) ==
  /\ IsInjective(a) /\ IsInjective(b) /\ IsInjective(c)
  /\ ToSet(a) \cap ToSet(b) = {} /\ ToSet(a) \cap ToSet(c) = {}
  /\ ToSet(b) \cap ToSet(c) = {}
  /\ ToSet(a) \cup ToSet(b) \cup ToSet(c) = set

(* That is what RequestInOneList says of the three lists of Held.          *)
LEMMA HeldPartition ==
  ASSUME NEW a \in Seq(Requests), NEW b \in Seq(Requests),
         NEW c \in Seq(Requests), NEW set
  PROVE  /\ ToSet(a \o b \o c) = ToSet(a) \cup ToSet(b) \cup ToSet(c)
         /\ IsInjective(a \o b \o c) /\ ToSet(a \o b \o c) = set
              <=> Partition(a, b, c, set)
<1>1. /\ a \o b \in Seq(Requests)
      /\ ToSet(a \o b) = ToSet(a) \cup ToSet(b)
      /\ IsInjective(a \o b) <=>
           IsInjective(a) /\ IsInjective(b) /\ ToSet(a) \cap ToSet(b) = {}
  BY Concatenation
<1> DEFINE both == a \o b
<1> HIDE DEF both
<1>2. /\ ToSet(both \o c) = ToSet(both) \cup ToSet(c)
      /\ IsInjective(both \o c) <=>
           IsInjective(both) /\ IsInjective(c) /\ ToSet(both) \cap ToSet(c) = {}
  BY <1>1, Concatenation DEF both
<1> QED BY <1>1, <1>2 DEF Partition, both

(* The lists stay sequences of requests.                                   *)
LEMMA QueuesStep ==
  ASSUME TypeOK, Next
  PROVE  QueuesOK'
<1>0. /\ stock \in Seq(Requests) /\ streams \in Seq(Requests)
      /\ errorStock \in Seq(Requests) /\ cursor \in Nat \ {0}
  BY DEF TypeOK, QueuesOK, ControlOK
<1>1. CASE UNCHANGED <<queueVars, outcome>>
  BY <1>0, <1>1 DEF queueVars, QueuesOK
<1>2. CASE Publishing
  BY <1>0, <1>2 DEF Publishing, PublishRequest, QueuesOK
<1>3. CASE Abort
  BY <1>3 DEF Abort, QueuesOK
<1>4. CASE Reconnect
  <2>1. stock \o streams \in Seq(Requests) /\ <<>> \in Seq(Requests)
    BY <1>0
  <2>2. CASE UNCHANGED queueVars
    BY <1>0, <2>2 DEF queueVars, QueuesOK
  <2>3. CASE stock' = stock \o streams /\ streams' = <<>> /\ UNCHANGED errorStock
    BY <1>0, <2>1, <2>3 DEF QueuesOK
  <2> QED BY <1>4, <2>2, <2>3 DEF Reconnect, ReconnectFromScratch, listVars
<1>5. CASE CallSuccessCallback
  <2>1. cursor \in 1 .. Len(streams)
    BY <1>0, <1>5 DEF CallSuccessCallback, InCallbacks
  <2>2. RemoveAt(streams, cursor) \in Seq(Requests)
    BY <1>0, <2>1, Removal
  <2> QED BY <1>0, <1>5, <2>2 DEF CallSuccessCallback, QueuesOK
<1>6. CASE StartRetry
  BY <1>0, <1>6 DEF StartRetry, QueuesOK
<1>7. CASE StartStream
  <2>1. Head(stock) \in Requests /\ Tail(stock) \in Seq(Requests)
    BY <1>0, <1>7 DEF StartStream, CanStart
  <2> QED BY <1>0, <1>7, <2>1 DEF StartStream, QueuesOK
<1>8. CASE UpdatePhaseWaitShutdown
  <2>1. Parked \in Seq(Requests)
    BY <1>0, Reversal DEF Parked
  <2>2. CASE UNCHANGED queueVars
    BY <1>0, <2>2 DEF queueVars, QueuesOK
  <2>3. CASE ParkRequests
    BY <1>0, <2>1, <2>3 DEF ParkRequests, QueuesOK
  <2> QED
    BY <1>8, <2>2, <2>3 DEF UpdatePhaseWaitShutdown, FinishAbort, Crash, appVars,
       listVars
<1> QED
  BY <1>1, <1>2, <1>3, <1>4, <1>5, <1>6, <1>7, <1>8, QueueSteps

(* No step loses, repeats or invents a request.                            *)
LEMMA ListsStep ==
  ASSUME TypeOK, RequestInOneList, Next
  PROVE  RequestInOneList'
<1>0. /\ stock \in Seq(Requests) /\ streams \in Seq(Requests)
      /\ errorStock \in Seq(Requests) /\ cursor \in Nat \ {0}
      /\ outcome \in [Requests -> {"new", "pending", "delivered", "aborted"}]
  BY DEF TypeOK, QueuesOK, ControlOK, StreamsOK
<1>p. Partition(stock, streams, errorStock, Pending)
  BY <1>0, HeldPartition DEF RequestInOneList, Held
<1>q. /\ stock' \in Seq(Requests) /\ streams' \in Seq(Requests)
      /\ errorStock' \in Seq(Requests)
  BY QueuesStep DEF QueuesOK
<1> SUFFICES Partition(stock', streams', errorStock', Pending')
  BY <1>q, HeldPartition DEF RequestInOneList, Held
<1>e. ToSet(<<>>) = {} /\ IsInjective(<<>>)
  BY DEF ToSet, IsInjective
<1>1. CASE UNCHANGED <<queueVars, outcome>>
  BY <1>p, <1>1 DEF queueVars, Pending
<1>2. CASE Publishing
  <2> PICK r \in Requests : PublishRequest(r)
    BY <1>2 DEF Publishing
  <2>1. r \notin Pending /\ Pending' = Pending \cup {r}
    BY <1>0 DEF PublishRequest, Pending
  <2>2. /\ ToSet(stock') = ToSet(stock) \cup {r}
        /\ r \notin ToSet(stock) => IsInjective(stock')
    BY <1>0, <1>p, AppendTail DEF PublishRequest, Partition
  <2> QED BY <1>p, <2>1, <2>2 DEF PublishRequest, Partition
<1>3. CASE Abort
  <2>1. Pending' = {}
    BY <1>0, <1>3 DEF Abort, Pending
  <2> QED BY <1>3, <1>e, <2>1 DEF Abort, Partition
<1>4. CASE Reconnect
  <2>1. Pending' = Pending
    BY <1>4 DEF Reconnect, requestVars, Pending
  <2>2. CASE UNCHANGED queueVars
    BY <1>p, <2>1, <2>2 DEF queueVars
  <2>3. CASE stock' = stock \o streams /\ streams' = <<>> /\ UNCHANGED errorStock
    <3>1. /\ ToSet(stock') = ToSet(stock) \cup ToSet(streams)
          /\ IsInjective(stock')
      BY <1>0, <1>p, <2>3, Concatenation DEF Partition
    <3> QED BY <1>p, <1>e, <2>1, <2>3, <3>1 DEF Partition
  <2> QED BY <1>4, <2>2, <2>3 DEF Reconnect, ReconnectFromScratch, listVars
<1>5. CASE CallSuccessCallback
  <2> DEFINE r == streams[cursor]
  <2>1. cursor \in 1 .. Len(streams)
    BY <1>0, <1>5 DEF CallSuccessCallback, InCallbacks
  <2>2. r \in ToSet(streams) /\ r \in Requests
    BY <1>0, <2>1 DEF ToSet
  <2>3. Pending' = Pending \ {r}
    BY <1>0, <1>5, <2>2 DEF CallSuccessCallback, Pending
  <2>4. ToSet(streams') = ToSet(streams) \ {r} /\ IsInjective(streams')
    BY <1>0, <1>p, <1>5, <2>1, Removal DEF CallSuccessCallback, Partition
  <2> HIDE DEF r
  <2> QED BY <1>p, <1>5, <2>2, <2>3, <2>4 DEF CallSuccessCallback, Partition
<1>6. CASE StartRetry
  <2>1. Pending' = Pending
    BY <1>6 DEF StartRetry, requestVars, Pending
  <2>2. ToSet(stock') = ToSet(stock) \cup ToSet(errorStock) /\ IsInjective(stock')
    BY <1>0, <1>p, <1>6, Concatenation DEF StartRetry, Partition
  <2> QED BY <1>p, <1>e, <1>6, <2>1, <2>2 DEF StartRetry, Partition
<1>7. CASE StartStream
  <2> DEFINE r == Head(stock)
  <2>1. Pending' = Pending /\ stock # <<>>
    BY <1>7 DEF StartStream, CanStart, Pending
  <2>2. /\ r \in ToSet(stock) /\ r \in Requests
        /\ ToSet(stock') = ToSet(stock) \ {r} /\ IsInjective(stock')
    BY <1>0, <1>p, <1>7, <2>1, AppendTail DEF StartStream, Partition
  <2>3. ToSet(streams') = ToSet(streams) \cup {r} /\ IsInjective(streams')
    BY <1>0, <1>p, <1>7, <2>2, AppendTail DEF StartStream, Partition
  <2> HIDE DEF r
  <2> QED BY <1>p, <1>7, <2>1, <2>2, <2>3 DEF StartStream, Partition
<1>8. CASE UpdatePhaseWaitShutdown
  <2>1. Pending' = Pending
    BY <1>8 DEF UpdatePhaseWaitShutdown, Crash, appVars, requestVars, Pending
  <2>2. CASE UNCHANGED queueVars
    BY <1>p, <2>1, <2>2 DEF queueVars
  <2>3. CASE ParkRequests
    <3>1. /\ ToSet(Parked) = ToSet(streams) \cup ToSet(stock)
          /\ IsInjective(Parked)
      BY <1>0, <1>p, Reversal, Concatenation DEF Parked, Partition
    <3> QED BY <1>p, <1>e, <2>1, <2>3, <3>1 DEF ParkRequests, Partition
  <2> QED
    BY <1>8, <2>2, <2>3 DEF UpdatePhaseWaitShutdown, FinishAbort, Crash, appVars,
       listVars
<1> QED
  BY <1>1, <1>2, <1>3, <1>4, <1>5, <1>6, <1>7, <1>8, QueueSteps

-----------------------------------------------------------------------------
(* Theorems                                                                *)

(* The invariant of the proofs: the type invariant is what tells that the  *)
(* lists are sequences and that a callback's cursor is in its list.        *)
ListsInv == TypeOK /\ RequestInOneList

LEMMA InitialLists == Init => ListsInv
<1> SUFFICES ASSUME Init PROVE ListsInv
  OBVIOUS
<1> USE DEF Init
<1>1. ControlOK
  BY ConnectionAssumption DEF ControlOK, QwfsStatus, NormalStatus, Phases, Points
<1>2. HandlesOK
  BY DEF HandlesOK, ConnStates, Handles
<1>5. QueuesOK
  BY DEF QueuesOK
<1>3. ClearedStream \in Streams
  BY ConnectionAssumption DEF ClearedStream, Streams, QwfsStatus, NormalStatus,
     StreamIds, Handles, Bodies
<1>4. StreamsOK
  BY <1>3, ConnectionAssumption DEF StreamsOK, NothingAsked
<1>6. Pending = {}
  BY DEF Pending
<1>7. RequestInOneList
  <2>1. Held = <<>>
    BY DEF Held
  <2> QED BY <1>6, <2>1 DEF RequestInOneList, ToSet, IsInjective
<1> QED BY <1>1, <1>2, <1>4, <1>5, <1>7 DEF ListsInv, TypeOK

LEMMA ListsInvStep == ListsInv /\ [Next]_vars => ListsInv'
<1> SUFFICES ASSUME ListsInv, [Next]_vars PROVE ListsInv'
  OBVIOUS
<1>1. CASE Next
  BY <1>1, ControlStep, HandlesStep, QueuesStep, StreamsStep, ListsStep
     DEF ListsInv, TypeOK
<1>2. CASE UNCHANGED vars
  BY <1>2 DEF ListsInv, TypeOK, ControlOK, HandlesOK, QueuesOK, StreamsOK,
     RequestInOneList, Held, Pending, vars, netVars, stateVars, socketVars,
     quicVars, setupVars, appVars, flagVars, listVars, queueVars, requestVars,
     quietVars, budgetVars
<1> QED BY <1>1, <1>2

(* Status, phase, handles, lists, map and history of a connection stay in  *)
(* their ranges, whatever calls and failures come in whatever order.       *)
THEOREM TypeCorrect == Spec => []TypeOK
<1>1. ListsInv => TypeOK
  BY DEF ListsInv
<1> QED BY <1>1, InitialLists, ListsInvStep, PTL DEF Spec

(* A published request is in exactly one of the connection's three lists   *)
(* until it is delivered or discarded: no queue of any length, limit on    *)
(* streams, order of calls or number of failures loses or doubles it.      *)
THEOREM RequestsKept == Spec => []RequestInOneList
<1>1. ListsInv => RequestInOneList
  BY DEF ListsInv
<1> QED BY <1>1, InitialLists, ListsInvStep, PTL DEF Spec

(* The settled requests; with Pending they are all of the contract's state. *)
Delivered == {r \in Requests : outcome[r] = "delivered"}
Aborted   == {r \in Requests : outcome[r] = "aborted"}

(* A step of the connection is a step of the contract or leaves it alone.  *)
LEMMA ContractStep ==
  ASSUME ListsInv, ListsInv', [Next]_vars
  PROVE  [Contract!Next]_(Contract!contract)
<1>0. /\ ToSet(Held) = Pending /\ ToSet(Held)' = Pending'
      /\ outcome \in [Requests -> {"new", "pending", "delivered", "aborted"}]
      /\ streams \in Seq(Requests) /\ cursor \in Nat \ {0}
  BY DEF ListsInv, RequestInOneList, TypeOK, StreamsOK, QueuesOK, ControlOK
<1>s. ASSUME UNCHANGED outcome
      PROVE  UNCHANGED Contract!contract
  BY <1>s, <1>0 DEF Contract!contract, Pending
<1>1. CASE Publishing
  <2> PICK r \in Requests : PublishRequest(r)
    BY <1>1 DEF Publishing
  <2>1. /\ r \notin Pending \cup Delivered \cup Aborted
        /\ Pending' = Pending \cup {r} /\ Delivered' = Delivered
        /\ Aborted' = Aborted
    BY <1>0 DEF PublishRequest, Pending, Delivered, Aborted
  <2>2. Contract!Publish(r)
    BY <1>0, <2>1 DEF Contract!Publish, Contract!Known, Delivered, Aborted
  <2> QED BY <2>2 DEF Contract!Next
<1>2. CASE Abort
  <2>1. Pending' = {} /\ Delivered' = Delivered /\ Aborted' = Aborted \cup Pending
    BY <1>0, <1>2 DEF Abort, Pending, Delivered, Aborted
  <2>2. Contract!DiscardAll
    BY <1>0, <2>1 DEF Contract!DiscardAll, Delivered, Aborted
  <2> QED BY <2>2 DEF Contract!Next
<1>3. CASE CallSuccessCallback
  <2>1. streams[cursor] \in Requests /\ streams[cursor] \in ToSet(streams)
    BY <1>0, <1>3 DEF CallSuccessCallback, InCallbacks, ToSet
  <2> PICK r \in Requests : r = streams[cursor]
    BY <2>1
  <2>2. r \in Pending
    <3>1. ToSet(Held) = ToSet(stock) \cup ToSet(streams) \cup ToSet(errorStock)
      <4>1. /\ stock \in Seq(Requests) /\ streams \in Seq(Requests)
            /\ errorStock \in Seq(Requests)
        BY DEF ListsInv, TypeOK, QueuesOK
      <4> QED BY <4>1, HeldPartition DEF Held
    <3> QED BY <1>0, <2>1, <3>1
  <2>3. /\ Pending' = Pending \ {r} /\ Delivered' = Delivered \cup {r}
        /\ Aborted' = Aborted
    BY <1>0, <1>3, <2>1, <2>2 DEF CallSuccessCallback, Pending, Delivered, Aborted
  <2>4. Contract!Deliver(r)
    BY <1>0, <2>2, <2>3 DEF Contract!Deliver, Delivered, Aborted
  <2> QED BY <2>4 DEF Contract!Next
<1>4. CASE Reconnect \/ StartRetry \/ StartStream \/ UpdatePhaseWaitShutdown
  BY <1>s, <1>4 DEF Reconnect, StartRetry, StartStream, UpdatePhaseWaitShutdown,
     Crash, appVars, requestVars
<1>5. CASE UNCHANGED vars
  BY <1>s, <1>5 DEF vars, appVars, requestVars
<1> QED
  BY <1>s, <1>1, <1>2, <1>3, <1>4, <1>5, QueueSteps

(* The connection keeps the contract with its application: a request is    *)
(* delivered once or discarded by Abort, and nothing else ends it.         *)
THEOREM ConnectionImplementsContract == Spec => ImplementsContract
<1>1. Init => Contract!Init
  <2> SUFFICES ASSUME Init PROVE Contract!Init
    OBVIOUS
  <2>1. Held = <<>> /\ outcome = [r \in Requests |-> "new"]
    BY DEF Init, Held
  <2> QED BY <2>1 DEF Contract!Init, ToSet
<1> QED
  BY <1>1, InitialLists, ListsInvStep, ContractStep, PTL
     DEF Spec, ImplementsContract, Contract!Spec

-----------------------------------------------------------------------------
(* Errors                                                                  *)

(* The polling and, outside the handshake, the starting of requests are    *)
(* reached without an error only; they may set the status Wait.            *)
NoErrorToForget ==
  /\ at = "poll" => ~IsError(status)
  /\ at = "start" => phase = "Handshake" \/ ~IsError(status)

ErrorStays ==
  IsError(status) /\ ~IsError(status') =>
    \/ callRetry \/ callAbort
    \/ phase = "CreateSocket"
    \/ "ConnectionMigration" \in {phase, phase'}

LEMMA ErrorsStayStep ==
  ASSUME TypeOK, NoErrorToForget, [Next]_vars
  PROVE  NoErrorToForget' /\ ErrorStays
<1> DEFINE Fine == NoErrorToForget' /\ ErrorStays
<1> USE DEF NoErrorToForget, ErrorStays, IsError, Running
<1>e. /\ {"ErrorSocket", "ErrorResolveHost", "CriticalErrorQuiche", "ErrorFileIO",
           "ErrorTimeout", "ErrorConnectionMigration", "ErrorConnectionClose"}
             \subseteq ErrorStatus
      /\ CriticalStatus \subseteq ErrorStatus
      /\ {"Wait", "Connecting", "Aborting"} \cap ErrorStatus = {}
  BY DEF ErrorStatus, CriticalStatus, OrdinaryErrorStatus
<1>q. ASSUME NEW error
      PROVE  \/ ConvertQuicheErrorToStatus(error, status) = status
             \/ ConvertQuicheErrorToStatus(error, status) \in ErrorStatus
  BY DEF ConvertQuicheErrorToStatus, ErrorStatus, CriticalStatus, OrdinaryErrorStatus
<1>x. ASSUME UNCHANGED <<status, phase, at>>
      PROVE  Fine
  BY <1>x
<1>s. ASSUME UNCHANGED status, at' \notin {"poll", "start"}
      PROVE  Fine
  BY <1>s
<1>c. ASSUME NEW site, Crash(site)
      PROVE  Fine
  BY <1>c, <1>x DEF Crash, netVars, stateVars
<1>b. ASSUME NEW spare, NEW s, NEW p, BreakOff(spare, s, p),
             s = status \/ s \in ErrorStatus
      PROVE  Fine
  BY <1>b DEF BreakOff, TransitionConnectionMigration, SetStatus
<1>1. CASE Publishing
  BY <1>1, <1>e DEF Publishing, PublishRequest
<1>2. CASE Calling
  <2>1. CASE Retry \/ AbortIgnored
    BY <2>1, <1>x DEF Retry, AbortIgnored, Call, netVars, stateVars
  <2>2. CASE Abort
    BY <2>2, <1>e DEF Abort, Call, AbortPasses, ErrorStatus, CriticalStatus,
       OrdinaryErrorStatus
  <2>3. CASE AbortWithoutConnection \/ ReconnectWithoutConnection
    BY <2>3, <1>c DEF AbortWithoutConnection, ReconnectWithoutConnection
  <2>4. CASE Reconnect
    BY <2>4 DEF Reconnect, Call, TransitionConnectionMigration,
       ReconnectFromScratch, SetStatus
  <2> QED BY <1>2, <2>1, <2>2, <2>3, <2>4 DEF Calling
<1>3. CASE IssueCallbacks
  BY <1>3, <1>s DEF IssueCallbacks, netVars, stateVars
<1>4. CASE Callbacks
  <2>1. CASE CallSuccessCallback \/ SkipStream \/ CallbacksDone
    BY <2>1, <1>s DEF CallSuccessCallback, SkipStream, CallbacksDone, InCallbacks,
       netVars, stateVars
  <2>2. CASE CallErrorCallback
    BY <2>2, <1>e DEF CallErrorCallback, InCallbacks, SetStatus
  <2>3. CASE RetryStreamAtOnce
    BY <2>3, <1>c DEF RetryStreamAtOnce
  <2> QED BY <1>4, <2>1, <2>2, <2>3 DEF Callbacks
<1>5. CASE Sending
  <2>1. CASE Send
    BY <2>1, <1>s DEF Send, OnlyMoves, netVars, stateVars
  <2>2. CASE SendToFails
    BY <2>2, <1>b, <1>e DEF SendToFails
  <2>3. CASE QuicheSendFails
    BY <2>3, <1>b, <1>q DEF QuicheSendFails, SetStatus
  <2> QED BY <1>5, <2>1, <2>2, <2>3 DEF Sending
<1>6. CASE Receiving
  <2>1. CASE Receive \/ ReceiveEstablished \/ ReceiveClose
    BY <2>1, <1>s DEF Receive, ReceiveEstablished, ReceiveClose, OnlyMoves,
       netVars, stateVars
  <2>2. CASE RecvFromFails
    BY <2>2, <1>b, <1>e DEF RecvFromFails
  <2>3. CASE RecvFromFailsWithoutConnection
    BY <2>3, <1>c DEF RecvFromFailsWithoutConnection
  <2>4. CASE QuicheRecvFails
    BY <2>4, <1>b, <1>q DEF QuicheRecvFails, SetStatus
  <2> QED BY <1>6, <2>1, <2>2, <2>3, <2>4 DEF Receiving
<1>7. CASE Connecting
  <2>1. CASE UpdatePhaseCreateSocket
    BY <2>1 DEF UpdatePhaseCreateSocket, InPhase
  <2>2. CASE UpdatePhaseInitialize
    BY <2>2, <1>e DEF UpdatePhaseInitialize, SetStatus
  <2>3. CASE InitializeWithoutAddress
    BY <2>3, <1>c DEF InitializeWithoutAddress
  <2>4. CASE StartEarlyData
    BY <2>4 DEF StartEarlyData, InPhase, stateVars
  <2>5. CASE SkipEarlyData \/ AwaitEstablished
    BY <2>5, <1>s DEF SkipEarlyData, AwaitEstablished, OnlyMoves, netVars, stateVars
  <2>6. CASE FinishHandshake
    BY <2>6, <1>e DEF FinishHandshake, SetStatus
  <2> QED BY <1>7, <2>1, <2>2, <2>3, <2>4, <2>5, <2>6 DEF Connecting
<1>8. CASE Waiting
  <2>1. CASE StartRetry
    BY <2>1 DEF StartRetry, SetStatus
  <2>2. CASE AwaitRetry
    BY <2>2, <1>s DEF AwaitRetry, OnlyMoves, netVars, stateVars
  <2>3. CASE StartPolling
    BY <2>3, <1>c DEF StartPolling, OnlyMoves, netVars, stateVars
  <2> QED BY <1>8, <2>1, <2>2, <2>3 DEF Waiting
<1>9. CASE Polling
  <2>1. CASE PollDone
    BY <2>1 DEF PollDone, OnlyMoves, netVars, stateVars
  <2>2. CASE \E id \in StreamIds : PollFinished(id) \/ PollResponse(id)
    BY <2>2 DEF PollFinished, PollResponse, Event, DropEvent, netVars, stateVars
  <2>3. CASE \E id \in StreamIds : PollInvalidStream(id)
    BY <2>3, <1>c DEF PollInvalidStream
  <2>4. CASE \E id \in StreamIds : PollReset(id) \/ PollGoAway(id)
    BY <2>4 DEF PollReset, PollGoAway, Event, DropEvent, netVars, stateVars
  <2> QED BY <1>9, <2>1, <2>2, <2>3, <2>4 DEF Polling
<1>10. CASE Starting
  <2>l. ASSUME at = "start", LeaveLoop
        PROVE  Fine
    BY <2>l DEF LeaveLoop
  <2>1. CASE StartStream
    BY <2>1, <1>e DEF StartStream, CanStart
  <2>2. CASE StartStreamFails
    BY <2>2, <2>l, <1>e DEF StartStreamFails, FailToStart, CanStart, SetStatus
  <2>3. CASE StartDone
    BY <2>3, <2>l DEF StartDone
  <2> QED BY <1>10, <2>1, <2>2, <2>3 DEF Starting
<1>11. CASE ShuttingDown
  <2>1. CASE UpdatePhaseStartShutdown
    BY <2>1 DEF UpdatePhaseStartShutdown, SetStatus
  <2>2. CASE UpdatePhaseWaitShutdown
    BY <2>2, <1>c DEF UpdatePhaseWaitShutdown, FinishAbort, ParkRequests, SetStatus,
       stateVars
  <2> QED BY <1>11, <2>1, <2>2 DEF ShuttingDown
<1>12. CASE Migrating
  <2>1. CASE AwaitResolution \/ Migrate \/ MigrateRefused
    BY <2>1 DEF AwaitResolution, Migrate, MigrateRefused, InPhase
  <2>2. CASE MigrateWithoutAddress
    BY <2>2, <1>c DEF MigrateWithoutAddress
  <2> QED BY <1>12, <2>1, <2>2 DEF Migrating
<1>13. CASE Checking
  BY <1>13, <1>e, <1>s DEF Checking, CheckConnectionClosed, CheckConnectionTimeout,
     CheckDone, SetStatus, OnlyMoves, netVars, stateVars
<1>14. CASE Crashed \/ UNCHANGED vars
  BY <1>14, <1>x DEF Crashed, vars, netVars, stateVars
<1> QED
  BY <1>1, <1>2, <1>3, <1>4, <1>5, <1>6, <1>7, <1>8, <1>9, <1>10, <1>11, <1>12,
     <1>13, <1>14 DEF Next

(* No error is forgotten: whatever fails, in whatever order Send, Receive, *)
(* the phases and the checks set status and phase, an error goes away only *)
(* with Retry, Abort, a new attempt to make the socket or a migration.     *)
THEOREM ErrorsRemain == Spec => ErrorsStay
<1>1. Init => NoErrorToForget
  BY DEF Init, NoErrorToForget
<1> QED
  BY <1>1, TypeCorrect, ErrorsStayStep, PTL DEF Spec, ErrorsStay, ErrorStays
=============================================================================
