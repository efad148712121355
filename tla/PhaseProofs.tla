------------------------------ MODULE PhaseProofs ------------------------------
(***************************************************************************)
(* Theorems about the phases of the connection: which handles and lists    *)
(* each phase finds, and what the status Wait says. They do not hold for   *)
(* all sets of calls and failures; the hypothesis of each theorem names    *)
(* the combinations under which TLC finds it violated.                     *)
(***************************************************************************)
EXTENDS ConnectionProofs

-----------------------------------------------------------------------------
(* The phases                                                              *)

(* Nothing sends the connection elsewhere while an Abort waits for the     *)
(* close: no migration, and no Reconnect after the Abort. Abort empties    *)
(* the list of started requests, and only the path it takes leads to       *)
(* CreateSocket with that list still empty.                                *)
AbortUndisturbed ==
  "Abort" \in Calls =>
    ~ActiveMigration /\ ("Reconnect" \notin Calls \/ MaxCalls <= 1)

ShutdownPhases == {"StartShutdown", "WaitShutdown"}

(* From Abort to the end of the shutdown it asked for nothing is started,  *)
(* polled or established.                                                  *)
AbortShutsDown ==
  callAbort => /\ streams = <<>> /\ phase \in ShutdownPhases
               /\ conn \in {"closing", "closed"}
               /\ at \notin {"established", "poll", "start"}
               /\ "Abort" \in Calls /\ calls > 0

(* What each phase and each place of Update may assume of the list of      *)
(* started requests and of the HTTP/3 connection: a socket is made, and    *)
(* HTTP/3 set up, only while nothing is started.                           *)
PhaseInv ==
  /\ AbortShutsDown
  /\ ~ActiveMigration => phase # "ConnectionMigration"
  /\ phase = "CreateSocket" => streams = <<>>
  /\ h3 = "null" => streams = <<>> /\ at \notin {"poll", "start"}
  /\ at \in {"poll", "start"} => phase \in {"Handshake", "Wait", "StartShutdown"}
  /\ at = "established" => phase = "Handshake"

(* RemoveAt adds nothing.                                                  *)
LEMMA Shortened ==
  ASSUME NEW S, NEW s \in Seq(S), NEW k \in 1 .. Len(s)
  PROVE  ToSet(RemoveAt(s, k)) \subseteq ToSet(s)
<1> DEFINE front == SubSeq(s, 1, k - 1)
           back  == SubSeq(s, k + 1, Len(s))
<1>1. front \in Seq(S) /\ back \in Seq(S)
  OBVIOUS
<1>2. RemoveAt(s, k) = front \o back
  BY DEF RemoveAt
<1>3. ToSet(front) \subseteq ToSet(s) /\ ToSet(back) \subseteq ToSet(s)
  BY DEF ToSet
<1> HIDE DEF front, back
<1> QED BY <1>1, <1>2, <1>3, Concatenation

(* The initial state satisfies it.                                         *)
LEMMA InitialPhase == Init => PhaseInv
BY DEF Init, PhaseInv, AbortShutsDown

(* Every step keeps it, one case per action.                               *)
LEMMA PhaseStep ==
  ASSUME AbortUndisturbed, TypeOK, PhaseInv, [Next]_vars
  PROVE  PhaseInv'
<1> USE DEF PhaseInv, AbortShutsDown, ShutdownPhases, Running
<1>0. /\ streams \in Seq(Requests) /\ cursor \in Nat \ {0}
      /\ calls \in 0 .. MaxCalls /\ MaxCalls \in Nat
      /\ conn \in ConnStates /\ phase \in Phases
      /\ ActiveMigration \in BOOLEAN
  BY ConnectionAssumption DEF TypeOK, QueuesOK, ControlOK, HandlesOK
<1> USE <1>0
<1>a. "Abort" \in Calls =>
        ~ActiveMigration /\ ("Reconnect" \notin Calls \/ MaxCalls <= 1)
  BY DEF AbortUndisturbed
<1>x. ASSUME UNCHANGED <<callAbort, streams, phase, conn, h3, calls>>,
             at' = at \/ at' \notin {"established", "poll", "start"}
      PROVE  PhaseInv'
  BY <1>x
<1>c. ASSUME NEW site, Crash(site)
      PROVE  PhaseInv'
  BY <1>c, <1>x DEF Crash, netVars, stateVars, quicVars, setupVars, appVars, flagVars,
     listVars, queueVars
<1>b. ASSUME NEW spare, NEW s, NEW p, BreakOff(spare, s, p),
             p = phase \/ p = "StartShutdown",
             UNCHANGED <<callAbort, streams, calls, conn, h3>>
      PROVE  PhaseInv'
  BY <1>b, <1>a DEF BreakOff, IsEnabledConnectionMigration,
     TransitionConnectionMigration, SetStatus
<1>1. CASE Publishing
  BY <1>1, <1>x DEF Publishing, PublishRequest, quicVars, setupVars, flagVars, quietVars,
     budgetVars
<1>2. CASE Calling
  <2>1. CASE Retry
    BY <2>1 DEF Retry, Call, netVars, stateVars, quicVars, setupVars, listVars, queueVars
  <2>2. CASE Abort
    BY <2>2 DEF Abort, Call, SetStatus, setupVars, ConnStates
  <2>3. CASE AbortIgnored
    BY <2>3 DEF AbortIgnored, Call, netVars, stateVars, quicVars, setupVars, appVars,
     flagVars, listVars, queueVars
  <2>4. CASE Reconnect
    <3>1. ~callAbort
      BY <2>4, <1>a DEF Reconnect, Call
    <3>2. IsEnabledConnectionMigration(TRUE) => ActiveMigration
      BY DEF IsEnabledConnectionMigration
    <3> QED
      BY <2>4, <3>1, <3>2 DEF Reconnect, Call, IsEnabledConnectionMigration,
         TransitionConnectionMigration, ReconnectFromScratch, SetStatus, quicVars,
         setupVars, flagVars, listVars, queueVars
  <2> QED
    BY <1>2, <1>c, <2>1, <2>2, <2>3, <2>4 DEF Calling, AbortWithoutConnection,
       ReconnectWithoutConnection
<1>3. CASE IssueCallbacks
  BY <1>3, <1>x DEF IssueCallbacks, netVars, stateVars, quicVars, setupVars, appVars,
     flagVars, listVars, queueVars, budgetVars
<1>4. CASE Callbacks
  <2>1. CASE CallSuccessCallback
    BY <2>1 DEF CallSuccessCallback, InCallbacks, netVars, stateVars, quicVars,
       setupVars, flagVars, quietVars, budgetVars
  <2>2. CASE CallErrorCallback
    BY <2>2 DEF CallErrorCallback, InCallbacks, SetStatus, quicVars, setupVars, appVars,
       flagVars, listVars, queueVars, budgetVars
  <2>3. CASE SkipStream \/ CallbacksDone
    BY <2>3, <1>x DEF SkipStream, CallbacksDone, netVars, stateVars, quicVars, setupVars,
       appVars, flagVars, listVars, queueVars, budgetVars
  <2> QED BY <1>4, <1>c, <2>1, <2>2, <2>3 DEF Callbacks, RetryStreamAtOnce
<1>5. CASE Sending
  <2>1. CASE Send
    BY <2>1, <1>x DEF Send, OnlyMoves, netVars, stateVars, quicVars, setupVars, appVars,
       flagVars, listVars, queueVars, quietVars, budgetVars
  <2>2. CASE SendToFails
    BY <2>2, <1>b DEF SendToFails, quicVars, setupVars, appVars, flagVars, listVars,
       queueVars, stepVars
  <2>3. CASE QuicheSendFails
    BY <2>3, <1>b, <1>x DEF QuicheSendFails, SetStatus, quicVars, setupVars, appVars,
       flagVars, listVars, queueVars, stepVars
  <2> QED BY <1>5, <2>1, <2>2, <2>3 DEF Sending
<1>6. CASE Receiving
  <2>1. CASE Receive
    BY <2>1, <1>x DEF Receive, OnlyMoves, netVars, stateVars, quicVars, setupVars,
       appVars, flagVars, listVars, queueVars, quietVars, budgetVars
  <2>2. CASE ReceiveEstablished
    BY <2>2, <1>x DEF ReceiveEstablished, stateVars, appVars, flagVars, listVars,
       queueVars, quietVars, budgetVars
  <2>3. CASE ReceiveClose
    BY <2>3 DEF ReceiveClose, stateVars, setupVars, appVars, flagVars, listVars,
       queueVars, stepVars
  <2>4. CASE RecvFromFails
    BY <2>4, <1>b DEF RecvFromFails, quicVars, setupVars, appVars, flagVars, listVars,
       queueVars, stepVars
  <2>5. CASE QuicheRecvFails
    BY <2>5 DEF QuicheRecvFails, BreakOff, IsEnabledConnectionMigration,
       TransitionConnectionMigration, SetStatus, setupVars, appVars, flagVars, listVars,
       queueVars, stepVars
  <2> QED
    BY <1>6, <1>c, <2>1, <2>2, <2>3, <2>4, <2>5
       DEF Receiving, RecvFromFailsWithoutConnection
<1>7. CASE Connecting
  <2>1. CASE UpdatePhaseCreateSocket
    BY <2>1 DEF UpdatePhaseCreateSocket, InPhase, SetStatus, flagVars, listVars,
       queueVars, stepVars
  <2>2. CASE UpdatePhaseInitialize
    BY <2>2 DEF UpdatePhaseInitialize, InPhase, SetStatus, flagVars, listVars,
       queueVars, stepVars
  <2>3. CASE StartEarlyData
    BY <2>3 DEF StartEarlyData, InPhase, IsEnabledZeroRtt, stateVars, appVars, flagVars,
       listVars, queueVars, stepVars
  <2>4. CASE SkipEarlyData \/ AwaitEstablished
    BY <2>4 DEF SkipEarlyData, AwaitEstablished, InPhase, OnlyMoves, netVars, stateVars,
       quicVars, setupVars, appVars, flagVars, listVars, queueVars, quietVars, budgetVars
  <2>5. CASE FinishHandshake
    BY <2>5 DEF FinishHandshake, SetStatus, appVars, flagVars, listVars, queueVars,
       stepVars
  <2> QED
    BY <1>7, <1>c, <2>1, <2>2, <2>3, <2>4, <2>5 DEF Connecting, InitializeWithoutAddress
<1>8. CASE Waiting
  <2>1. CASE StartRetry
    BY <2>1 DEF StartRetry, InPhase, SetStatus, quicVars, setupVars, quietVars, budgetVars
  <2>2. CASE AwaitRetry
    BY <2>2, <1>x DEF AwaitRetry, OnlyMoves, netVars, stateVars, quicVars, setupVars,
       appVars, flagVars, listVars, queueVars, quietVars, budgetVars
  <2>3. CASE StartPolling
    BY <2>3, <1>c DEF StartPolling, InPhase, OnlyMoves, netVars, stateVars, quicVars,
       setupVars, appVars, flagVars, listVars, queueVars, quietVars, budgetVars
  <2> QED BY <1>8, <2>1, <2>2, <2>3 DEF Waiting
<1>9. CASE Polling
  <2> USE DEF DropEvent
  <2>1. CASE PollDone
    BY <2>1 DEF PollDone, OnlyMoves, netVars, stateVars, quicVars, setupVars, appVars,
       flagVars, listVars, queueVars, quietVars, budgetVars
  <2>2. ASSUME NEW id \in StreamIds, PollFinished(id) PROVE PhaseInv'
    BY <2>2 DEF PollFinished, Event, stateVars, setupVars, flagVars, queueVars, quietVars,
       budgetVars
  <2>3. ASSUME NEW id \in StreamIds, PollResponse(id) PROVE PhaseInv'
    BY <2>3 DEF PollResponse, Event, netVars, stateVars, quicVars, setupVars, flagVars,
       queueVars, stepVars
  <2>4. ASSUME NEW id \in StreamIds, PollReset(id) PROVE PhaseInv'
    BY <2>4 DEF PollReset, Event, setupVars, flagVars, queueVars, stepVars
  <2>5. ASSUME NEW id \in StreamIds, PollGoAway(id) PROVE PhaseInv'
    BY <2>5 DEF PollGoAway, netVars, stateVars, quicVars, setupVars, flagVars, queueVars,
       stepVars
  <2> QED BY <1>9, <1>c, <2>1, <2>2, <2>3, <2>4, <2>5 DEF Polling, PollInvalidStream
<1>10. CASE Starting
  <2>l. ASSUME LeaveLoop, at = "start",
               UNCHANGED <<callAbort, streams, conn, h3, calls>>
        PROVE  PhaseInv'
    BY <2>l DEF LeaveLoop
  <2>1. CASE StartStream
    <3>1. h3 # "null" /\ ~callAbort
      BY <2>1 DEF StartStream, CanStart
    <3>2. phase # "CreateSocket"
      BY <2>1 DEF StartStream, CanStart
    <3> QED
      BY <2>1, <3>1, <3>2 DEF StartStream, CanStart, setupVars, flagVars, quietVars, budgetVars
  <2>2. CASE StartStreamFails
    BY <2>2, <2>l DEF StartStreamFails, CanStart, FailToStart, SetStatus, quicVars,
       setupVars, flagVars, listVars, queueVars, stepVars
  <2>3. CASE StartDone
    BY <2>3, <2>l DEF StartDone, quicVars, setupVars, appVars, flagVars, listVars,
       queueVars, quietVars, budgetVars
  <2> QED BY <1>10, <2>1, <2>2, <2>3 DEF Starting
<1>11. CASE ShuttingDown
  <2>1. CASE UpdatePhaseStartShutdown
    BY <2>1 DEF UpdatePhaseStartShutdown, SetStatus, quicVars, setupVars, flagVars,
       listVars, queueVars, quietVars, budgetVars
  <2>2. CASE UpdatePhaseWaitShutdown
    BY <2>2, <1>c DEF UpdatePhaseWaitShutdown, FinishAbort, ParkRequests, SetStatus,
       stateVars, quicVars, setupVars, flagVars, listVars, queueVars, quietVars, budgetVars
  <2> QED BY <1>11, <2>1, <2>2 DEF ShuttingDown
<1>12. CASE Migrating
  <2>1. CASE AwaitResolution
    BY <2>1 DEF AwaitResolution, InPhase, MigrationTimeout, Timeout, SetStatus, setupVars,
       appVars, flagVars, listVars, queueVars, stepVars
  <2>2. CASE Migrate
    BY <2>2 DEF Migrate, InPhase, SetStatus, quicVars, setupVars, appVars, flagVars,
       listVars, queueVars, stepVars
  <2>3. CASE MigrateRefused
    BY <2>3 DEF MigrateRefused, InPhase, SetStatus, quicVars, setupVars, appVars, flagVars,
       listVars, queueVars, stepVars
  <2> QED BY <1>12, <1>c, <2>1, <2>2, <2>3 DEF Migrating, MigrateWithoutAddress
<1>13. CASE Checking
  <2>1. CASE CheckConnectionClosed
    BY <2>1 DEF CheckConnectionClosed, SetStatus, quicVars, setupVars, appVars, flagVars,
       listVars, queueVars, quietVars, budgetVars
  <2>2. CASE CheckConnectionTimeout
    BY <2>2 DEF CheckConnectionTimeout, SetStatus, stateVars, setupVars, appVars, flagVars,
       listVars, queueVars, stepVars
  <2>3. CASE CheckDone
    BY <2>3, <1>x DEF CheckDone, OnlyMoves, netVars, stateVars, quicVars, setupVars,
       appVars, flagVars, listVars, queueVars, quietVars, budgetVars
  <2> QED BY <1>13, <2>1, <2>2, <2>3 DEF Checking
<1>14. CASE Crashed \/ UNCHANGED vars
  BY <1>14, <1>x DEF Crashed, vars, netVars, stateVars, quicVars, setupVars, appVars,
     flagVars, listVars, queueVars, quietVars, budgetVars
<1> QED
  BY <1>1, <1>2, <1>3, <1>4, <1>5, <1>6, <1>7, <1>8, <1>9, <1>10, <1>11, <1>12,
     <1>13, <1>14 DEF Next

(* In every behaviour, with any number of failures, the phase agrees with  *)
(* the list of started requests and with the HTTP/3 connection, as long as *)
(* an Abort is not disturbed: UpdatePhaseCreateSocket never meets a        *)
(* started request, and polling and starting never lack the HTTP/3         *)
(* connection.                                                             *)
THEOREM PhasesFit == AbortUndisturbed => (Spec => [](ListsInv /\ PhaseInv))
<1> SUFFICES ASSUME AbortUndisturbed PROVE Spec => [](ListsInv /\ PhaseInv)
  OBVIOUS
<1>1. ListsInv /\ PhaseInv /\ [Next]_vars => (ListsInv /\ PhaseInv)'
  BY ListsInvStep, PhaseStep DEF ListsInv
<1> QED BY <1>1, InitialLists, InitialPhase, PTL DEF Spec

(* Hence a started request never loses the HTTP/3 connection it was        *)
(* started on to UpdatePhaseCreateSocket.                                  *)
THEOREM StartedKeepHttp3 == AbortUndisturbed => (Spec => []StartedHaveHttp3)
<1>1. PhaseInv => StartedHaveHttp3
  BY DEF PhaseInv, StartedHaveHttp3
<1> QED BY <1>1, PhasesFit, PTL

-----------------------------------------------------------------------------
(* Set-up leaves a connection behind                                       *)

(* Beyond that: with Retry, quiche_conn_new does not fail together with a  *)
(* second failure. TLC finds a Retry that leaves a failed set-up with      *)
(* requests still started, and a phase reached without a connection, with  *)
(* three failures.                                                         *)
PhaseScope ==
  /\ AbortUndisturbed
  /\ "newConnection" \in Failures /\ "Retry" \in Calls => MaxFailures <= 1

(* No request, of the started ones or of all, has failed for good: its     *)
(* error callback would start a shutdown.                                  *)
StartedFine == \A r \in ToSet(streams) : stream[r].status \notin CriticalStatus
AllFine     == \A r \in Requests : stream[r].status \notin CriticalStatus

(* Without a quiche connection the connection is either about to make one  *)
(* or parked in an error state, and no request is there to have the error  *)
(* callback start a shutdown that would close it.                          *)
SetupInv ==
  /\ established => conn # "null"
  /\ conn = "null" =>
       /\ \/ phase \in {"CreateSocket", "Initialize"}
          \/ phase = "Wait" /\ IsError(status)
       /\ at \notin {"established", "poll", "start"}
       /\ StartedFine
  /\ "Retry" \notin Calls => ~callRetry /\ (phase = "Initialize" => streams = <<>>)
  /\ failures = 0 => status \notin CriticalStatus /\ AllFine

(* The initial state satisfies it.                                         *)
LEMMA InitialSetup == Init => SetupInv
BY DEF Init, SetupInv, StartedFine, AllFine, ClearedStream, CriticalStatus, ToSet

(* Only these steps change a Stream.                                       *)
LEMMA StreamSteps ==
  ASSUME Next
  PROVE  \/ UNCHANGED stream
         \/ Abort \/ CallSuccessCallback \/ UpdatePhaseCreateSocket
         \/ UpdatePhaseInitialize \/ StartStream \/ StartStreamFails
         \/ UpdatePhaseStartShutdown
         \/ \E id \in StreamIds : PollFinished(id) \/ PollResponse(id)
<1> USE DEF Crash, OnlyMoves, netVars, appVars, requestVars
<1>1. CASE Publishing
  BY <1>1 DEF Publishing, PublishRequest
<1>2. CASE Calling
  BY <1>2 DEF Calling, Retry, AbortWithoutConnection, AbortIgnored, Reconnect,
     ReconnectWithoutConnection
<1>3. CASE IssueCallbacks
  BY <1>3 DEF IssueCallbacks
<1>4. CASE Callbacks
  BY <1>4 DEF Callbacks, CallErrorCallback, RetryStreamAtOnce, SkipStream,
     CallbacksDone
<1>5. CASE Sending
  BY <1>5 DEF Sending, Send, SendToFails, QuicheSendFails
<1>6. CASE Receiving
  BY <1>6 DEF Receiving, Receive, ReceiveEstablished, ReceiveClose,
     RecvFromFails, RecvFromFailsWithoutConnection, QuicheRecvFails
<1>7. CASE Connecting
  BY <1>7 DEF Connecting, InitializeWithoutAddress, StartEarlyData, SkipEarlyData,
     AwaitEstablished, FinishHandshake
<1>8. CASE Waiting
  BY <1>8 DEF Waiting, StartRetry, AwaitRetry, StartPolling
<1>9. CASE Polling
  BY <1>9 DEF Polling, PollInvalidStream, PollReset, PollGoAway, PollDone
<1>10. CASE Starting
  BY <1>10 DEF Starting, StartDone
<1>11. CASE ShuttingDown
  BY <1>11 DEF ShuttingDown, UpdatePhaseWaitShutdown
<1>12. CASE Migrating
  BY <1>12 DEF Migrating, AwaitResolution, Migrate, MigrateRefused,
     MigrateWithoutAddress
<1>13. CASE Checking
  BY <1>13 DEF Checking, CheckConnectionClosed, CheckConnectionTimeout, CheckDone
<1>14. CASE Crashed
  BY <1>14 DEF Crashed, vars
<1> QED
  BY <1>1, <1>2, <1>3, <1>4, <1>5, <1>6, <1>7, <1>8, <1>9, <1>10, <1>11,
     <1>12, <1>13, <1>14 DEF Next

(* Outside the polling, the starting of requests and the shutdown no       *)
(* request gets a critical status.                                         *)
LEMMA FineSteps ==
  ASSUME TypeOK, Next
  PROVE  /\ AllFine => \/ AllFine' \/ failures' # 0
                       \/ UpdatePhaseStartShutdown /\ status \in CriticalStatus
         /\ StartedFine => \/ StartedFine' \/ at \in {"poll", "start"}
                           \/ UpdatePhaseStartShutdown
<1> USE DEF Running
<1>0. /\ streams \in Seq(Requests) /\ stock \in Seq(Requests)
      /\ stream \in [Requests -> Streams]
      /\ streamsMap \in [StreamIds -> Requests \cup {Absent, Null}]
      /\ cursor \in Nat \ {0} /\ failures \in Nat
  BY ConnectionAssumption DEF TypeOK, QueuesOK, StreamsOK, ControlOK
<1>s. ToSet(streams) \subseteq Requests /\ ToSet(<<>>) = {}
  BY <1>0 DEF ToSet
<1>c. ClearedStream.status \notin CriticalStatus /\ "Completed" \notin CriticalStatus
  BY DEF ClearedStream, CriticalStatus
<1>k. ASSUME \A r \in Requests : \/ stream'[r].status = stream[r].status
                                 \/ stream'[r].status \notin CriticalStatus
      PROVE  /\ AllFine => AllFine'
             /\ ToSet(streams') \subseteq ToSet(streams) /\ StartedFine => StartedFine'
  BY <1>k, <1>s DEF AllFine, StartedFine
<1>f. ASSUME NEW kind, Fail(kind)
      PROVE  failures' # 0
  BY <1>f, <1>0 DEF Fail
<1>1. CASE UNCHANGED stream
  <2>1. CASE streams' = streams \/ streams' = <<>>
    BY <1>1, <2>1, <1>k, <1>s
  <2>2. CASE CallSuccessCallback
    <3>1. cursor \in 1 .. Len(streams)
      BY <2>2, <1>0 DEF CallSuccessCallback, InCallbacks
    <3>2. ToSet(RemoveAt(streams, cursor)) \subseteq ToSet(streams)
      BY <3>1, <1>0, Shortened
    <3> QED BY <1>1, <1>k, <2>2, <3>2 DEF CallSuccessCallback
  <2>3. CASE StartStream
    BY <1>1, <1>k, <2>3 DEF StartStream, CanStart
  <2> QED
    BY <2>1, <2>2, <2>3, QueueSteps DEF queueVars, Publishing, PublishRequest, Abort,
       Reconnect, ReconnectFromScratch, listVars, StartRetry, UpdatePhaseWaitShutdown,
       FinishAbort, ParkRequests, Crash, appVars
<1>2. CASE Abort
  BY <1>2, <1>0, <1>c, <1>k, <1>s DEF Abort
<1>3. CASE CallSuccessCallback
  <2>1. cursor \in 1 .. Len(streams)
    BY <1>3, <1>0 DEF CallSuccessCallback, InCallbacks
  <2>2. ToSet(streams') \subseteq ToSet(streams)
    BY <1>0, <1>3, <2>1, Shortened DEF CallSuccessCallback
  <2> DEFINE left == [ClearedStream EXCEPT !.body = stream[streams[cursor]].body]
  <2>3. left.status \notin CriticalStatus
    BY <1>c DEF ClearedStream
  <2> HIDE DEF left
  <2>4. stream' = [stream EXCEPT ![streams[cursor]] = left]
    BY <1>3 DEF CallSuccessCallback, left
  <2> QED BY <1>0, <1>k, <2>2, <2>3, <2>4
<1>4. CASE UpdatePhaseCreateSocket \/ UpdatePhaseInitialize
  <2>1. \A r \in Requests : Detached[r].status = stream[r].status
    BY <1>0 DEF Detached, Streams
  <2> QED
    BY <1>4, <1>k, <2>1 DEF UpdatePhaseCreateSocket, UpdatePhaseInitialize, listVars,
       queueVars
<1>5. CASE StartStream
  <2>1. \A r \in Requests : stream'[r].status = stream[r].status
    BY <1>5, <1>0 DEF StartStream, Streams
  <2> QED BY <1>5, <1>k, <2>1 DEF StartStream, CanStart
<1>6. CASE StartStreamFails
  BY <1>6, <1>f DEF StartStreamFails, CanStart
<1>7. CASE UpdatePhaseStartShutdown
  <2>1. ASSUME status \notin CriticalStatus
        PROVE  AllFine => AllFine'
    <3>1. [ClearedStream EXCEPT !.status = status].status \notin CriticalStatus
      BY <2>1 DEF ClearedStream
    <3> DEFINE left == [ClearedStream EXCEPT !.status = status]
    <3> HIDE DEF left
    <3>2. stream' = [r \in Requests |->
                       IF r \in ToSet(streams) /\ stream[r].status = "Connecting"
                         THEN left ELSE stream[r]]
      BY <1>7 DEF UpdatePhaseStartShutdown, left
    <3> QED BY <1>k, <3>1, <3>2 DEF left
  <2> QED BY <1>7, <2>1
<1>8. ASSUME NEW id \in StreamIds, PollFinished(id)
      PROVE  at = "poll" /\ (AllFine => AllFine')
  <2>1. \A r \in Requests : \/ stream'[r].status = stream[r].status
                            \/ stream'[r].status = "Completed"
    BY <1>8, <1>0 DEF PollFinished, Streams
  <2> QED BY <1>8, <1>c, <1>k, <2>1 DEF PollFinished, Event
<1>9. ASSUME NEW id \in StreamIds, PollResponse(id)
      PROVE  at = "poll" /\ (AllFine => AllFine' \/ failures' # 0)
  <2>1. CASE UNCHANGED stream
    BY <1>9, <1>k, <2>1 DEF PollResponse, Event
  <2>2. CASE stream' = [stream EXCEPT ![streamsMap[id]].body = Extended(@)]
    <3>1. \A r \in Requests : stream'[r].status = stream[r].status
      BY <2>2, <1>0 DEF Streams
    <3> QED BY <1>9, <1>k, <3>1 DEF PollResponse, Event
  <2>3. CASE Fail("body")
    BY <1>9, <1>f, <2>3 DEF PollResponse, Event
  <2> QED BY <1>9, <2>1, <2>2, <2>3 DEF PollResponse
<1> QED
  BY <1>1, <1>2, <1>3, <1>4, <1>5, <1>6, <1>7, <1>8, <1>9, StreamSteps

(* Every step keeps it, one case per action.                               *)
LEMMA SetupStep ==
  ASSUME PhaseScope, TypeOK, PhaseInv, SetupInv, [Next]_vars
  PROVE  SetupInv'
<1> USE DEF SetupInv, Running, IsError
<1>0. /\ failures \in 0 .. MaxFailures /\ MaxFailures \in Nat
      /\ conn \in ConnStates /\ phase \in Phases /\ status \in QwfsStatus
      /\ established \in BOOLEAN /\ callRetry \in BOOLEAN
      /\ cursor \in Nat \ {0} /\ streams \in Seq(Requests)
  BY ConnectionAssumption DEF TypeOK, ControlOK, HandlesOK, QueuesOK
<1> USE <1>0
<1>a. "newConnection" \in Failures /\ "Retry" \in Calls => MaxFailures <= 1
  BY DEF PhaseScope
<1>p. /\ phase = "CreateSocket" => streams = <<>>
      /\ at = "established" => phase = "Handshake"
      /\ at \in {"poll", "start"} => phase \in {"Handshake", "Wait", "StartShutdown"}
  BY DEF PhaseInv
<1>e. /\ {"ErrorSocket", "ErrorResolveHost", "CriticalErrorQuiche", "ErrorFileIO",
           "ErrorTimeout", "ErrorConnectionMigration", "ErrorConnectionClose"}
             \subseteq ErrorStatus
      /\ CriticalStatus \subseteq ErrorStatus
      /\ {"Wait", "Connecting", "Aborting", "ErrorSocket", "ErrorResolveHost",
          "ErrorTimeout", "ErrorConnectionClose"} \cap CriticalStatus = {}
      /\ {"Wait", "Connecting", "Aborting"} \cap ErrorStatus = {}
  BY DEF ErrorStatus, CriticalStatus, OrdinaryErrorStatus
<1>f. ASSUME NEW kind, Fail(kind)
      PROVE  failures' # 0 /\ failures < MaxFailures /\ kind \in Failures
  BY <1>f DEF Fail
<1>n. streams = <<>> => StartedFine
  BY DEF StartedFine, ToSet
<1>t. AllFine => StartedFine
  BY DEF AllFine, StartedFine, ToSet
<1>g. ASSUME Next, UNCHANGED conn
      PROVE  conn' = "null" => StartedFine'
  BY <1>g, FineSteps DEF UpdatePhaseStartShutdown, InPhase
<1>h. ASSUME Next, UNCHANGED failures
      PROVE  failures' = 0 => AllFine'
  BY <1>h, FineSteps
<1>x. ASSUME Next, UNCHANGED <<established, conn, phase, status, callRetry, failures>>,
             at' = at \/ at' \notin {"established", "poll", "start"},
             streams = <<>> => streams' = <<>>
      PROVE  SetupInv'
  BY <1>x, <1>g, <1>h
<1>c. ASSUME Next, NEW site, Crash(site)
      PROVE  SetupInv'
  BY <1>c, <1>x DEF Crash, netVars, stateVars, quicVars, setupVars, appVars, flagVars,
     listVars, queueVars
<1>b. ASSUME Next, NEW spare, NEW s, NEW p, BreakOff(spare, s, p),
             p \in {phase, "Wait", "StartShutdown"}, conn # "null", conn' # "null",
             UNCHANGED <<callRetry, streams>>, failures' # 0
      PROVE  SetupInv'
  BY <1>b DEF BreakOff, TransitionConnectionMigration, SetStatus
<1>1. CASE Publishing
  <2>0. Next
    BY <1>1 DEF Next
  <2> PICK r \in Requests : PublishRequest(r)
    BY <1>1 DEF Publishing
  <2>1. /\ UNCHANGED <<established, conn, phase, at, callRetry, failures, streams>>
        /\ status' \in {status, "Connecting"}
        /\ IsError(status) => status' = status
    BY DEF PublishRequest, quicVars, setupVars, flagVars, quietVars, budgetVars
  <2> QED BY <2>0, <2>1, <1>e, <1>g, <1>h
<1>2. CASE Calling
  <2>0. Next
    BY <1>2 DEF Next
  <2>1. CASE Retry
    BY <2>0, <2>1, <1>g, <1>h DEF Retry, Call, netVars, stateVars, quicVars, setupVars,
       listVars, queueVars
  <2>2. CASE Abort
    BY <2>0, <2>2, <1>e, <1>h DEF Abort, Call, SetStatus, setupVars
  <2>3. CASE AbortIgnored
    BY <2>0, <2>3, <1>x DEF AbortIgnored, Call, netVars, stateVars, quicVars, setupVars,
       appVars, flagVars, listVars, queueVars
  <2>4. CASE Reconnect
    BY <2>0, <2>4, <1>e, <1>h DEF Reconnect, Call, TransitionConnectionMigration,
       ReconnectFromScratch, SetStatus, quicVars, setupVars, flagVars, listVars, queueVars
  <2> QED
    BY <1>2, <2>0, <1>c, <2>1, <2>2, <2>3, <2>4 DEF Calling, AbortWithoutConnection,
       ReconnectWithoutConnection
<1>3. CASE IssueCallbacks
  BY <1>3, <1>x DEF Next, IssueCallbacks, netVars, stateVars, quicVars, setupVars, appVars,
     flagVars, listVars, queueVars, budgetVars
<1>4. CASE Callbacks
  <2>0. Next
    BY <1>4 DEF Next
  <2>1. CASE CallSuccessCallback
    BY <2>0, <2>1, <1>x DEF CallSuccessCallback, InCallbacks, netVars, stateVars, quicVars,
       setupVars, flagVars, quietVars, budgetVars
  <2>2. CASE CallErrorCallback
    <3> DEFINE r == streams[cursor]
    <3>1. r \in ToSet(streams) /\ r \in Requests
      BY <2>2 DEF CallErrorCallback, InCallbacks, ToSet
    <3>2. stream[r].status \in CriticalStatus
      BY <2>2 DEF CallErrorCallback
    <3>3. ~StartedFine /\ ~AllFine
      BY <3>1, <3>2 DEF StartedFine, AllFine
    <3> QED
      BY <2>0, <2>2, <3>3 DEF CallErrorCallback, InCallbacks, SetStatus, quicVars,
         setupVars, appVars, flagVars, listVars, queueVars, budgetVars
  <2>3. CASE SkipStream \/ CallbacksDone
    BY <2>0, <2>3, <1>x DEF SkipStream, CallbacksDone, netVars, stateVars, quicVars,
       setupVars, appVars, flagVars, listVars, queueVars, budgetVars
  <2> QED BY <1>4, <2>0, <1>c, <2>1, <2>2, <2>3 DEF Callbacks, RetryStreamAtOnce
<1>5. CASE Sending
  <2>0. Next
    BY <1>5 DEF Next
  <2>1. CASE Send
    BY <2>0, <2>1, <1>x DEF Send, OnlyMoves, netVars, stateVars, quicVars, setupVars,
       appVars, flagVars, listVars, queueVars, quietVars, budgetVars
  <2>2. CASE SendToFails
    BY <2>0, <2>2, <1>b, <1>f DEF SendToFails, CanSend, quicVars, setupVars, appVars,
       flagVars, listVars, queueVars, stepVars
  <2>3. CASE QuicheSendFails
    BY <2>0, <2>3, <1>b, <1>f DEF QuicheSendFails, CanSend, SetStatus, quicVars, setupVars,
       appVars, flagVars, listVars, queueVars, stepVars
  <2> QED BY <1>5, <2>1, <2>2, <2>3 DEF Sending
<1>6. CASE Receiving
  <2>0. Next
    BY <1>6 DEF Next
  <2>1. CASE Receive
    BY <2>0, <2>1, <1>x DEF Receive, OnlyMoves, netVars, stateVars, quicVars, setupVars,
       appVars, flagVars, listVars, queueVars, quietVars, budgetVars
  <2>2. CASE ReceiveEstablished
    BY <2>0, <2>2, <1>h DEF ReceiveEstablished, stateVars, appVars, flagVars, listVars,
       queueVars, quietVars, budgetVars
  <2>3. CASE ReceiveClose
    BY <2>0, <2>3, <1>f DEF ReceiveClose, stateVars, setupVars, appVars, flagVars, listVars,
       queueVars, stepVars
  <2>4. CASE RecvFromFails
    BY <2>0, <2>4, <1>b, <1>f DEF RecvFromFails, quicVars, setupVars, appVars, flagVars,
       listVars, queueVars, stepVars
  <2>5. CASE QuicheRecvFails
    <3>1. failures' # 0 /\ conn' # "null" /\ UNCHANGED <<callRetry, streams>>
      BY <2>5, <1>f DEF QuicheRecvFails, appVars, flagVars, listVars, queueVars
    <3>2. phase' # "Initialize" \/ phase' = phase
      BY <2>5 DEF QuicheRecvFails, BreakOff, TransitionConnectionMigration, SetStatus
    <3> QED BY <3>1, <3>2
  <2> QED
    BY <1>6, <2>0, <1>c, <2>1, <2>2, <2>3, <2>4, <2>5
       DEF Receiving, RecvFromFailsWithoutConnection
<1>7. CASE Connecting
  <2>0. Next
    BY <1>7 DEF Next
  <2>1. CASE UpdatePhaseCreateSocket
    <3>1. streams = <<>> /\ streams' = <<>>
      BY <2>1, <1>p DEF UpdatePhaseCreateSocket, InPhase, listVars, queueVars
    <3>2. StartedFine'
      BY <3>1, <1>n DEF StartedFine, ToSet
    <3>3. /\ established' = FALSE /\ UNCHANGED callRetry
          /\ phase' \in {"CreateSocket", "Initialize"}
          /\ at' \in {"idle", "check"}
          /\ status' \in {"Wait", "ErrorSocket", "ErrorResolveHost"}
          /\ UNCHANGED failures \/ failures' # 0
      BY <2>1, <1>f DEF UpdatePhaseCreateSocket, InPhase, CreateUdpSocket, SocketErrors,
         SetStatus, flagVars
    <3> QED BY <2>0, <3>1, <3>2, <3>3, <1>e, <1>h
  <2>2. CASE UpdatePhaseInitialize
    <3>1. phase = "Initialize" /\ at = "phase"
      BY <2>2 DEF UpdatePhaseInitialize, InPhase
    <3>2. /\ established' = FALSE /\ UNCHANGED <<callRetry, streams>>
          /\ at' \in {"idle", "check"}
      BY <2>2 DEF UpdatePhaseInitialize, flagVars, listVars, queueVars
    <3>3. CASE conn' # "null"
      <4>1. \/ failures' # 0 /\ phase' = phase
            \/ UNCHANGED <<failures, status>> /\ phase' = "Handshake"
        BY <2>2, <3>3, <1>f DEF UpdatePhaseInitialize, SetStatus
      <4> QED BY <2>0, <3>1, <3>2, <3>3, <4>1, <1>h
    <3>4. CASE conn' = "null"
      <4>1. /\ Fail("newConnection")
            /\ status' = "CriticalErrorQuiche" /\ phase' = "Wait"
        BY <2>2, <3>4 DEF UpdatePhaseInitialize, SetStatus
      <4>2. StartedFine
        BY <3>1, <4>1, <1>a, <1>f, <1>n, <1>t
      <4>3. StartedFine'
        BY <2>0, <3>1, <4>2, FineSteps DEF UpdatePhaseStartShutdown, InPhase
      <4> QED BY <3>2, <3>4, <4>1, <4>3, <1>e, <1>f
    <3> QED BY <3>3, <3>4
  <2>3. CASE StartEarlyData
    BY <2>0, <2>3, <1>f, <1>h DEF StartEarlyData, InPhase, stateVars, appVars, flagVars,
       listVars, queueVars, stepVars
  <2>4. CASE SkipEarlyData
    BY <2>0, <2>4, <1>h DEF SkipEarlyData, InPhase, OnlyMoves, netVars, stateVars, quicVars,
       setupVars, appVars, flagVars, listVars, queueVars, quietVars, budgetVars
  <2>5. CASE AwaitEstablished
    BY <2>0, <2>5, <1>x DEF AwaitEstablished, OnlyMoves, netVars, stateVars, quicVars,
       setupVars, appVars, flagVars, listVars, queueVars, quietVars, budgetVars
  <2>6. CASE FinishHandshake
    BY <2>0, <2>6, <1>f, <1>h DEF FinishHandshake, SetStatus, appVars, flagVars, listVars,
       queueVars, stepVars
  <2> QED
    BY <1>7, <2>0, <1>c, <2>1, <2>2, <2>3, <2>4, <2>5, <2>6
       DEF Connecting, InitializeWithoutAddress
<1>8. CASE Waiting
  <2>0. Next
    BY <1>8 DEF Next
  <2>1. CASE StartRetry
    BY <2>0, <2>1, <1>e, <1>g, <1>h DEF StartRetry, InPhase, SetStatus, quicVars, setupVars,
       quietVars, budgetVars
  <2>2. CASE AwaitRetry
    BY <2>0, <2>2, <1>x DEF AwaitRetry, OnlyMoves, netVars, stateVars, quicVars, setupVars,
       appVars, flagVars, listVars, queueVars, quietVars, budgetVars
  <2>3. CASE StartPolling
    BY <2>0, <2>3, <1>c, <1>h DEF StartPolling, InPhase, OnlyMoves, netVars, stateVars,
       quicVars, setupVars, appVars, flagVars, listVars, queueVars, quietVars, budgetVars
  <2> QED BY <1>8, <2>1, <2>2, <2>3 DEF Waiting
<1>9. CASE Polling
  <2>0. Next
    BY <1>9 DEF Next
  <2> USE DEF DropEvent
  <2>1. CASE PollDone
    BY <2>0, <2>1, <1>h DEF PollDone, OnlyMoves, netVars, stateVars, quicVars, setupVars,
       appVars, flagVars, listVars, queueVars, quietVars, budgetVars
  <2>2. ASSUME NEW id \in StreamIds, PollFinished(id) PROVE SetupInv'
    BY <2>0, <2>2, <1>h DEF PollFinished, Event, stateVars, setupVars, flagVars, queueVars,
       quietVars, budgetVars
  <2>3. ASSUME NEW id \in StreamIds, PollResponse(id) PROVE SetupInv'
    BY <2>0, <2>3, <1>f, <1>h DEF PollResponse, Event, netVars, stateVars, quicVars,
       setupVars, flagVars, queueVars, stepVars
  <2>4. ASSUME NEW id \in StreamIds, PollReset(id) PROVE SetupInv'
    BY <2>0, <2>4, <1>f DEF PollReset, Event, setupVars, flagVars, queueVars, stepVars
  <2>5. ASSUME NEW id \in StreamIds, PollGoAway(id) PROVE SetupInv'
    BY <2>0, <2>5, <1>f DEF PollGoAway, netVars, stateVars, quicVars, setupVars, flagVars,
       queueVars, stepVars
  <2> QED BY <1>9, <2>0, <1>c, <2>1, <2>2, <2>3, <2>4, <2>5 DEF Polling, PollInvalidStream
<1>10. CASE Starting
  <2>0. Next
    BY <1>10 DEF Next
  <2>l. ASSUME LeaveLoop, at = "start", UNCHANGED <<established, conn, callRetry, streams>>,
               UNCHANGED failures \/ failures' # 0
        PROVE  SetupInv'
    BY <2>0, <2>l, <1>e, <1>h, <1>p DEF LeaveLoop
  <2>1. CASE StartStream
    BY <2>0, <2>1, <1>e, <1>h, <1>p DEF StartStream, CanStart, setupVars, flagVars,
       quietVars, budgetVars
  <2>2. CASE StartStreamFails
    BY <2>0, <2>2, <2>l, <1>f DEF StartStreamFails, CanStart, FailToStart, SetStatus,
       quicVars, setupVars, flagVars, listVars, queueVars, stepVars
  <2>3. CASE StartDone
    BY <2>3, <2>l DEF StartDone, quicVars, setupVars, appVars, flagVars, listVars,
       queueVars, quietVars, budgetVars
  <2> QED BY <1>10, <2>1, <2>2, <2>3 DEF Starting
<1>11. CASE ShuttingDown
  <2>0. Next
    BY <1>11 DEF Next
  <2>1. CASE UpdatePhaseStartShutdown
    BY <2>0, <2>1, <1>h DEF UpdatePhaseStartShutdown, InPhase, SetStatus, quicVars,
       setupVars, flagVars, listVars, queueVars, quietVars, budgetVars
  <2>2. CASE UpdatePhaseWaitShutdown
    BY <2>0, <2>2, <1>c, <1>e, <1>h DEF UpdatePhaseWaitShutdown, FinishAbort, ParkRequests,
       SetStatus, stateVars, quicVars, setupVars, flagVars, listVars, queueVars, quietVars,
       budgetVars
  <2> QED BY <1>11, <2>1, <2>2 DEF ShuttingDown
<1>12. CASE Migrating
  <2>0. Next /\ conn # "null" /\ phase = "ConnectionMigration" /\ at = "phase"
    BY <1>12 DEF Next, Migrating, AwaitResolution, Migrate, MigrateRefused,
       MigrateWithoutAddress, InPhase
  <2>1. CASE AwaitResolution
    <3>1. UNCHANGED failures \/ failures' # 0
      BY <2>1, <1>f DEF AwaitResolution, CreateUdpSocket
    <3> QED
      BY <2>0, <2>1, <3>1, <1>e, <1>h DEF AwaitResolution, MigrationTimeout, Timeout,
         SetStatus, setupVars, appVars, flagVars, listVars, queueVars, stepVars
  <2>2. CASE Migrate
    <3>1. UNCHANGED failures \/ failures' # 0
      BY <2>2, <1>f DEF Migrate, CreateUdpSocket
    <3> QED
      BY <2>0, <2>2, <3>1, <1>e, <1>h DEF Migrate, SetStatus, SocketErrors, quicVars,
         setupVars, appVars, flagVars, listVars, queueVars, stepVars
  <2>3. CASE MigrateRefused
    BY <2>0, <2>3, <1>f DEF MigrateRefused, SetStatus, quicVars, setupVars, appVars,
       flagVars, listVars, queueVars, stepVars
  <2> QED BY <1>12, <2>0, <1>c, <2>1, <2>2, <2>3 DEF Migrating, MigrateWithoutAddress
<1>13. CASE Checking
  <2>0. Next
    BY <1>13 DEF Next
  <2>1. CASE CheckConnectionClosed
    BY <2>0, <2>1, <1>e, <1>h DEF CheckConnectionClosed, MustClose, SetStatus, quicVars,
       setupVars, appVars, flagVars, listVars, queueVars, quietVars, budgetVars
  <2>2. CASE CheckConnectionTimeout
    BY <2>0, <2>2, <1>e, <1>f, <1>h DEF CheckConnectionTimeout, SetStatus, stateVars,
       setupVars, appVars, flagVars, listVars, queueVars, stepVars
  <2>3. CASE CheckDone
    BY <2>0, <2>3, <1>x DEF CheckDone, OnlyMoves, netVars, stateVars, quicVars, setupVars,
       appVars, flagVars, listVars, queueVars, quietVars, budgetVars
  <2> QED BY <1>13, <2>1, <2>2, <2>3 DEF Checking
<1>14. CASE Crashed
  BY <1>14, <1>x DEF Next, Crashed, vars, netVars, stateVars, quicVars, setupVars, appVars,
     flagVars, listVars, queueVars, quietVars, budgetVars
<1>15. CASE UNCHANGED vars
  BY <1>15 DEF StartedFine, AllFine, vars, netVars, stateVars, quicVars, setupVars, appVars,
     flagVars, listVars, queueVars, requestVars, quietVars, budgetVars
<1> QED
  BY <1>1, <1>2, <1>3, <1>4, <1>5, <1>6, <1>7, <1>8, <1>9, <1>10, <1>11, <1>12,
     <1>13, <1>14, <1>15 DEF Next

(* Whatever interrupts the set-up, at whatever call, the phases, the       *)
(* polling and Stream::Start that hand _quicheConnection to quiche without *)
(* looking at it are reached only while there is one.                      *)
THEOREM SetupKeepsConnection ==
  PhaseScope => (Spec => []PhaseHasConnection)
<1> SUFFICES ASSUME PhaseScope PROVE Spec => []PhaseHasConnection
  OBVIOUS
<1> DEFINE Inv == ListsInv /\ PhaseInv /\ SetupInv
<1>1. Init => Inv
  BY InitialLists, InitialPhase, InitialSetup
<1>2. Inv /\ [Next]_vars => Inv'
  BY ListsInvStep, PhaseStep, SetupStep DEF PhaseScope, ListsInv
<1>3. Inv => PhaseHasConnection
  BY DEF SetupInv, PhaseHasConnection
<1> QED BY <1>1, <1>2, <1>3, PTL DEF Spec

-----------------------------------------------------------------------------
(* The status Wait                                                         *)

(* Nothing sets the status Wait over started requests: no migration; and   *)
(* where there is Retry, no early data, and no failure that leaves an      *)
(* error without starting a shutdown. TLC finds the property violated when *)
(* any one of these is dropped.                                            *)
IdleScope ==
  /\ AbortUndisturbed
  /\ ~ActiveMigration
  /\ "Retry" \in Calls =>
       /\ ~EarlyData
       /\ Failures \cap {"sendQuiche", "recvQuiche", "sendRequest", "openFile"} = {}

(* Nothing is started, or a shutdown under way will see to it.             *)
Parking == streams = <<>> \/ phase \in ShutdownPhases

(* The status Wait and an empty list of started requests go together in    *)
(* every phase. With Retry, an error state is parking, and a Retry that is *)
(* remembered finds nothing started, or a shutdown still to come.          *)
IdleInv ==
  /\ status = "Wait" => streams = <<>>
  /\ zeroRtt => EarlyData
  /\ IF "Retry" \in Calls
       THEN /\ phase = "Initialize" => streams = <<>>
            /\ IsError(status) => Parking
            /\ callRetry => streams = <<>> \/ (IsError(status) /\ Parking)
            /\ callRetry => at \notin {"poll", "start"}
       ELSE ~callRetry

(* The initial state satisfies it.                                         *)
LEMMA InitialIdle == Init => IdleInv
BY DEF Init, IdleInv, Parking, IsError, ErrorStatus, CriticalStatus, OrdinaryErrorStatus

(* Every step keeps it, one case per action.                               *)
LEMMA IdleStep ==
  ASSUME IdleScope, TypeOK, PhaseInv, IdleInv, [Next]_vars
  PROVE  IdleInv'
<1> USE DEF IdleInv, Parking, ShutdownPhases, Running, IsError
<1>0. /\ callRetry \in BOOLEAN /\ zeroRtt \in BOOLEAN /\ EarlyData \in BOOLEAN
      /\ status \in QwfsStatus /\ phase \in Phases
      /\ cursor \in Nat \ {0} /\ streams \in Seq(Requests)
  BY ConnectionAssumption DEF TypeOK, ControlOK, HandlesOK, QueuesOK
<1> USE <1>0
<1>a. /\ ~ActiveMigration
      /\ "Retry" \in Calls =>
           /\ ~EarlyData
           /\ "sendQuiche" \notin Failures /\ "recvQuiche" \notin Failures
           /\ "sendRequest" \notin Failures /\ "openFile" \notin Failures
  BY DEF IdleScope
<1>p. /\ phase = "CreateSocket" => streams = <<>>
      /\ callAbort => streams = <<>>
      /\ phase # "ConnectionMigration"
      /\ at \in {"poll", "start"} => phase \in {"Handshake", "Wait", "StartShutdown"}
  BY <1>a DEF PhaseInv, AbortShutsDown
<1>e. /\ {"ErrorSocket", "ErrorResolveHost", "CriticalErrorQuiche", "ErrorFileIO",
           "ErrorTimeout", "ErrorConnectionClose"} \subseteq ErrorStatus
      /\ CriticalStatus \subseteq ErrorStatus
      /\ {"Wait", "Connecting", "Aborting"} \cap ErrorStatus = {}
  BY DEF ErrorStatus, CriticalStatus, OrdinaryErrorStatus
<1>q. ASSUME NEW error
      PROVE  \/ ConvertQuicheErrorToStatus(error, status) = status
             \/ ConvertQuicheErrorToStatus(error, status) # "Wait"
  BY DEF ConvertQuicheErrorToStatus
<1>x. ASSUME UNCHANGED <<phase, status, callRetry, zeroRtt>>,
             at' = at \/ at' \notin {"poll", "start"},
             streams = <<>> => streams' = <<>>
      PROVE  IdleInv'
  BY <1>x
<1>c. ASSUME NEW site, Crash(site)
      PROVE  IdleInv'
  BY <1>c, <1>x DEF Crash, netVars, stateVars, quicVars, setupVars, appVars, flagVars,
     listVars, queueVars
<1>b. ASSUME NEW spare, NEW s, NEW p, BreakOff(spare, s, p),
             UNCHANGED <<callRetry, streams, zeroRtt>>,
             s \in ErrorStatus /\ p = "StartShutdown"
      PROVE  IdleInv'
  BY <1>b, <1>a, <1>e DEF BreakOff, IsEnabledConnectionMigration, SetStatus
<1>1. CASE Publishing
  <2> PICK r \in Requests : PublishRequest(r)
    BY <1>1 DEF Publishing
  <2>1. UNCHANGED <<phase, at, callRetry, zeroRtt, streams>>
    BY DEF PublishRequest, quicVars, setupVars, flagVars, quietVars, budgetVars
  <2>2. status' = IF IsError(status) THEN status ELSE "Connecting"
    BY DEF PublishRequest
  <2> QED BY <2>1, <2>2, <1>e
<1>2. CASE Calling
  <2>1. CASE Retry
    BY <2>1 DEF Retry, Call, netVars, stateVars, quicVars, setupVars, listVars, queueVars
  <2>2. CASE Abort
    BY <2>2, <1>e DEF Abort, Call, SetStatus, setupVars
  <2>3. CASE AbortIgnored
    BY <2>3, <1>x DEF AbortIgnored, Call, netVars, stateVars, quicVars, setupVars,
       appVars, flagVars, listVars, queueVars
  <2>4. CASE Reconnect
    BY <2>4, <1>a DEF Reconnect, Call, IsEnabledConnectionMigration, ReconnectFromScratch,
       SetStatus, quicVars, setupVars, flagVars
  <2> QED
    BY <1>2, <1>c, <2>1, <2>2, <2>3, <2>4 DEF Calling, AbortWithoutConnection,
       ReconnectWithoutConnection
<1>3. CASE IssueCallbacks
  BY <1>3, <1>x DEF IssueCallbacks, netVars, stateVars, quicVars, setupVars, appVars,
     flagVars, listVars, queueVars, budgetVars
<1>4. CASE Callbacks
  <2>1. CASE CallSuccessCallback
    BY <2>1, <1>x DEF CallSuccessCallback, InCallbacks, netVars, stateVars, quicVars,
       setupVars, flagVars, quietVars, budgetVars
  <2>2. CASE CallErrorCallback
    BY <2>2, <1>e DEF CallErrorCallback, InCallbacks, SetStatus, quicVars, setupVars,
       appVars, flagVars, listVars, queueVars, budgetVars
  <2>3. CASE SkipStream \/ CallbacksDone
    BY <2>3, <1>x DEF SkipStream, CallbacksDone, netVars, stateVars, quicVars,
       setupVars, appVars, flagVars, listVars, queueVars, budgetVars
  <2> QED BY <1>4, <1>c, <2>1, <2>2, <2>3 DEF Callbacks, RetryStreamAtOnce
<1>5. CASE Sending
  <2>1. CASE Send
    BY <2>1, <1>x DEF Send, OnlyMoves, netVars, stateVars, quicVars, setupVars,
       appVars, flagVars, listVars, queueVars, quietVars, budgetVars
  <2>2. CASE SendToFails
    BY <2>2, <1>b, <1>e DEF SendToFails, quicVars, setupVars, appVars, flagVars, listVars,
       queueVars, stepVars
  <2>3. CASE QuicheSendFails
    <3>1. "Retry" \notin Calls
      BY <2>3, <1>a DEF QuicheSendFails, Fail
    <3>2. status' = status \/ status' # "Wait"
      BY <2>3, <1>a, <1>q DEF QuicheSendFails, BreakOff, IsEnabledConnectionMigration,
         SetStatus
    <3> QED
      BY <2>3, <3>1, <3>2 DEF QuicheSendFails, quicVars, setupVars, appVars, flagVars,
         listVars, queueVars
  <2> QED BY <1>5, <2>1, <2>2, <2>3 DEF Sending
<1>6. CASE Receiving
  <2>1. CASE Receive
    BY <2>1, <1>x DEF Receive, OnlyMoves, netVars, stateVars, quicVars, setupVars,
       appVars, flagVars, listVars, queueVars, quietVars, budgetVars
  <2>2. CASE ReceiveEstablished \/ ReceiveClose
    BY <2>2, <1>x DEF ReceiveEstablished, ReceiveClose, stateVars, setupVars, appVars,
       flagVars, listVars, queueVars, quietVars, budgetVars
  <2>3. CASE RecvFromFails
    BY <2>3, <1>b, <1>e DEF RecvFromFails, quicVars, setupVars, appVars, flagVars,
       listVars, queueVars, stepVars
  <2>4. CASE QuicheRecvFails
    <3>1. "Retry" \notin Calls
      BY <2>4, <1>a DEF QuicheRecvFails, Fail
    <3>2. status' = status \/ status' # "Wait"
      BY <2>4, <1>a, <1>q DEF QuicheRecvFails, BreakOff, IsEnabledConnectionMigration,
         SetStatus
    <3> QED
      BY <2>4, <3>1, <3>2 DEF QuicheRecvFails, setupVars, appVars, flagVars, listVars,
         queueVars
  <2> QED
    BY <1>6, <1>c, <2>1, <2>2, <2>3, <2>4 DEF Receiving, RecvFromFailsWithoutConnection
<1>7. CASE Connecting
  <2>1. CASE UpdatePhaseCreateSocket
    <3>1. streams = <<>> /\ UNCHANGED <<streams, callRetry>>
      BY <2>1, <1>p DEF UpdatePhaseCreateSocket, InPhase, flagVars, listVars, queueVars
    <3> QED
      BY <2>1, <3>1 DEF UpdatePhaseCreateSocket
  <2>2. CASE UpdatePhaseInitialize
    BY <2>2, <1>e DEF UpdatePhaseInitialize, InPhase, SetStatus, flagVars, listVars,
       queueVars
  <2>3. CASE StartEarlyData
    BY <2>3, <1>a DEF StartEarlyData, InPhase, IsEnabledZeroRtt, stateVars, appVars,
       flagVars, listVars, queueVars, stepVars
  <2>4. CASE SkipEarlyData \/ AwaitEstablished
    BY <2>4, <1>x DEF SkipEarlyData, AwaitEstablished, OnlyMoves, netVars, stateVars,
       quicVars, setupVars, appVars, flagVars, listVars, queueVars, quietVars, budgetVars
  <2>5. CASE FinishHandshake
    <3>1. UNCHANGED <<callRetry, streams, zeroRtt>> /\ at' \in {"idle", "check"}
      BY <2>5 DEF FinishHandshake, appVars, flagVars, listVars, queueVars
    <3>2. \/ status' = "CriticalErrorQuiche" /\ phase' = "StartShutdown"
          \/ status' = status /\ phase' = "Wait"
      BY <2>5 DEF FinishHandshake, SetStatus
    <3>3. "established" = at
      BY <2>5 DEF FinishHandshake
    <3>4. phase = "Handshake"
      BY <3>3 DEF PhaseInv
    <3> QED BY <3>1, <3>2, <3>4, <1>e
  <2> QED
    BY <1>7, <1>c, <2>1, <2>2, <2>3, <2>4, <2>5 DEF Connecting, InitializeWithoutAddress
<1>8. CASE Waiting
  <2>1. CASE StartRetry
    BY <2>1, <1>e DEF StartRetry, InPhase, SetStatus, quicVars, setupVars,
       quietVars, budgetVars
  <2>2. CASE AwaitRetry
    BY <2>2, <1>x DEF AwaitRetry, OnlyMoves, netVars, stateVars, quicVars, setupVars,
       appVars, flagVars, listVars, queueVars, quietVars, budgetVars
  <2>3. CASE StartPolling
    BY <2>3, <1>c DEF StartPolling, InPhase, OnlyMoves, netVars, stateVars,
       quicVars, setupVars, appVars, flagVars, listVars, queueVars, quietVars, budgetVars
  <2> QED BY <1>8, <2>1, <2>2, <2>3 DEF Waiting
<1>9. CASE Polling
  <2> USE DEF DropEvent
  <2>1. CASE PollDone
    BY <2>1 DEF PollDone, OnlyMoves, netVars, stateVars, quicVars, setupVars,
       appVars, flagVars, listVars, queueVars, quietVars, budgetVars
  <2>2. ASSUME NEW id \in StreamIds, PollFinished(id) PROVE IdleInv'
    BY <2>2 DEF PollFinished, Event, stateVars, setupVars, flagVars, queueVars,
       quietVars, budgetVars
  <2>3. ASSUME NEW id \in StreamIds, PollResponse(id) PROVE IdleInv'
    BY <2>3 DEF PollResponse, Event, netVars, stateVars, quicVars,
       setupVars, flagVars, queueVars, stepVars
  <2>4. ASSUME NEW id \in StreamIds, PollReset(id) PROVE IdleInv'
    BY <2>4 DEF PollReset, Event, setupVars, flagVars, queueVars, stepVars
  <2>5. ASSUME NEW id \in StreamIds, PollGoAway(id) PROVE IdleInv'
    BY <2>5 DEF PollGoAway, netVars, stateVars, quicVars, setupVars, flagVars,
       queueVars, stepVars
  <2> QED BY <1>9, <1>c, <2>1, <2>2, <2>3, <2>4, <2>5 DEF Polling, PollInvalidStream
<1>10. CASE Starting
  <2>l. ASSUME LeaveLoop, at = "start", UNCHANGED <<callRetry, streams, zeroRtt>>
        PROVE  IdleInv'
    BY <2>l, <1>e DEF LeaveLoop
  <2>1. CASE StartStream
    BY <2>1, <1>e, <1>p DEF StartStream, CanStart, setupVars, flagVars, quietVars, budgetVars
  <2>2. CASE StartStreamFails
    <3>1. "Retry" \notin Calls
      BY <2>2, <1>a DEF StartStreamFails, Fail
    <3>2. \/ LeaveLoop
          \/ status' = "CriticalErrorQuiche"
      BY <2>2 DEF StartStreamFails, FailToStart, SetStatus
    <3> QED
      BY <2>2, <2>l, <3>1, <3>2 DEF StartStreamFails, CanStart, quicVars, setupVars,
         flagVars, listVars, queueVars
  <2>3. CASE StartDone
    BY <2>3, <2>l DEF StartDone, quicVars, setupVars, appVars, flagVars, listVars,
       queueVars, quietVars, budgetVars
  <2> QED BY <1>10, <2>1, <2>2, <2>3 DEF Starting
<1>11. CASE ShuttingDown
  <2>1. CASE UpdatePhaseStartShutdown
    BY <2>1 DEF UpdatePhaseStartShutdown, InPhase, SetStatus, quicVars,
       setupVars, flagVars, listVars, queueVars, quietVars, budgetVars
  <2>2. CASE UpdatePhaseWaitShutdown
    BY <2>2, <1>c, <1>p, <1>e DEF UpdatePhaseWaitShutdown, FinishAbort, ParkRequests,
       SetStatus, stateVars, quicVars, setupVars, flagVars, listVars, queueVars, quietVars,
       budgetVars
  <2> QED BY <1>11, <2>1, <2>2 DEF ShuttingDown
<1>12. CASE Migrating
  BY <1>12, <1>p DEF Migrating, AwaitResolution, Migrate, MigrateRefused,
     MigrateWithoutAddress, InPhase
<1>13. CASE Checking
  <2>1. CASE CheckConnectionClosed
    BY <2>1, <1>e DEF CheckConnectionClosed, MustClose, SetStatus, quicVars,
       setupVars, appVars, flagVars, listVars, queueVars, quietVars, budgetVars
  <2>2. CASE CheckConnectionTimeout
    BY <2>2, <1>e DEF CheckConnectionTimeout, SetStatus, stateVars,
       setupVars, appVars, flagVars, listVars, queueVars, stepVars
  <2>3. CASE CheckDone
    BY <2>3, <1>x DEF CheckDone, OnlyMoves, netVars, stateVars, quicVars, setupVars,
       appVars, flagVars, listVars, queueVars, quietVars, budgetVars
  <2> QED BY <1>13, <2>1, <2>2, <2>3 DEF Checking
<1>14. CASE Crashed \/ UNCHANGED vars
  BY <1>14, <1>x DEF Crashed, vars, netVars, stateVars, quicVars, setupVars, appVars,
     flagVars, listVars, queueVars, quietVars, budgetVars
<1> QED
  BY <1>1, <1>2, <1>3, <1>4, <1>5, <1>6, <1>7, <1>8, <1>9, <1>10, <1>11, <1>12,
     <1>13, <1>14 DEF Next

(* It holds throughout, with the invariants it rests on.                   *)
LEMMA IdleHolds == IdleScope => (Spec => [](ListsInv /\ PhaseInv /\ IdleInv))
<1> SUFFICES ASSUME IdleScope PROVE Spec => [](ListsInv /\ PhaseInv /\ IdleInv)
  OBVIOUS
<1> DEFINE Inv == ListsInv /\ PhaseInv /\ IdleInv
<1>1. Init => Inv
  BY InitialLists, InitialPhase, InitialIdle
<1>2. Inv /\ [Next]_vars => Inv'
  BY ListsInvStep, PhaseStep, IdleStep DEF IdleScope, ListsInv
<1> QED BY <1>1, <1>2, PTL DEF Spec

(* An application that reads the status Wait in the phase Wait can rely on *)
(* it: no request is being transferred, whichever of the places in the     *)
(* code that set Wait was the last.                                        *)
THEOREM WaitIsIdle == IdleScope => (Spec => []WaitMeansNoneStarted)
<1>1. IdleInv => WaitMeansNoneStarted
  BY DEF IdleInv, WaitMeansNoneStarted
<1> QED BY <1>1, IdleHolds, PTL
=============================================================================
