------------------------------ MODULE StreamProofs ------------------------------
(***************************************************************************)
(* Theorems about _h3StreamsMap, the map from stream ids to raw pointers:  *)
(* what it points to exists, and events reach the request they answer.     *)
(***************************************************************************)
EXTENDS PhaseProofs

-----------------------------------------------------------------------------
(* When there is an error                                                  *)

(* Three ways to an entry that outlives what it stands for are left out:   *)
(* Reconnect, which keeps the entries of the old connection, with an Abort *)
(* or a failure; a migration, which can overwrite the status and phase a   *)
(* failure or an Abort has just set, with an Abort or two failures; and a  *)
(* reset stream, which starts a shutdown without an error, with a packet   *)
(* that fails without one and takes the phase out of that shutdown again.  *)
(* TLC finds a property violated for each, but for Reconnect with an Abort *)
(* and no failure, which is only not proved.                               *)
MapScope ==
  /\ "Reconnect" \in Calls => MaxFailures = 0 /\ "Abort" \notin Calls
  /\ ActiveMigration => MaxFailures <= 1 /\ "Abort" \notin Calls
  /\ {"recvQuiche", "streamReset"} \subseteq Failures /\ "FLOW_CONTROL" \in TransportErrors
       => MaxFailures <= 1

(* Nothing has failed, and no Abort is going to close the connection.      *)
Untroubled == failures = 0 /\ "Abort" \notin Calls

(* Where the connection is shut down while quiche has it open, without an  *)
(* error, a reset stream was the cause; and with no failure and no Abort   *)
(* there is no shutdown, no closing and no error at all.                   *)
CalmInv ==
  /\ status # "Completed"
  /\ h3 = "null" => peer.asked = NothingAsked
  /\ phase \in ShutdownPhases /\ conn = "open" /\ ~IsError(status) =>
       "streamReset" \in Failures /\ failures > 0
  /\ Untroubled => /\ phase \notin ShutdownPhases
                   /\ conn \in {"null", "open"}
                   /\ ~IsError(status)
                   /\ AllFine

(* The initial state satisfies it.                                         *)
LEMMA InitialCalm == Init => CalmInv
BY DEF Init, CalmInv, ShutdownPhases, AllFine, ClearedStream, IsError, ErrorStatus,
   CriticalStatus, OrdinaryErrorStatus

(* Every step keeps it, one case per action.                               *)
LEMMA CalmStep ==
  ASSUME MapScope, TypeOK, PhaseInv, NoErrorToForget, CalmInv, [Next]_vars
  PROVE  CalmInv'
<1> USE DEF CalmInv, Untroubled, ShutdownPhases, Running, IsError
<1>0. /\ failures \in 0 .. MaxFailures /\ MaxFailures \in Nat
      /\ conn \in ConnStates /\ phase \in Phases /\ status \in QwfsStatus
      /\ cursor \in Nat \ {0} /\ streams \in Seq(Requests)
      /\ peer \in [next : 0 .. MaxStreams, asked : [StreamIds -> Requests \cup {Absent}]]
  BY ConnectionAssumption DEF TypeOK, ControlOK, HandlesOK, QueuesOK, StreamsOK
<1> USE <1>0
<1>p. /\ at \in {"poll", "start"} => h3 # "null"
      /\ at \in {"poll", "start"} => phase \in {"Handshake", "Wait", "StartShutdown"}
      /\ at = "established" => phase = "Handshake"
      /\ callAbort => conn \in {"closing", "closed"}
      /\ callAbort => "Abort" \in Calls
  BY DEF PhaseInv, AbortShutsDown
<1>e. /\ {"ErrorSocket", "ErrorResolveHost", "CriticalErrorQuiche", "ErrorFileIO",
           "ErrorTimeout", "ErrorConnectionMigration", "ErrorConnectionClose"}
             \subseteq ErrorStatus
      /\ CriticalStatus \subseteq ErrorStatus
      /\ {"Wait", "Connecting", "Completed", "Aborting"} \cap ErrorStatus = {}
  BY DEF ErrorStatus, CriticalStatus, OrdinaryErrorStatus
<1>q. ASSUME NEW error
      PROVE  LET s == ConvertQuicheErrorToStatus(error, status)
             IN  s = status \/ s \in ErrorStatus
  BY DEF ConvertQuicheErrorToStatus, ErrorStatus, CriticalStatus, OrdinaryErrorStatus
<1>f. ASSUME NEW kind, Fail(kind)
      PROVE  failures' > 0 /\ failures' # 0 /\ kind \in Failures
  BY <1>f DEF Fail
<1>h. ASSUME Next, UNCHANGED failures
      PROVE  Untroubled' => AllFine'
  BY <1>h, <1>e, FineSteps
<1>x. ASSUME Next, UNCHANGED <<conn, phase, status, failures, h3, peer>>
      PROVE  CalmInv'
  BY <1>x, <1>h
<1>c. ASSUME Next, NEW site, Crash(site)
      PROVE  CalmInv'
  BY <1>c, <1>x DEF Crash, netVars, stateVars, quicVars, setupVars
<1>1. CASE Publishing
  <2>0. Next
    BY <1>1 DEF Next
  <2> PICK r \in Requests : PublishRequest(r)
    BY <1>1 DEF Publishing
  <2>1. /\ UNCHANGED <<conn, phase, failures, h3, peer>>
        /\ status' = IF IsError(status) THEN status ELSE "Connecting"
    BY DEF PublishRequest, quicVars, setupVars, quietVars, budgetVars
  <2> QED BY <2>0, <2>1, <1>e, <1>h
<1>2. CASE Calling
  <2>0. Next
    BY <1>2 DEF Next
  <2>1. CASE Retry \/ AbortIgnored
    BY <2>0, <2>1, <1>x DEF Retry, AbortIgnored, Call, netVars, stateVars, quicVars,
       setupVars
  <2>2. CASE Abort
    BY <2>0, <2>2, <1>e DEF Abort, Call, SetStatus, setupVars
  <2>3. CASE Reconnect
    BY <2>0, <2>3, <1>e, <1>h DEF Reconnect, Call, TransitionConnectionMigration,
       ReconnectFromScratch, SetStatus, quicVars, setupVars
  <2> QED
    BY <1>2, <2>0, <1>c, <2>1, <2>2, <2>3 DEF Calling, AbortWithoutConnection,
       ReconnectWithoutConnection
<1>3. CASE IssueCallbacks
  BY <1>3, <1>x DEF Next, IssueCallbacks, netVars, stateVars, quicVars, setupVars,
     budgetVars
<1>4. CASE Callbacks
  <2>0. Next
    BY <1>4 DEF Next
  <2>1. CASE CallSuccessCallback \/ SkipStream \/ CallbacksDone
    BY <2>0, <2>1, <1>x DEF CallSuccessCallback, SkipStream, CallbacksDone, netVars,
       stateVars, quicVars, setupVars, quietVars, budgetVars
  <2>2. CASE CallErrorCallback
    <3> DEFINE r == streams[cursor]
    <3>1. r \in Requests
      BY <2>2 DEF CallErrorCallback, InCallbacks
    <3>2. status' \in CriticalStatus /\ ~AllFine
      BY <2>2, <3>1 DEF CallErrorCallback, SetStatus, AllFine
    <3> QED
      BY <2>2, <3>2, <1>e DEF CallErrorCallback, SetStatus, quicVars, setupVars,
         budgetVars
  <2> QED BY <1>4, <2>0, <1>c, <2>1, <2>2 DEF Callbacks, RetryStreamAtOnce
<1>5. CASE Sending
  <2>0. Next
    BY <1>5 DEF Next
  <2>1. CASE Send
    BY <2>0, <2>1, <1>x DEF Send, OnlyMoves, netVars, stateVars, quicVars, setupVars,
       quietVars, budgetVars
  <2>2. CASE SendToFails
    <3>1. failures' > 0 /\ UNCHANGED <<conn, h3, peer>>
      BY <2>2, <1>f DEF SendToFails, quicVars, setupVars
    <3>2. \/ status' = "Wait" /\ phase' = "ConnectionMigration"
          \/ status' = "ErrorSocket"
      BY <2>2 DEF SendToFails, BreakOff, TransitionConnectionMigration, SetStatus
    <3> QED BY <3>1, <3>2, <1>e
  <2>3. CASE QuicheSendFails
    <3>1. failures' > 0 /\ UNCHANGED <<conn, h3, peer>>
      BY <2>3, <1>f DEF QuicheSendFails, quicVars, setupVars
    <3>2. \/ status' = "Wait" /\ phase' = "ConnectionMigration"
          \/ phase' = phase /\ (status' = status \/ status' \in ErrorStatus)
      BY <2>3, <1>q DEF QuicheSendFails, BreakOff, TransitionConnectionMigration, SetStatus
    <3> QED BY <3>1, <3>2, <1>e
  <2> QED BY <1>5, <2>1, <2>2, <2>3 DEF Sending
<1>6. CASE Receiving
  <2>0. Next
    BY <1>6 DEF Next
  <2>1. CASE Receive
    BY <2>0, <2>1, <1>x DEF Receive, OnlyMoves, netVars, stateVars, quicVars, setupVars,
       quietVars, budgetVars
  <2>2. CASE ReceiveEstablished
    BY <2>0, <2>2, <1>x DEF ReceiveEstablished, stateVars, quietVars, budgetVars
  <2>3. CASE ReceiveClose
    BY <2>3, <1>f DEF ReceiveClose, stateVars, setupVars
  <2>4. CASE RecvFromFails
    <3>1. failures' > 0 /\ UNCHANGED <<conn, h3, peer>>
      BY <2>4, <1>f DEF RecvFromFails, quicVars, setupVars
    <3>2. \/ status' = "Wait" /\ phase' = "ConnectionMigration"
          \/ status' = "ErrorSocket"
      BY <2>4 DEF RecvFromFails, BreakOff, TransitionConnectionMigration, SetStatus
    <3> QED BY <3>1, <3>2, <1>e
  <2>5. CASE QuicheRecvFails
    <3>1. failures' > 0 /\ conn' # "open" /\ UNCHANGED <<h3, peer>>
      BY <2>5, <1>f DEF QuicheRecvFails, setupVars
    <3>2. status' = "Wait" \/ status' = status \/ status' \in ErrorStatus
      BY <2>5, <1>q DEF QuicheRecvFails, BreakOff, TransitionConnectionMigration, SetStatus
    <3> QED BY <3>1, <3>2, <1>e
  <2> QED
    BY <1>6, <2>0, <1>c, <2>1, <2>2, <2>3, <2>4, <2>5
       DEF Receiving, RecvFromFailsWithoutConnection
<1>7. CASE Connecting
  <2>0. Next
    BY <1>7 DEF Next
  <2>1. CASE UpdatePhaseCreateSocket
    <3>1. /\ phase' \in {"CreateSocket", "Initialize"} /\ conn' = "null"
          /\ \/ status' = "Wait" /\ UNCHANGED failures
             \/ status' \in ErrorStatus /\ failures' > 0
      BY <2>1, <1>e, <1>f DEF UpdatePhaseCreateSocket, InPhase, CreateUdpSocket, SetStatus
    <3>2. peer'.asked = NothingAsked
      BY <2>1 DEF UpdatePhaseCreateSocket
    <3> QED BY <2>0, <3>1, <3>2, <1>e, <1>h
  <2>2. CASE UpdatePhaseInitialize
    <3>1. /\ peer'.asked = NothingAsked /\ conn' \in {"null", "open"}
          /\ \/ failures' > 0 /\ status' \in ErrorStatus /\ phase' \in {"Wait", "Initialize"}
             \/ UNCHANGED <<failures, status>> /\ phase' = "Handshake"
      BY <2>2, <1>e, <1>f DEF UpdatePhaseInitialize, InPhase, SetStatus
    <3> QED BY <2>0, <3>1, <1>e, <1>h
  <2>3. CASE StartEarlyData
    BY <2>0, <2>3, <1>f, <1>h DEF StartEarlyData, InPhase, stateVars
  <2>4. CASE SkipEarlyData \/ AwaitEstablished
    BY <2>0, <2>4, <1>x DEF SkipEarlyData, AwaitEstablished, OnlyMoves, netVars, stateVars,
       quicVars, setupVars, quietVars, budgetVars
  <2>5. CASE FinishHandshake
    BY <2>0, <2>5, <1>e, <1>f, <1>h DEF FinishHandshake, SetStatus
  <2> QED
    BY <1>7, <2>0, <1>c, <2>1, <2>2, <2>3, <2>4, <2>5
       DEF Connecting, InitializeWithoutAddress
<1>8. CASE Waiting
  <2>0. Next
    BY <1>8 DEF Next
  <2>1. CASE StartRetry
    BY <2>0, <2>1, <1>e, <1>h DEF StartRetry, InPhase, SetStatus, quicVars, setupVars,
       quietVars, budgetVars
  <2>2. CASE AwaitRetry
    BY <2>0, <2>2, <1>x DEF AwaitRetry, OnlyMoves, netVars, stateVars, quicVars, setupVars,
       quietVars, budgetVars
  <2>3. CASE StartPolling
    BY <2>0, <2>3, <1>c, <1>x DEF StartPolling, OnlyMoves, netVars, stateVars,
       quicVars, setupVars, quietVars, budgetVars
  <2> QED BY <1>8, <2>1, <2>2, <2>3 DEF Waiting
<1>9. CASE Polling
  <2>0. Next
    BY <1>9 DEF Next
  <2>1. CASE PollDone
    BY <2>0, <2>1, <1>x DEF PollDone, OnlyMoves, netVars, stateVars, quicVars, setupVars,
       quietVars, budgetVars
  <2>2. ASSUME NEW id \in StreamIds, PollFinished(id) PROVE CalmInv'
    BY <2>0, <2>2, <1>h, <1>p DEF PollFinished, Event, stateVars, setupVars,
       quietVars, budgetVars
  <2>3. ASSUME NEW id \in StreamIds, PollResponse(id) PROVE CalmInv'
    BY <2>0, <2>3, <1>f, <1>h DEF PollResponse, netVars, stateVars, quicVars, setupVars
  <2>4. ASSUME NEW id \in StreamIds, PollReset(id) PROVE CalmInv'
    BY <2>0, <2>4, <1>f, <1>p DEF PollReset, Event, setupVars
  <2>5. ASSUME NEW id \in StreamIds, PollGoAway(id) PROVE CalmInv'
    BY <2>0, <2>5, <1>f DEF PollGoAway, netVars, stateVars, quicVars, setupVars
  <2> QED BY <1>9, <2>0, <1>c, <2>1, <2>2, <2>3, <2>4, <2>5 DEF Polling, PollInvalidStream
<1>10. CASE Starting
  <2>0. Next
    BY <1>10 DEF Next
  <2>l. ASSUME LeaveLoop, at = "start", UNCHANGED <<conn, h3, peer>>,
               UNCHANGED failures \/ failures' > 0
        PROVE  CalmInv'
    BY <2>0, <2>l, <1>e, <1>h, <1>p DEF LeaveLoop, NoErrorToForget
  <2>1. CASE StartStream
    BY <2>0, <2>1, <1>e, <1>h, <1>p DEF StartStream, CanStart, setupVars, quietVars,
       budgetVars
  <2>2. CASE StartStreamFails
    BY <2>0, <2>2, <2>l, <1>e, <1>f DEF StartStreamFails, CanStart, FailToStart, SetStatus,
       quicVars, setupVars
  <2>3. CASE StartDone
    BY <2>3, <2>l DEF StartDone, quicVars, setupVars, quietVars, budgetVars
  <2> QED BY <1>10, <2>1, <2>2, <2>3 DEF Starting
<1>11. CASE ShuttingDown
  <2>0. Next
    BY <1>11 DEF Next
  <2>1. CASE UpdatePhaseStartShutdown
    BY <2>0, <2>1 DEF UpdatePhaseStartShutdown, InPhase, SetStatus, quicVars,
       setupVars, quietVars, budgetVars
  <2>2. CASE UpdatePhaseWaitShutdown
    BY <2>0, <2>2, <1>c, <1>e, <1>p DEF UpdatePhaseWaitShutdown, InPhase, FinishAbort,
       ParkRequests, SetStatus, stateVars, quicVars, setupVars, quietVars, budgetVars
  <2> QED BY <1>11, <2>1, <2>2 DEF ShuttingDown
<1>12. CASE Migrating
  <2>0. Next /\ phase = "ConnectionMigration"
    BY <1>12 DEF Next, Migrating, AwaitResolution, Migrate, MigrateRefused,
       MigrateWithoutAddress, InPhase
  <2>1. CASE AwaitResolution
    <3>1. PICK open \in BOOLEAN, error \in SocketErrors :
            CreateUdpSocket(open, error) /\ Unresolved(error)
      BY <2>1 DEF AwaitResolution
    <3>2. ~Untroubled'
      BY <3>1, <1>e, <1>f DEF CreateUdpSocket, Unresolved
    <3> QED
      BY <2>0, <2>1, <3>2, <1>e DEF AwaitResolution, MigrationTimeout, Timeout,
         SetStatus, setupVars
  <2>2. CASE Migrate
    <3>1. PICK error \in SocketErrors :
            /\ CreateUdpSocket(TRUE, error) /\ phase' = "Wait"
            /\ status' = IF error = "none" THEN status ELSE error
      BY <2>2 DEF Migrate, SetStatus
    <3>2. \/ error = "none" /\ UNCHANGED failures
          \/ error \in ErrorStatus /\ failures' > 0
      BY <3>1, <1>e, <1>f DEF CreateUdpSocket
    <3> QED
      BY <2>0, <2>2, <3>1, <3>2, <1>e, <1>h DEF Migrate, quicVars, setupVars
  <2>3. CASE MigrateRefused
    BY <2>0, <2>3, <1>e, <1>f DEF MigrateRefused, SetStatus, quicVars, setupVars
  <2> QED BY <1>12, <2>0, <1>c, <2>1, <2>2, <2>3 DEF Migrating, MigrateWithoutAddress
<1>13. CASE Checking
  <2>0. Next
    BY <1>13 DEF Next
  <2>1. CASE CheckConnectionClosed
    BY <2>0, <2>1, <1>e DEF CheckConnectionClosed, MustClose, SetStatus, quicVars, setupVars,
       quietVars, budgetVars
  <2>2. CASE CheckConnectionTimeout
    BY <2>0, <2>2, <1>e, <1>f DEF CheckConnectionTimeout, SetStatus, stateVars, setupVars
  <2>3. CASE CheckDone
    BY <2>0, <2>3, <1>x DEF CheckDone, OnlyMoves, netVars, stateVars, quicVars, setupVars,
       quietVars, budgetVars
  <2> QED BY <1>13, <2>1, <2>2, <2>3 DEF Checking
<1>14. CASE Crashed
  BY <1>14, <1>x DEF Next, Crashed, vars, netVars, stateVars, quicVars, setupVars,
     quietVars, budgetVars
<1>15. CASE UNCHANGED vars
  BY <1>15 DEF AllFine, vars, netVars, stateVars, quicVars, setupVars, appVars, requestVars,
     quietVars, budgetVars
<1> QED
  BY <1>1, <1>2, <1>3, <1>4, <1>5, <1>6, <1>7, <1>8, <1>9, <1>10, <1>11, <1>12,
     <1>13, <1>14, <1>15 DEF Next

-----------------------------------------------------------------------------
(* The map                                                                 *)

(* An id has an entry with a pointer; the Stream there can take an event   *)
(* of that id: it has the connection's handle, and the id.                 *)
Mapped(id) == streamsMap[id] \in Requests
Intact(id) ==
  stream[streamsMap[id]].handle = "current" /\ stream[streamsMap[id]].id = id

(* No event will come before the map is emptied: Update is in a shutdown,  *)
(* or parked after one, or about to leave it by Retry.                     *)
DeadEnd ==
  /\ at \notin {"poll", "start"}
  /\ \/ phase \in ShutdownPhases
     \/ phase = "Wait" /\ IsError(status) /\ conn # "open"
     \/ phase = "Initialize" /\ conn # "open"

(* The map has no pointer, as after UpdatePhaseWaitShutdown and Abort.     *)
NoneMapped == \A id \in StreamIds : ~Mapped(id)

(* Every pointer of the map is to a started request.                       *)
MapsStarted ==
  \A id \in StreamIds : Mapped(id) => streamsMap[id] \in ToSet(streams)

(* No two ids point to the same request.                                   *)
MapsOnce ==
  \A i, j \in StreamIds : Mapped(i) /\ streamsMap[i] = streamsMap[j] => i = j

(* A finished Stream still has the id it was entered with, by which its    *)
(* delivery removes the entry; Stream::Clear, which resets that id, comes  *)
(* with failures.                                                          *)
KnowsId ==
  \A id \in StreamIds :
    Mapped(id) /\ (stream[streamsMap[id]].status = "Completed" \/ Untroubled)
      => stream[streamsMap[id]].id = id

(* Ids the connection has not opened yet have no entry and no request.     *)
FreshIds ==
  \A id \in StreamIds : id >= peer.next => ~Mapped(id) /\ peer.asked[id] = Absent

(* The Stream of an id the server was asked on can take the answer.        *)
AskedIntact ==
  \A id \in StreamIds : Mapped(id) /\ peer.asked[id] # Absent => Intact(id)

(* The inductive invariant. Its last part ends with a shutdown, which      *)
(* detaches Streams from the connection and leaves their entries.          *)
MapInv ==
  /\ MapsStarted /\ MapsOnce /\ KnowsId /\ EventsReachOwner /\ FreshIds
  /\ AskedIntact \/ DeadEnd

(* The initial state satisfies it.                                         *)
LEMMA InitialMap == Init => MapInv /\ fault # "Stream::EventData"
BY ConnectionAssumption DEF Init, MapInv, MapsStarted, MapsOnce, KnowsId, EventsReachOwner,
   FreshIds, AskedIntact, Mapped, Unmapped, NothingAsked

(* A step that touches neither map nor Streams keeps it,                   *)
LEMMA MapUnchanged ==
  ASSUME MapInv, UNCHANGED <<streamsMap, streams, stream, peer>>,
         DeadEnd => DeadEnd', Untroubled' => Untroubled
  PROVE  MapInv'
BY DEF MapInv, MapsStarted, MapsOnce, KnowsId, EventsReachOwner, FreshIds, AskedIntact,
   Mapped, Unmapped, Intact

(* and so does one that empties the map.                                   *)
LEMMA MapEmptied ==
  ASSUME StreamsOK, MapInv, NoneMapped', StreamsOK', peer' = peer \/ peer'.asked = NothingAsked
  PROVE  MapInv'
<1>1. \A id \in StreamIds : streamsMap'[id] \in {Absent, Null}
  BY DEF StreamsOK, NoneMapped, Mapped
<1>2. FreshIds'
  BY DEF MapInv, FreshIds, NothingAsked, NoneMapped
<1> QED
  BY <1>1, <1>2 DEF NoneMapped, MapInv, MapsStarted, MapsOnce, KnowsId, EventsReachOwner,
     AskedIntact, Mapped, Unmapped

(* While Update polls or starts requests it is not in a dead end.          *)
LEMMA LivePolling ==
  ASSUME MapInv, at \in {"poll", "start"}
  PROVE  AskedIntact
BY DEF MapInv, DeadEnd

(* The success callback destroys the Stream and removes its own entry: the *)
(* id is known, and no second entry points to the Stream.                  *)
LEMMA DeliveryMap ==
  ASSUME ListsInv, MapInv, CallSuccessCallback
  PROVE  MapInv'
<1> DEFINE r == streams[cursor]
           old == stream[r].id
<1>0. /\ streams \in Seq(Requests) /\ stock \in Seq(Requests)
      /\ errorStock \in Seq(Requests) /\ cursor \in Nat \ {0}
      /\ streamsMap \in [StreamIds -> Requests \cup {Absent, Null}]
      /\ stream \in [Requests -> Streams]
      /\ Absent \notin Requests /\ Null \notin Requests
  BY ConnectionAssumption DEF ListsInv, TypeOK, QueuesOK, ControlOK, StreamsOK
<1>1. cursor \in 1 .. Len(streams)
  BY <1>0 DEF CallSuccessCallback, InCallbacks
<1>2. r \in Requests /\ stream[r].status = "Completed"
  BY <1>0, <1>1 DEF CallSuccessCallback
<1>3. ToSet(streams') = ToSet(streams) \ {r}
  <2>1. Partition(stock, streams, errorStock, Pending)
    BY <1>0, HeldPartition DEF ListsInv, RequestInOneList, Held
  <2> QED BY <1>0, <1>1, <2>1, Removal DEF CallSuccessCallback, Partition
<1>4. \A id \in StreamIds :
        streamsMap'[id] = IF id = old THEN Absent ELSE streamsMap[id]
  BY DEF CallSuccessCallback, Unmap
<1>5. \A x \in Requests \ {r} : stream'[x] = stream[x]
  <2> DEFINE left == [ClearedStream EXCEPT !.body = stream[r].body]
  <2>1. stream' = [stream EXCEPT ![r] = left]
    BY DEF CallSuccessCallback
  <2> HIDE DEF left, r
  <2> QED BY <1>0, <2>1
<1>6. UNCHANGED <<status, phase, conn, at, peer, failures>>
  BY DEF CallSuccessCallback, netVars, stateVars, quicVars, quietVars, budgetVars
<1> HIDE DEF r, old
<1>7. ASSUME NEW id \in StreamIds, Mapped(id)'
      PROVE  /\ Mapped(id) /\ streamsMap'[id] = streamsMap[id]
             /\ streamsMap[id] # r /\ stream'[streamsMap[id]] = stream[streamsMap[id]]
  <2>1. id # old /\ streamsMap'[id] = streamsMap[id] /\ Mapped(id)
    BY <1>0, <1>4, <1>7 DEF Mapped
  <2>2. streamsMap[id] # r
    BY <1>2, <2>1 DEF MapInv, KnowsId, old
  <2> QED BY <1>5, <2>1, <2>2 DEF Mapped
<1>8. MapsStarted' /\ MapsOnce'
  BY <1>3, <1>7 DEF MapInv, MapsStarted, MapsOnce, Mapped
<1>9. KnowsId'
  BY <1>6, <1>7 DEF MapInv, KnowsId, Untroubled, Mapped
<1>10. EventsReachOwner' /\ FreshIds'
  BY <1>0, <1>4, <1>6 DEF MapInv, EventsReachOwner, FreshIds, Mapped, Unmapped
<1>11. AskedIntact => AskedIntact'
  BY <1>6, <1>7 DEF AskedIntact, Intact, Mapped
<1>12. DeadEnd => DeadEnd'
  BY <1>6 DEF DeadEnd
<1> QED BY <1>8, <1>9, <1>10, <1>11, <1>12 DEF MapInv

(* Stream::Start enters a request under an id that has no entry.           *)
LEMMA StartMap ==
  ASSUME ListsInv, MapInv, StartStream
  PROVE  MapInv'
<1> DEFINE r == Head(stock)
           new == peer.next
<1>0. /\ streams \in Seq(Requests) /\ stock \in Seq(Requests)
      /\ errorStock \in Seq(Requests)
      /\ streamsMap \in [StreamIds -> Requests \cup {Absent, Null}]
      /\ stream \in [Requests -> Streams]
      /\ peer \in [next : 0 .. MaxStreams, asked : [StreamIds -> Requests \cup {Absent}]]
      /\ MaxStreams \in Nat \ {0}
      /\ Absent \notin Requests /\ Null \notin Requests
  BY ConnectionAssumption DEF ListsInv, TypeOK, QueuesOK, StreamsOK
<1>1. /\ r \in ToSet(stock) /\ r \in Requests
      /\ ToSet(streams') = ToSet(streams) \cup {r}
      /\ ToSet(stock) \cap ToSet(streams) = {}
  <2>1. Partition(stock, streams, errorStock, Pending)
    BY <1>0, HeldPartition DEF ListsInv, RequestInOneList, Held
  <2>2. stock # <<>> /\ streams' = Append(streams, r)
    BY DEF StartStream, CanStart
  <2>3. r \in Requests
    BY <1>0, <2>2
  <2> QED BY <1>0, <2>1, <2>2, <2>3, AppendTail DEF Partition
<1>2. new \in StreamIds
  BY <1>0 DEF StartStream, StreamIds
<1>3. ~Mapped(new) /\ peer.asked[new] = Absent /\ AskedIntact
  BY <1>0, <1>2, LivePolling DEF MapInv, FreshIds, StartStream, CanStart, Running
<1>4. \A id \in StreamIds :
        streamsMap'[id] = IF id = new /\ streamsMap[id] = Absent THEN r
                          ELSE streamsMap[id]
  BY <1>0, <1>2 DEF StartStream
<1>5. /\ peer'.next = new + 1
      /\ \A id \in StreamIds :
           peer'.asked[id] = IF id = new /\ conn = "open" THEN r ELSE peer.asked[id]
  BY <1>0, <1>2 DEF StartStream
<1>6. /\ \A x \in Requests \ {r} : stream'[x] = stream[x]
      /\ stream'[r].id = new /\ stream'[r].handle = "current"
      /\ stream'[r].status = stream[r].status
  BY <1>0, <1>1 DEF StartStream, Streams
<1>7. UNCHANGED <<phase, conn, at, failures>>
  BY DEF StartStream, quietVars, budgetVars
<1> HIDE DEF r, new
<1>8. ASSUME NEW id \in StreamIds, Mapped(id)'
      PROVE  \/ id = new /\ streamsMap'[id] = r
             \/ /\ id # new /\ Mapped(id) /\ streamsMap'[id] = streamsMap[id]
                /\ streamsMap[id] # r
                /\ stream'[streamsMap[id]] = stream[streamsMap[id]]
                /\ peer'.asked[id] = peer.asked[id]
  <2>1. CASE id = new
    BY <1>3, <1>4, <1>8, <2>1 DEF Mapped
  <2>2. CASE id # new
    <3>1. Mapped(id) /\ streamsMap'[id] = streamsMap[id]
      BY <1>4, <1>8, <2>2 DEF Mapped
    <3>2. streamsMap[id] # r
      BY <1>1, <3>1 DEF MapInv, MapsStarted
    <3> QED BY <1>5, <1>6, <2>2, <3>1, <3>2 DEF Mapped
  <2> QED BY <2>1, <2>2
<1>9. MapsStarted' /\ MapsOnce'
  BY <1>1, <1>8 DEF MapInv, MapsStarted, MapsOnce, Mapped
<1>10. KnowsId' /\ AskedIntact'
  BY <1>3, <1>6, <1>7, <1>8
     DEF MapInv, KnowsId, AskedIntact, Intact, Untroubled, Mapped
<1>11. EventsReachOwner'
  <2> SUFFICES ASSUME NEW id \in StreamIds, peer'.asked[id] # Absent, ~Unmapped(id)'
               PROVE  streamsMap'[id] = peer'.asked[id]
    BY DEF EventsReachOwner
  <2>1. streamsMap'[id] \in Requests
    BY <1>0, <1>1, <1>4 DEF Unmapped
  <2>2. CASE id = new
    BY <1>3, <1>5, <1>8, <2>1, <2>2 DEF Mapped
  <2>3. CASE id # new
    BY <1>0, <1>8, <2>1, <2>3 DEF Mapped, MapInv, EventsReachOwner, Unmapped
  <2> QED BY <2>2, <2>3
<1>12. FreshIds'
  <2> SUFFICES ASSUME NEW id \in StreamIds, id >= peer'.next
               PROVE  ~Mapped(id)' /\ peer'.asked[id] = Absent
    BY DEF FreshIds
  <2>1. id # new /\ id >= peer.next
    BY <1>0, <1>5 DEF StreamIds, new
  <2> QED BY <1>4, <1>5, <2>1 DEF Mapped, MapInv, FreshIds
<1> QED BY <1>9, <1>10, <1>11, <1>12 DEF MapInv

(* The events of a poll keep the map or empty one entry.                   *)
LEMMA PollMap ==
  ASSUME TypeOK, MapInv, NEW id \in StreamIds,
         PollFinished(id) \/ PollResponse(id) \/ PollReset(id) \/ PollGoAway(id)
  PROVE  MapInv'
<1>0. /\ streamsMap \in [StreamIds -> Requests \cup {Absent, Null}]
      /\ stream \in [Requests -> Streams]
      /\ peer \in [next : 0 .. MaxStreams, asked : [StreamIds -> Requests \cup {Absent}]]
      /\ Absent \notin Requests /\ Null \notin Requests
      /\ failures \in Nat
  BY ConnectionAssumption DEF TypeOK, StreamsOK, ControlOK
<1>1. AskedIntact
  BY LivePolling DEF PollFinished, PollResponse, PollReset, PollGoAway, Event, Running
<1>2. UNCHANGED streams /\ (Untroubled' => Untroubled)
  BY <1>0 DEF PollFinished, PollResponse, PollReset, PollGoAway, queueVars, stepVars,
     quietVars, budgetVars, Fail, Untroubled
<1>3. /\ peer'.next = peer.next
      /\ \A i \in StreamIds : peer'.asked[i] \in {peer.asked[i], Absent}
      /\ ~PollFinished(id) \/ peer.asked[id] # Absent
  BY <1>0 DEF PollFinished, PollResponse, PollReset, PollGoAway, Answered, Event, netVars,
     quicVars
<1>4. \A i \in StreamIds : \/ streamsMap'[i] = streamsMap[i]
                           \/ i = id /\ streamsMap'[i] = Null /\ Unmapped(i)
  <2>1. UNCHANGED streamsMap \/ (Unmapped(id) /\ DropEvent(id))
    BY DEF PollFinished, PollResponse, PollReset, PollGoAway
  <2> QED BY <1>0, <2>1 DEF DropEvent
<1>5. ASSUME NEW r \in Requests
      PROVE  /\ stream'[r].handle = stream[r].handle /\ stream'[r].id = stream[r].id
             /\ \/ stream'[r].status = stream[r].status
                \/ stream'[r].status # "Completed"
                \/ Mapped(id) /\ streamsMap[id] = r /\ PollFinished(id)
  <2>1. CASE UNCHANGED stream
    BY <2>1
  <2>2. CASE PollFinished(id) /\ ~Unmapped(id)
    BY <1>0, <2>2 DEF PollFinished, Streams, Mapped, Unmapped
  <2>3. CASE stream' = [stream EXCEPT ![streamsMap[id]].body = Extended(@)]
    BY <1>0, <2>3 DEF Streams
  <2>4. ASSUME NEW error \in BodyErrors,
               stream' = [stream EXCEPT ![streamsMap[id]].status =
                            ConvertQuicheH3ErrorToStatus(error, @)]
        PROVE  /\ stream'[r].handle = stream[r].handle /\ stream'[r].id = stream[r].id
               /\ \/ stream'[r].status = stream[r].status
                  \/ stream'[r].status # "Completed"
    <3> DEFINE s == streamsMap[id]
               t == ConvertQuicheH3ErrorToStatus(error, stream[s].status)
    <3>1. t = stream[s].status \/ t # "Completed"
      BY DEF ConvertQuicheH3ErrorToStatus
    <3>2. stream' = [stream EXCEPT ![s].status = t]
      BY <2>4
    <3> HIDE DEF s, t
    <3> QED BY <1>0, <3>1, <3>2 DEF Streams
  <2> QED
    BY <2>1, <2>2, <2>3, <2>4 DEF PollFinished, PollResponse, PollReset, PollGoAway,
       requestVars
<1>6. ASSUME NEW i \in StreamIds, Mapped(i)'
      PROVE  Mapped(i) /\ streamsMap'[i] = streamsMap[i]
  BY <1>0, <1>4, <1>6 DEF Mapped
<1>7. MapsStarted' /\ MapsOnce'
  BY <1>2, <1>6 DEF MapInv, MapsStarted, MapsOnce, Mapped
<1>8. AskedIntact'
  BY <1>1, <1>3, <1>5, <1>6 DEF AskedIntact, Intact, Mapped
<1>9. KnowsId'
  <2> SUFFICES ASSUME NEW i \in StreamIds, Mapped(i)',
                      stream'[streamsMap'[i]].status = "Completed" \/ Untroubled'
               PROVE  stream'[streamsMap'[i]].id = i
    BY DEF KnowsId
  <2> DEFINE r == streamsMap[i]
  <2>1. Mapped(i) /\ streamsMap'[i] = r /\ r \in Requests
    BY <1>6 DEF Mapped
  <2> HIDE DEF r
  <2>2. CASE Mapped(id) /\ streamsMap[id] = r /\ PollFinished(id)
    <3>1. id = i
      BY <2>1, <2>2 DEF MapInv, MapsOnce, r
    <3>2. Intact(i)
      BY <1>1, <1>3, <2>2, <3>1 DEF AskedIntact
    <3> QED BY <1>5, <2>1, <3>2 DEF Intact, r
  <2>3. CASE stream'[r].status = stream[r].status \/ Untroubled'
    BY <1>2, <1>5, <2>1, <2>3 DEF MapInv, KnowsId, r
  <2> QED BY <1>5, <2>1, <2>2, <2>3
<1>10. EventsReachOwner'
  <2> SUFFICES ASSUME NEW i \in StreamIds, peer'.asked[i] # Absent, ~Unmapped(i)'
               PROVE  streamsMap'[i] = peer'.asked[i]
    BY DEF EventsReachOwner
  <2>1. streamsMap'[i] = streamsMap[i] /\ ~Unmapped(i)
    BY <1>4 DEF Unmapped
  <2>2. peer'.asked[i] = peer.asked[i]
    BY <1>3
  <2> QED BY <2>1, <2>2 DEF MapInv, EventsReachOwner
<1>11. FreshIds'
  BY <1>3, <1>6 DEF MapInv, FreshIds
<1> QED BY <1>7, <1>8, <1>9, <1>10, <1>11 DEF MapInv

(* No event finds a Stream that is destroyed or detached.                  *)
LEMMA NoStrayEvent ==
  ASSUME ListsInv, MapInv, NEW id \in StreamIds, PollInvalidStream(id)
  PROVE  FALSE
<1>0. /\ streams \in Seq(Requests) /\ stock \in Seq(Requests)
      /\ errorStock \in Seq(Requests)
      /\ streamsMap \in [StreamIds -> Requests \cup {Absent, Null}]
  BY DEF ListsInv, TypeOK, QueuesOK, StreamsOK
<1>1. Mapped(id) /\ peer.asked[id] # Absent /\ AskedIntact
  BY <1>0, LivePolling DEF PollInvalidStream, Event, Running, Mapped, Unmapped
<1>2. ToSet(streams) \subseteq Pending
  <2>1. Partition(stock, streams, errorStock, Pending)
    BY <1>0, HeldPartition DEF ListsInv, RequestInOneList, Held
  <2> QED BY <2>1 DEF Partition
<1>3. outcome[streamsMap[id]] = "pending"
  BY <1>1, <1>2 DEF MapInv, MapsStarted, Pending
<1> QED BY <1>1, <1>3 DEF PollInvalidStream, Destroyed, AskedIntact, Intact

(* Only an event for a Stream that cannot take it faults in EventData.     *)
LEMMA FaultSteps ==
  ASSUME Next, fault # "Stream::EventData"
  PROVE  \/ fault' # "Stream::EventData"
         \/ \E id \in StreamIds : PollInvalidStream(id)
<1> USE DEF Crash, OnlyMoves, budgetVars, quietVars, stepVars
<1>1. CASE Publishing
  BY <1>1 DEF Publishing, PublishRequest
<1>2. CASE Calling
  BY <1>2 DEF Calling, Retry, Abort, AbortWithoutConnection, AbortIgnored, Reconnect,
     ReconnectWithoutConnection
<1>3. CASE IssueCallbacks
  BY <1>3 DEF IssueCallbacks
<1>4. CASE Callbacks
  BY <1>4 DEF Callbacks, CallSuccessCallback, CallErrorCallback, RetryStreamAtOnce,
     SkipStream, CallbacksDone
<1>5. CASE Sending
  BY <1>5 DEF Sending, Send, SendToFails, QuicheSendFails
<1>6. CASE Receiving
  BY <1>6 DEF Receiving, Receive, ReceiveEstablished, ReceiveClose, RecvFromFails,
     RecvFromFailsWithoutConnection, QuicheRecvFails
<1>7. CASE Connecting
  BY <1>7 DEF Connecting, UpdatePhaseCreateSocket, UpdatePhaseInitialize,
     InitializeWithoutAddress, StartEarlyData, SkipEarlyData, AwaitEstablished,
     FinishHandshake
<1>8. CASE Waiting
  BY <1>8 DEF Waiting, StartRetry, AwaitRetry, StartPolling
<1>9. CASE Polling
  BY <1>9 DEF Polling, PollFinished, PollResponse, PollReset, PollGoAway, PollDone
<1>10. CASE Starting
  BY <1>10 DEF Starting, StartStream, StartStreamFails, StartDone
<1>11. CASE ShuttingDown
  BY <1>11 DEF ShuttingDown, UpdatePhaseStartShutdown, UpdatePhaseWaitShutdown
<1>12. CASE Migrating
  BY <1>12 DEF Migrating, AwaitResolution, Migrate, MigrateRefused,
     MigrateWithoutAddress
<1>13. CASE Checking
  BY <1>13 DEF Checking, CheckConnectionClosed, CheckConnectionTimeout, CheckDone
<1>14. CASE Crashed
  BY <1>14 DEF Crashed, vars
<1> QED
  BY <1>1, <1>2, <1>3, <1>4, <1>5, <1>6, <1>7, <1>8, <1>9, <1>10, <1>11,
     <1>12, <1>13, <1>14 DEF Next

(* Every step keeps the invariant, one case per action.                    *)
LEMMA MapStep ==
  ASSUME MapScope, ListsInv, PhaseInv, CalmInv, MapInv, Next, TypeOK'
  PROVE  MapInv'
<1> USE DEF Running
<1>0. /\ failures \in 0 .. MaxFailures /\ MaxFailures \in Nat /\ TypeOK
      /\ conn \in ConnStates /\ phase \in Phases /\ status \in QwfsStatus
      /\ streams \in Seq(Requests) /\ stock \in Seq(Requests)
      /\ errorStock \in Seq(Requests)
      /\ streamsMap \in [StreamIds -> Requests \cup {Absent, Null}]
      /\ stream \in [Requests -> Streams]
      /\ peer \in [next : 0 .. MaxStreams, asked : [StreamIds -> Requests \cup {Absent}]]
      /\ Absent \notin Requests /\ Null \notin Requests
      /\ StreamsOK /\ StreamsOK'
  BY ConnectionAssumption DEF ListsInv, TypeOK, ControlOK, HandlesOK, QueuesOK, StreamsOK
<1>p. /\ at \in {"poll", "start"} => h3 # "null"
      /\ at = "established" => phase = "Handshake"
      /\ callAbort => streams = <<>>
      /\ phase = "CreateSocket" => streams = <<>>
      /\ h3 = "null" => streams = <<>>
      /\ h3 = "null" => peer.asked = NothingAsked
      /\ status # "Completed"
  BY DEF PhaseInv, AbortShutsDown, CalmInv
<1>e. /\ {"ErrorSocket", "ErrorResolveHost", "CriticalErrorQuiche", "ErrorFileIO",
           "ErrorTimeout", "ErrorConnectionMigration", "ErrorConnectionClose"}
             \subseteq ErrorStatus
      /\ CriticalStatus \subseteq ErrorStatus
      /\ {"Wait", "Connecting", "Completed", "Aborting"} \cap ErrorStatus = {}
  BY DEF ErrorStatus, CriticalStatus, OrdinaryErrorStatus
<1>q. ASSUME NEW error
      PROVE  LET s == ConvertQuicheErrorToStatus(error, status)
             IN  (error = "FLOW_CONTROL" /\ s = status) \/ s \in ErrorStatus
  BY DEF ConvertQuicheErrorToStatus, ErrorStatus, CriticalStatus, OrdinaryErrorStatus
<1>f. ASSUME NEW kind, Fail(kind)
      PROVE  failures' > 0 /\ kind \in Failures /\ failures < MaxFailures
  BY <1>0, <1>f DEF Fail
<1>x. ASSUME UNCHANGED <<streamsMap, streams, stream, peer>>, DeadEnd => DeadEnd',
             UNCHANGED failures \/ failures' > 0
      PROVE  MapInv'
  BY <1>x, MapUnchanged DEF Untroubled
<1>y. ASSUME streams = <<>>, UNCHANGED streamsMap,
             peer' = peer \/ peer'.asked = NothingAsked
      PROVE  MapInv'
  <2>1. NoneMapped
    BY <1>y DEF MapInv, MapsStarted, NoneMapped, ToSet
  <2>2. NoneMapped'
    BY <1>y, <2>1 DEF NoneMapped, Mapped
  <2> QED BY <1>0, <1>y, <2>2, MapEmptied
<1>z. ASSUME streamsMap' = Unmap(StreamIds), UNCHANGED peer
      PROVE  MapInv'
  <2>1. NoneMapped'
    BY <1>0, <1>z DEF Unmap, NoneMapped, Mapped
  <2> QED BY <1>0, <1>z, <2>1, MapEmptied
<1>c. ASSUME NEW site, Crash(site)
      PROVE  MapInv'
  BY <1>c, <1>x DEF Crash, netVars, stateVars, quicVars, appVars, listVars, queueVars,
     requestVars, DeadEnd
<1>m. ASSUME ActiveMigration \/ "Reconnect" \in Calls, conn # "null",
             failures < MaxFailures \/ "Reconnect" \in Calls
      PROVE  Untroubled /\ conn = "open" /\ ~DeadEnd
  <2>1. Untroubled
    BY <1>0, <1>m DEF MapScope, Untroubled
  <2> QED BY <1>m, <2>1 DEF CalmInv, DeadEnd
<1>b. ASSUME NEW spare, NEW s, NEW p, BreakOff(spare, s, p), conn # "null",
             DeadEnd => \/ p = "StartShutdown"
                        \/ p = phase /\ UNCHANGED conn /\ (s = status \/ IsError(s)),
             UNCHANGED <<streamsMap, streams, stream, peer>>,
             failures < MaxFailures, failures' > 0
      PROVE  MapInv'
  <2>1. CASE IsEnabledConnectionMigration(spare)
    BY <1>b, <1>m, <1>x, <2>1 DEF IsEnabledConnectionMigration
  <2>2. CASE ~IsEnabledConnectionMigration(spare)
    <3>1. at' = "idle" /\ status' = s /\ phase' = p
      BY <1>b, <2>2 DEF BreakOff, SetStatus
    <3> QED BY <1>b, <1>x, <3>1 DEF DeadEnd, ShutdownPhases
  <2> QED BY <2>1, <2>2
<1>1. CASE Publishing
  BY <1>1, <1>x DEF Publishing, PublishRequest, quicVars, quietVars, budgetVars, DeadEnd
<1>2. CASE Calling
  <2>1. CASE Retry \/ AbortIgnored
    BY <2>1, <1>x DEF Retry, AbortIgnored, Call, netVars, stateVars, quicVars, appVars,
       listVars, queueVars, requestVars, DeadEnd
  <2>2. CASE Abort
    BY <2>2, <1>z DEF Abort
  <2>3. CASE Reconnect
    <3>1. Untroubled /\ ~DeadEnd
      BY <2>3, <1>m DEF Reconnect, Call
    <3>2. UNCHANGED <<peer, stream, failures>>
      BY <2>3 DEF Reconnect, quicVars, requestVars
    <3>3. CASE UNCHANGED listVars
      BY <1>x, <3>1, <3>2, <3>3 DEF listVars, queueVars
    <3>4. CASE ReconnectFromScratch
      <4>1. \A id \in StreamIds : ~Mapped(id)'
        <5> SUFFICES ASSUME NEW id \in StreamIds, Mapped(id)' PROVE FALSE
          OBVIOUS
        <5>1. /\ id \notin {stream[r].id : r \in ToSet(streams)}
              /\ Mapped(id)
          BY <1>0, <3>4 DEF ReconnectFromScratch, Unmap, Mapped
        <5>2. streamsMap[id] \in ToSet(streams) /\ stream[streamsMap[id]].id = id
          BY <3>1, <5>1 DEF MapInv, MapsStarted, KnowsId
        <5> QED BY <5>1, <5>2
      <4> QED BY <1>0, <3>2, <4>1, MapEmptied DEF NoneMapped
    <3> QED BY <2>3, <3>3, <3>4 DEF Reconnect
  <2> QED
    BY <1>2, <1>c, <2>1, <2>2, <2>3 DEF Calling, AbortWithoutConnection,
       ReconnectWithoutConnection
<1>3. CASE IssueCallbacks
  BY <1>3, <1>x DEF IssueCallbacks, netVars, stateVars, quicVars, appVars, listVars,
     queueVars, requestVars, budgetVars, DeadEnd
<1>4. CASE Callbacks
  <2>1. CASE CallSuccessCallback
    BY <2>1, DeliveryMap
  <2>2. CASE CallErrorCallback
    BY <2>2, <1>x DEF CallErrorCallback, InCallbacks, SetStatus, quicVars, appVars, listVars,
       queueVars, requestVars, budgetVars, DeadEnd, ShutdownPhases
  <2>3. CASE SkipStream \/ CallbacksDone
    BY <2>3, <1>x DEF SkipStream, CallbacksDone, netVars, stateVars, quicVars, appVars,
       listVars, queueVars, requestVars, budgetVars, DeadEnd
  <2> QED BY <1>4, <1>c, <2>1, <2>2, <2>3 DEF Callbacks, RetryStreamAtOnce
<1>5. CASE Sending
  <2> USE DEF quicVars, appVars, listVars, queueVars, requestVars
  <2>1. CASE Send
    BY <2>1, <1>x DEF Send, OnlyMoves, netVars, stateVars, quietVars, budgetVars, DeadEnd
  <2>2. CASE SendToFails
    <3>1. PICK spare \in BOOLEAN : BreakOff(spare, "ErrorSocket", "StartShutdown")
      BY <2>2 DEF SendToFails
    <3>2. conn # "null" /\ failures < MaxFailures /\ failures' > 0
      BY <2>2, <1>f DEF SendToFails, CanSend
    <3> QED BY <2>2, <1>b, <3>1, <3>2 DEF SendToFails
  <2>3. CASE QuicheSendFails
    <3>1. PICK error \in TransportErrors, spare \in BOOLEAN :
            LET s == ConvertQuicheErrorToStatus(error, status)
            IN  \/ /\ SetStatus(s, phase) /\ at' = "receive"
                \/ BreakOff(spare, s, phase)
      BY <2>3 DEF QuicheSendFails
    <3>2. conn # "null" /\ failures < MaxFailures /\ failures' > 0
      BY <2>3, <1>f DEF QuicheSendFails, CanSend
    <3>3. UNCHANGED <<streamsMap, streams, stream, peer, conn>>
      BY <2>3 DEF QuicheSendFails
    <3> DEFINE s == ConvertQuicheErrorToStatus(error, status)
    <3>4. s = status \/ IsError(s)
      BY <1>q DEF IsError
    <3> HIDE DEF s
    <3>5. CASE SetStatus(s, phase) /\ at' = "receive"
      BY <1>x, <3>2, <3>3, <3>4, <3>5 DEF SetStatus, DeadEnd
    <3>6. CASE BreakOff(spare, s, phase)
      BY <1>b, <3>2, <3>3, <3>4, <3>6
    <3> QED BY <3>1, <3>5, <3>6 DEF s
  <2> QED BY <1>5, <2>1, <2>2, <2>3 DEF Sending
<1>6. CASE Receiving
  <2> USE DEF appVars, listVars, queueVars, requestVars
  <2>1. CASE Receive
    BY <2>1, <1>x DEF Receive, OnlyMoves, netVars, stateVars, quicVars, quietVars,
       budgetVars, DeadEnd
  <2>2. CASE ReceiveEstablished
    BY <2>2, <1>x DEF ReceiveEstablished, stateVars, quietVars, budgetVars, DeadEnd
  <2>3. CASE ReceiveClose
    BY <2>3, <1>x, <1>f DEF ReceiveClose, stateVars, DeadEnd
  <2>4. CASE RecvFromFails
    <3>1. PICK spare \in BOOLEAN : BreakOff(spare, "ErrorSocket", "StartShutdown")
      BY <2>4 DEF RecvFromFails
    <3>2. conn # "null" /\ failures < MaxFailures /\ failures' > 0
      BY <2>4, <1>f DEF RecvFromFails
    <3> QED BY <2>4, <1>b, <3>1, <3>2 DEF RecvFromFails, quicVars
  <2>5. CASE QuicheRecvFails
    <3>1. PICK error \in TransportErrors, spare \in BOOLEAN :
            LET s == ConvertQuicheErrorToStatus(error, status)
                p == IF s = "ErrorTls" THEN "StartShutdown" ELSE "Wait"
            IN  \/ SetStatus(s, p) /\ at' = "phase"
                \/ BreakOff(spare, s, p)
      BY <2>5 DEF QuicheRecvFails
    <3> DEFINE s == ConvertQuicheErrorToStatus(error, status)
               p == IF s = "ErrorTls" THEN "StartShutdown" ELSE "Wait"
    <3>2. /\ conn = "open" /\ conn' # "open" /\ failures < MaxFailures /\ failures' > 0
          /\ "recvQuiche" \in Failures
          /\ UNCHANGED <<streamsMap, streams, stream, peer>>
      BY <2>5, <1>f DEF QuicheRecvFails
    <3>3. DeadEnd => p = "StartShutdown" \/ (p = "Wait" /\ IsError(s))
      <4> SUFFICES ASSUME DeadEnd, ~IsError(s) PROVE FALSE
        OBVIOUS
      <4>1. error = "FLOW_CONTROL" /\ ~IsError(status)
        BY <1>q DEF IsError
      <4>2. phase \in ShutdownPhases
        BY <3>2 DEF DeadEnd
      <4>3. "streamReset" \in Failures /\ failures > 0
        BY <3>2, <4>1, <4>2 DEF CalmInv
      <4> QED BY <1>0, <3>2, <4>1, <4>3 DEF MapScope
    <3>4. CASE SetStatus(s, p) /\ at' = "phase"
      BY <1>x, <3>2, <3>3, <3>4 DEF SetStatus, DeadEnd, ShutdownPhases
    <3>5. CASE BreakOff(spare, s, p) /\ IsEnabledConnectionMigration(spare)
      BY <1>m, <1>x, <3>2, <3>5 DEF IsEnabledConnectionMigration
    <3>6. CASE BreakOff(spare, s, p) /\ ~IsEnabledConnectionMigration(spare)
      <4>1. at' = "idle" /\ status' = s /\ phase' = p
        BY <3>6 DEF BreakOff, SetStatus
      <4> QED BY <1>x, <3>2, <3>3, <4>1 DEF DeadEnd, ShutdownPhases
    <3> QED BY <3>1, <3>4, <3>5, <3>6
  <2> QED
    BY <1>6, <1>c, <2>1, <2>2, <2>3, <2>4, <2>5
       DEF Receiving, RecvFromFailsWithoutConnection
<1>7. CASE Connecting
  <2> USE DEF appVars, listVars, queueVars, requestVars
  <2>1. CASE UpdatePhaseCreateSocket
    BY <2>1, <1>p, <1>y DEF UpdatePhaseCreateSocket, InPhase
  <2>2. CASE UpdatePhaseInitialize
    <3>1. /\ UNCHANGED <<streamsMap, streams>>
          /\ peer' = [peer EXCEPT !.asked = NothingAsked]
          /\ stream' = Detached
          /\ UNCHANGED failures \/ failures' > 0
      BY <2>2, <1>f DEF UpdatePhaseInitialize
    <3>2. peer'.next = peer.next /\ peer'.asked = NothingAsked
      BY <1>0, <3>1
    <3>3. \A r \in Requests : /\ stream'[r].id = stream[r].id
                             /\ stream'[r].status = stream[r].status
      BY <1>0, <3>1 DEF Detached, Streams
    <3>4. MapsStarted' /\ MapsOnce'
      BY <3>1 DEF MapInv, MapsStarted, MapsOnce, Mapped
    <3>5. KnowsId'
      BY <3>1, <3>3 DEF MapInv, KnowsId, Mapped, Untroubled
    <3>6. EventsReachOwner' /\ AskedIntact' /\ FreshIds'
      BY <3>1, <3>2 DEF MapInv, FreshIds, EventsReachOwner, AskedIntact, Mapped, NothingAsked
    <3> QED BY <3>4, <3>5, <3>6 DEF MapInv
  <2>3. CASE StartEarlyData
    <3>1. h3 = "null" /\ UNCHANGED streamsMap
      BY <2>3 DEF StartEarlyData, IsEnabledZeroRtt
    <3>2. peer' = peer \/ peer' = [peer EXCEPT !.next = 0]
      BY <2>3 DEF StartEarlyData
    <3>3. peer'.asked = NothingAsked
      BY <1>0, <1>p, <3>1, <3>2
    <3> QED BY <1>p, <1>y, <3>1, <3>3
  <2>4. CASE SkipEarlyData \/ AwaitEstablished
    BY <2>4, <1>x, <1>p DEF SkipEarlyData, AwaitEstablished, InPhase, OnlyMoves, netVars,
       stateVars, quicVars, quietVars, budgetVars, DeadEnd, ShutdownPhases
  <2>5. CASE FinishHandshake
    <3>1. phase = "Handshake" /\ UNCHANGED <<streamsMap, streams, stream>>
      BY <2>5, <1>p DEF FinishHandshake
    <3>2. CASE h3 = "null"
      <4>1. peer' = peer \/ peer' = [peer EXCEPT !.next = 0]
        BY <2>5, <3>2 DEF FinishHandshake
      <4>2. peer'.asked = NothingAsked
        BY <1>0, <1>p, <3>2, <4>1
      <4> QED BY <1>p, <1>y, <3>1, <3>2, <4>2
    <3>3. CASE h3 # "null"
      BY <2>5, <1>x, <3>1, <3>3 DEF FinishHandshake, DeadEnd, ShutdownPhases
    <3> QED BY <3>2, <3>3
  <2> QED
    BY <1>7, <1>c, <2>1, <2>2, <2>3, <2>4, <2>5 DEF Connecting, InitializeWithoutAddress
<1>8. CASE Waiting
  <2>1. CASE StartRetry
    BY <2>1, <1>x DEF StartRetry, InPhase, SetStatus, quicVars, requestVars, quietVars,
       budgetVars, DeadEnd, ShutdownPhases
  <2>2. CASE AwaitRetry \/ StartPolling
    BY <2>2, <1>c, <1>x DEF AwaitRetry, StartPolling, InPhase, OnlyMoves, netVars, stateVars,
       quicVars, appVars, listVars, queueVars, requestVars, quietVars, budgetVars, DeadEnd,
       ShutdownPhases
  <2> QED BY <1>8, <2>1, <2>2 DEF Waiting
<1>9. CASE Polling
  <2>1. CASE PollDone
    BY <2>1, <1>x DEF PollDone, OnlyMoves, netVars, quicVars, appVars, listVars, queueVars,
       requestVars, quietVars, budgetVars, DeadEnd
  <2> QED BY <1>0, <1>9, <1>c, <2>1, PollMap DEF Polling, PollInvalidStream
<1>10. CASE Starting
  <2>1. CASE StartStream
    BY <2>1, StartMap
  <2>2. CASE StartStreamFails
    <3> DEFINE r == Head(stock)
    <3>1. /\ UNCHANGED <<streamsMap, streams, peer>> /\ failures' > 0
          /\ at = "start" /\ stock # <<>>
      BY <2>2, <1>f DEF StartStreamFails, CanStart, quicVars, listVars, queueVars
    <3>2. \A x \in Requests \ {r} : stream'[x] = stream[x]
      <4>1. PICK failed : stream' = [stream EXCEPT ![r] = failed]
        BY <2>2 DEF StartStreamFails, FailToStart
      <4> HIDE DEF r
      <4> QED BY <1>0, <4>1
    <3>3. r \notin ToSet(streams)
      <4>1. Partition(stock, streams, errorStock, Pending)
        BY <1>0, HeldPartition DEF ListsInv, RequestInOneList, Held
      <4> QED BY <1>0, <3>1, <4>1, AppendTail DEF Partition
    <3> HIDE DEF r
    <3>4. ASSUME NEW id \in StreamIds, Mapped(id)
          PROVE  streamsMap[id] # r /\ stream'[streamsMap[id]] = stream[streamsMap[id]]
      BY <3>2, <3>3, <3>4 DEF MapInv, MapsStarted, Mapped
    <3>5. MapsStarted' /\ MapsOnce' /\ EventsReachOwner' /\ FreshIds'
      BY <3>1 DEF MapInv, MapsStarted, MapsOnce, EventsReachOwner, FreshIds, Mapped, Unmapped
    <3>6. KnowsId' /\ AskedIntact'
      BY <3>1, <3>4, LivePolling DEF MapInv, KnowsId, AskedIntact, Intact, Mapped, Untroubled
    <3> QED BY <3>5, <3>6 DEF MapInv
  <2>3. CASE StartDone
    BY <2>3, <1>x DEF StartDone, quicVars, appVars, listVars, queueVars, requestVars,
       quietVars, budgetVars, DeadEnd
  <2> QED BY <1>10, <2>1, <2>2, <2>3 DEF Starting
<1>11. CASE ShuttingDown
  <2>1. CASE UpdatePhaseStartShutdown
    <3>1. /\ UNCHANGED <<streamsMap, streams, peer, failures>> /\ phase = "StartShutdown"
          /\ phase' = "WaitShutdown" /\ at' = "check"
      BY <2>1 DEF UpdatePhaseStartShutdown, InPhase, SetStatus, quicVars, listVars, queueVars,
         quietVars, budgetVars
    <3>2. ~Untroubled'
      BY <3>1 DEF CalmInv, Untroubled, ShutdownPhases
    <3>3. ASSUME NEW r \in Requests, stream'[r].status = "Completed"
          PROVE  stream'[r] = stream[r]
      BY <2>1, <1>p, <3>3 DEF UpdatePhaseStartShutdown, ClearedStream
    <3>4. MapsStarted' /\ MapsOnce' /\ EventsReachOwner' /\ FreshIds'
      BY <3>1 DEF MapInv, MapsStarted, MapsOnce, EventsReachOwner, FreshIds, Mapped, Unmapped
    <3>5. KnowsId'
      BY <3>1, <3>2, <3>3 DEF MapInv, KnowsId, Mapped
    <3> QED BY <3>1, <3>4, <3>5 DEF MapInv, DeadEnd, ShutdownPhases
  <2>2. CASE UpdatePhaseWaitShutdown
    <3>1. CASE ParkRequests
      BY <2>2, <3>1, <1>c, <1>z DEF UpdatePhaseWaitShutdown, ParkRequests, quicVars
    <3>2. CASE callAbort /\ FinishAbort
      BY <2>2, <3>2, <1>c, <1>p, <1>y DEF UpdatePhaseWaitShutdown, FinishAbort, listVars,
         quicVars
    <3>3. CASE UNCHANGED <<stateVars, socketVars, flagVars, listVars>>
      BY <2>2, <3>3, <1>c, <1>x DEF UpdatePhaseWaitShutdown, stateVars, listVars, queueVars,
         quicVars, requestVars, quietVars, budgetVars, DeadEnd
    <3> QED BY <2>2, <1>c, <3>1, <3>2, <3>3 DEF UpdatePhaseWaitShutdown
  <2> QED BY <1>11, <2>1, <2>2 DEF ShuttingDown
<1>12. CASE Migrating
  <2>1. ~DeadEnd
    BY <1>12 DEF Migrating, AwaitResolution, Migrate, MigrateRefused,
       MigrateWithoutAddress, InPhase, DeadEnd, ShutdownPhases
  <2> QED
    BY <1>12, <2>1, <1>c, <1>x, <1>f DEF Migrating, AwaitResolution, Migrate, MigrateRefused,
       MigrateWithoutAddress, CreateUdpSocket, quicVars, appVars, listVars, queueVars,
       requestVars
<1>13. CASE Checking
  BY <1>13, <1>f, <1>x DEF Checking, CheckConnectionClosed, CheckConnectionTimeout, CheckDone,
     SetStatus, OnlyMoves, netVars, stateVars, quicVars, appVars, listVars, queueVars,
     requestVars, quietVars, budgetVars, DeadEnd, ShutdownPhases
<1>14. CASE Crashed
  BY <1>14, <1>x DEF Crashed, vars, netVars, stateVars, quicVars, appVars, listVars,
     queueVars, requestVars, quietVars, budgetVars, DeadEnd
<1> QED
  BY <1>1, <1>2, <1>3, <1>4, <1>5, <1>6, <1>7, <1>8, <1>9, <1>10, <1>11, <1>12,
     <1>13, <1>14 DEF Next

(* All of it.                                                              *)
StreamInv == PhaseInv /\ NoErrorToForget /\ CalmInv /\ MapInv /\ EventsFindStream

(* It holds throughout.                                                    *)
LEMMA StreamInvHolds == MapScope => (Spec => [](ListsInv /\ StreamInv))
<1> SUFFICES ASSUME MapScope PROVE Spec => [](ListsInv /\ StreamInv)
  OBVIOUS
<1>1. AbortUndisturbed
  BY ConnectionAssumption DEF MapScope, AbortUndisturbed
<1>2. Init => ListsInv /\ StreamInv
  BY InitialLists, InitialPhase, InitialCalm, InitialMap
     DEF StreamInv, EventsFindStream, Init, NoErrorToForget
<1>3. ASSUME ListsInv, StreamInv, [Next]_vars
      PROVE  (ListsInv /\ StreamInv)'
  <2>1. ListsInv' /\ TypeOK /\ TypeOK'
    BY <1>3, ListsInvStep DEF ListsInv
  <2>2. PhaseInv' /\ NoErrorToForget' /\ CalmInv'
    BY <1>1, <1>3, <2>1, PhaseStep, ErrorsStayStep, CalmStep DEF StreamInv
  <2>3. CASE Next
    <3>1. MapInv'
      BY <1>3, <2>1, <2>3, MapStep DEF StreamInv
    <3>2. EventsFindStream'
      BY <1>3, <2>3, NoStrayEvent, FaultSteps DEF StreamInv, EventsFindStream
    <3> QED BY <2>1, <2>2, <3>1, <3>2 DEF StreamInv
  <2>4. CASE UNCHANGED vars
    <3>1. MapInv'
      BY <1>3, <2>4, MapUnchanged DEF StreamInv, Untroubled, DeadEnd, vars, netVars,
         stateVars, quicVars, appVars, listVars, queueVars, requestVars, quietVars, budgetVars
    <3> QED BY <1>3, <2>1, <2>2, <2>4, <3>1 DEF StreamInv, EventsFindStream, vars, quietVars,
                                               budgetVars
  <2> QED BY <1>3, <2>3, <2>4
<1> QED BY <1>2, <1>3, PTL DEF Spec

(* The raw pointers of _h3StreamsMap never point to a destroyed Stream,    *)
(* although deliveries, Abort and shutdowns destroy and clear Streams and  *)
(* clean the map separately, with any number of requests, ids and calls,   *)
(* and of failures that MapScope does not set apart.                       *)
THEOREM StreamsNotDangling == MapScope => (Spec => []NoDanglingStream)
<1> SUFFICES ASSUME MapScope PROVE Spec => []NoDanglingStream
  OBVIOUS
<1>1. ASSUME ListsInv, StreamInv
      PROVE  NoDanglingStream
  <2> SUFFICES ASSUME NEW id \in StreamIds, ~Unmapped(id)
               PROVE  streamsMap[id] \in Pending
    BY DEF NoDanglingStream
  <2>0. /\ streams \in Seq(Requests) /\ stock \in Seq(Requests)
        /\ errorStock \in Seq(Requests)
        /\ streamsMap \in [StreamIds -> Requests \cup {Absent, Null}]
    BY <1>1 DEF ListsInv, TypeOK, QueuesOK, StreamsOK
  <2>1. Partition(stock, streams, errorStock, Pending)
    BY <1>1, <2>0, HeldPartition DEF ListsInv, RequestInOneList, Held
  <2>2. streamsMap[id] \in ToSet(streams)
    BY <1>1, <2>0 DEF StreamInv, MapInv, MapsStarted, Mapped, Unmapped
  <2> QED BY <2>1, <2>2 DEF Partition
<1> QED BY <1>1, StreamInvHolds, PTL

(* An answer reaches the request it was asked for or is dropped, although  *)
(* each new connection starts its ids again at 0.                          *)
THEOREM EventsOwned == MapScope => (Spec => []EventsReachOwner)
<1>1. StreamInv => EventsReachOwner
  BY DEF StreamInv, MapInv
<1> QED BY <1>1, StreamInvHolds, PTL

(* No event is handed to a Stream that is destroyed, or that holds the     *)
(* handles of a connection that is gone.                                   *)
THEOREM EventsTaken == MapScope => (Spec => []EventsFindStream)
<1>1. StreamInv => EventsFindStream
  BY DEF StreamInv
<1> QED BY <1>1, StreamInvHolds, PTL
=============================================================================
