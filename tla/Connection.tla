------------------------------ MODULE Connection ------------------------------
(***************************************************************************)
(* One HTTP/3 connection of the native library: qwfs::Connection and the   *)
(* part of qwfs::Stream it drives (qwfs_connection.cpp, qwfs_h3_stream.cpp,*)
(* reached through qwfs_quich_wrapper.cpp).                                *)
(*                                                                         *)
(* Every native call runs under the host's lock, so calls do not overlap.  *)
(* Update is long and branches on the network; it is cut into steps, one   *)
(* per function it calls and one per turn of its loops, and `at` says      *)
(* which step is next.  The other calls are possible at "idle" only.       *)
(*                                                                         *)
(* quiche, the operating system and the server are the environment.  They  *)
(* misbehave only in the ways listed in Failures, once in a step at most   *)
(* and MaxFailures times in all.  The application makes MaxCalls calls to  *)
(* Retry, Abort and Reconnect at most.  Both numbers bound the model, not  *)
(* the code; so does MaxStreams, which must be large enough for TLC to     *)
(* find no deadlock.                                                       *)
(***************************************************************************)
EXTENDS QwfsTypes, SequencesExt

CONSTANTS
  Requests,         \* the requests the application may publish, each once
  Absent, Null,     \* no entry in _h3StreamsMap; an entry that holds nullptr
  MaxConcurrent,    \* QwfsOptions::_maxConcurrentStreams
  MaxStreams,       \* bound: streams one HTTP/3 connection of a behaviour opens
  ActiveMigration,  \* not QwfsQuicOptions::_disableActiveMigration
  EarlyData,        \* QwfsQuicOptions::_enableEarlyData
  Calls, MaxCalls,  \* which of Retry, Abort, Reconnect the application makes
  Failures, MaxFailures,
  TransportErrors,  \* the quiche errors a failing packet gives
  StartErrors,      \* the errors a request that cannot be sent gives
  BodyErrors        \* the HTTP/3 errors a failing body read gives

CallKinds == {"Retry", "Abort", "Reconnect"}

FailureKinds ==
  {"resolve", "socket", "getsockname", "newConnection", "qlog", "newH3",
   "sendSocket", "sendQuiche", "recvSocket", "recvQuiche", "peerClose",
   "statelessReset", "idleTimeout", "sendRequest", "openFile", "body",
   "streamReset", "goAway", "newScid", "probePath"}

ASSUME ConnectionAssumption ==
  /\ Absent \notin Requests /\ Null \notin Requests /\ Absent # Null
  /\ MaxConcurrent \in Nat \ {0}
  /\ MaxStreams \in Nat \ {0}
  /\ ActiveMigration \in BOOLEAN /\ EarlyData \in BOOLEAN
  /\ Calls \subseteq CallKinds /\ MaxCalls \in Nat
  /\ Failures \subseteq FailureKinds /\ MaxFailures \in Nat
  /\ TransportErrors \subseteq QuicheErrors
  /\ StartErrors \subseteq SendRequestErrors
  /\ BodyErrors \subseteq H3Errors

VARIABLES
  status, phase,         \* _status, _phase
  sock, peerAddInfo,     \* _sock is open; _peerAddInfo is not nullptr
  conn, established,     \* _quicheConnection and what quiche says of it
  h3,                    \* _quicheH3Connection
  zeroRtt,               \* _isLoadedSessionForZeroRtt
  callRetry, callAbort,  \* _callRetry, _callAbort
  stock,                 \* _h3StreamsStock, waiting to be started
  streams,               \* _h3Streams, started
  errorStock,            \* _h3StreamsErrorStock, kept for Retry
  streamsMap,            \* _h3StreamsMap, stream id to Stream
  stream,                \* the Stream objects
  peer,                  \* the streams opened with the server and not answered
  outcome,               \* history: what became of each request
  at, cursor,            \* the next step of the native call in progress
  fault,                 \* the statement that dereferenced an invalid handle
  failures, calls        \* the budgets spent

stateVars   == <<status, phase>>
socketVars  == <<sock, peerAddInfo>>
setupVars   == <<established, h3, zeroRtt>>
quicVars    == <<conn, setupVars, peer>>
flagVars    == <<callRetry, callAbort>>
queueVars   == <<stock, streams, errorStock>>
listVars    == <<queueVars, streamsMap>>
requestVars == <<stream, outcome>>
appVars     == <<flagVars, listVars, requestVars>>
netVars     == <<stateVars, socketVars, quicVars>>
budgetVars  == <<fault, failures, calls>>
stepVars    == <<cursor, fault, calls>>
quietVars   == <<cursor, budgetVars>>
vars == <<netVars, appVars, at, quietVars>>

StreamIds == 0 .. (MaxStreams - 1)
NoId      == -1          \* a negative result of quiche_h3_send_request

(* A handle is null, of the connection in use, or of one that was replaced. *)
Handles == {"null", "current", "stale"}

(* quiche_conn: no object, open, closing (closed by an endpoint, its timer *)
(* still running) and closed (quiche_conn_is_closed).                      *)
ConnStates == {"null", "open", "closing", "closed"}

(* What a Stream has collected of the response: nothing, data of the       *)
(* request as sent last, data of an earlier sending, data of both.         *)
Bodies == {"empty", "part", "old", "mixed"}

Streams == [status : QwfsStatus, id : StreamIds \cup {NoId},
            handle : Handles, body : Bodies]

(* Where an invalid handle is dereferenced: the functions that do so.      *)
FaultSites ==
  {"quiche_available_dcids", "quiche_connect", "quiche_h3_conn_poll",
   "Stream::EventData", "quiche_conn_is_established", "quiche_conn_close",
   "quiche_probe_path", "Stream::Start"}

Points == {"idle", "receive", "phase", "established", "poll", "start",
           "check", "callbacks"}

ControlOK ==
  /\ status \in QwfsStatus /\ phase \in Phases
  /\ at \in Points /\ cursor \in Nat \ {0}
  /\ fault \in FaultSites \cup {"none"}
  /\ failures \in 0 .. MaxFailures /\ calls \in 0 .. MaxCalls

HandlesOK ==
  /\ sock \in BOOLEAN /\ peerAddInfo \in BOOLEAN
  /\ conn \in ConnStates /\ established \in BOOLEAN
  /\ h3 \in Handles /\ zeroRtt \in BOOLEAN
  /\ callRetry \in BOOLEAN /\ callAbort \in BOOLEAN

QueuesOK ==
  /\ stock \in Seq(Requests) /\ streams \in Seq(Requests)
  /\ errorStock \in Seq(Requests)

StreamsOK ==
  /\ streamsMap \in [StreamIds -> Requests \cup {Absent, Null}]
  /\ stream \in [Requests -> Streams]
  /\ peer \in [next : 0 .. MaxStreams,
               asked : [StreamIds -> Requests \cup {Absent}]]
  /\ outcome \in [Requests -> {"new", "pending", "delivered", "aborted"}]

TypeOK == ControlOK /\ HandlesOK /\ QueuesOK /\ StreamsOK

-----------------------------------------------------------------------------
(* Helpers                                                                 *)

IsError(s) == s \in ErrorStatus

(* A step of a native call, at point p.                                    *)
Running(p) == fault = "none" /\ at = p

(* A step that does nothing but pass on to the next one.                   *)
OnlyMoves == UNCHANGED <<netVars, appVars, quietVars>>

(* The environment misbehaves once more.                                   *)
Fail(kind) ==
  /\ kind \in Failures
  /\ failures < MaxFailures
  /\ failures' = failures + 1

(* The process dereferences an invalid handle and is gone.                 *)
Crash(site) ==
  /\ fault' = site
  /\ UNCHANGED <<netVars, appVars, at, cursor, failures, calls>>

SetStatus(s, p) == status' = s /\ phase' = p

(* A Stream right after its construction or Stream::Clear.                 *)
ClearedStream ==
  [status |-> "Connecting", id |-> 0, handle |-> "null", body |-> "empty"]

(* Streams after the connection their handles point to has been replaced.  *)
Detached ==
  [r \in Requests |-> IF stream[r].handle = "current"
                        THEN [stream[r] EXCEPT !.handle = "stale"]
                        ELSE stream[r]]

NothingAsked == [i \in StreamIds |-> Absent]

(* Mutant: clear() of the whole map is forgotten.                          *)
MutUnmap(ids) ==
  [i \in StreamIds |-> IF i \in ids /\ ids # StreamIds THEN Absent
                       ELSE streamsMap[i]]

(* The map without the entries for ids.                                    *)
Unmap(ids) == [i \in StreamIds |-> IF i \in ids THEN Absent ELSE streamsMap[i]]

(* All requests the connection holds, in its three lists.                  *)
Held == stock \o streams \o errorStock

CloseUdpSocket == sock' = FALSE /\ peerAddInfo' = FALSE

(* Connection::CreateUdpSocket: open and error are its outcome.  Closing   *)
(* the old socket and dropping the old address come first in every case.   *)
CreateUdpSocket(open, error) ==
  /\ sock' = open /\ peerAddInfo' = open
  /\ \/ open /\ error = "none" /\ UNCHANGED failures
     \/ ~open /\ error = "ErrorResolveHost" /\ Fail("resolve")
     \/ ~open /\ error = "ErrorSocket" /\ Fail("socket")
     \/ open /\ error = "ErrorSocket" /\ Fail("getsockname")

SocketErrors == {"none", "ErrorResolveHost", "ErrorSocket"}

(* Connection::IsEnabledConnectionMigration: whether the server, once the  *)
(* handshake is over, offers an unused connection id is its own choice.    *)
IsEnabledConnectionMigration(spare) ==
  ActiveMigration /\ h3 # "null" /\ established /\ spare

TransitionConnectionMigration ==
  /\ CloseUdpSocket
  /\ SetStatus("Wait", "ConnectionMigration")

-----------------------------------------------------------------------------
(* Initial state: the constructor, with the options set.                   *)

Init ==
  /\ status = "Wait" /\ phase = "CreateSocket"
  /\ sock = FALSE /\ peerAddInfo = FALSE
  /\ conn = "null" /\ established = FALSE /\ h3 = "null" /\ zeroRtt = FALSE
  /\ peer = [next |-> 0, asked |-> NothingAsked]
  /\ callRetry = FALSE /\ callAbort = FALSE
  /\ stock = <<>> /\ streams = <<>> /\ errorStock = <<>>
  /\ streamsMap = [i \in StreamIds |-> Absent]
  /\ stream = [r \in Requests |-> ClearedStream]
  /\ outcome = [r \in Requests |-> "new"]
  /\ at = "idle" /\ cursor = 1
  /\ fault = "none" /\ failures = 0 /\ calls = 0

-----------------------------------------------------------------------------
(* Calls of the application                                                *)

(* Connection::PublishRequest.                                             *)
PublishRequest(r) ==
  /\ Running("idle")
  /\ outcome[r] = "new"
  /\ status' = IF IsError(status) THEN status ELSE "Connecting"
  /\ stock' = Append(stock, r)
  /\ outcome' = [outcome EXCEPT ![r] = "pending"]
  /\ UNCHANGED <<phase, socketVars, quicVars, flagVars, streams, errorStock,
                 streamsMap, stream, at, quietVars>>

Call(kind) ==
  /\ Running("idle")
  /\ kind \in Calls
  /\ calls < MaxCalls
  /\ calls' = calls + 1

(* Connection::Retry: a note for UpdatePhaseWait.                          *)
Retry ==
  /\ Call("Retry")
  /\ callRetry' = (callRetry \/ IsError(status))
  /\ UNCHANGED <<netVars, callAbort, listVars, requestVars, at, cursor, fault,
                 failures>>

(* The wrapper's Abort passes the call on in these states only.            *)
AbortPasses == status \in {"Wait", "Connecting", "Completed"}

(* Mutant: the list of started requests is not emptied.                    *)
MutAbort ==
  /\ Call("Abort")
  /\ AbortPasses
  /\ conn # "null"
  /\ conn' = IF conn = "open" THEN "closing" ELSE conn
  /\ callAbort' = TRUE
  /\ stock' = <<>> /\ errorStock' = <<>>
  /\ streamsMap' = Unmap(StreamIds)
  /\ SetStatus("Aborting", "StartShutdown")
  /\ UNCHANGED <<socketVars, setupVars, peer, callRetry, streams, requestVars, at,
                 cursor, fault, failures>>

(* Connection::Abort.  quiche closes at once a connection that has not yet *)
(* received anything; all requests, the finished ones included, are        *)
(* destroyed.                                                              *)
Abort ==
  /\ Call("Abort")
  /\ AbortPasses
  /\ conn # "null"
  /\ conn' \in IF conn # "open" THEN {conn}
               ELSE IF established THEN {"closing"} ELSE {"closing", "closed"}
  /\ callAbort' = TRUE
  /\ stock' = <<>> /\ streams' = <<>> /\ errorStock' = <<>>
  /\ streamsMap' = Unmap(StreamIds)
  /\ stream' = [r \in Requests |->
                  IF outcome[r] = "pending" THEN ClearedStream ELSE stream[r]]
  /\ outcome' = [r \in Requests |->
                   IF outcome[r] = "pending" THEN "aborted" ELSE outcome[r]]
  /\ SetStatus("Aborting", "StartShutdown")
  /\ UNCHANGED <<socketVars, setupVars, peer, callRetry, at, cursor, fault,
                 failures>>

AbortWithoutConnection ==
  /\ Running("idle") /\ "Abort" \in Calls /\ calls < MaxCalls
  /\ AbortPasses
  /\ conn = "null"
  /\ Crash("quiche_conn_close")

(* An Abort the wrapper does not pass on: an error state, or one under way. *)
AbortIgnored ==
  /\ Call("Abort")
  /\ ~AbortPasses
  /\ UNCHANGED <<netVars, appVars, at, cursor, fault, failures>>

(* Mutant: the stock is overwritten.                                       *)
MutReconnectFromScratch ==
  /\ stock' = streams
  /\ streams' = <<>>
  /\ streamsMap' = Unmap({stream[r].id : r \in ToSet(streams)})
  /\ SetStatus(status, "CreateSocket")
  /\ CloseUdpSocket

(* Connection::Reconnect, without migration: every started request goes to *)
(* the back of the stock and its id is erased from the map.                *)
ReconnectFromScratch ==
  /\ stock' = stock \o streams
  /\ streams' = <<>>
  /\ streamsMap' = Unmap({stream[r].id : r \in ToSet(streams)})
  /\ SetStatus(status, "CreateSocket")
  /\ CloseUdpSocket

Reconnect ==
  /\ Call("Reconnect")
  /\ conn # "null"
  /\ \E spare \in BOOLEAN :
       \/ /\ IsEnabledConnectionMigration(spare)
          /\ TransitionConnectionMigration
          /\ UNCHANGED listVars
       \/ /\ ~IsEnabledConnectionMigration(spare)
          /\ ReconnectFromScratch
          /\ UNCHANGED errorStock
  /\ UNCHANGED <<quicVars, flagVars, requestVars, at, cursor, fault, failures>>

ReconnectWithoutConnection ==
  /\ Running("idle") /\ "Reconnect" \in Calls /\ calls < MaxCalls
  /\ conn = "null"
  /\ Crash("quiche_available_dcids")

-----------------------------------------------------------------------------
(* Connection::IssueCallbacks, one turn of its loop over _h3Streams a step. *)

IssueCallbacks ==
  /\ Running("idle")
  /\ \E k \in DOMAIN streams : stream[streams[k]].status # "Connecting"
  /\ at' = "callbacks" /\ cursor' = 1
  /\ UNCHANGED <<netVars, appVars, budgetVars>>

InCallbacks == Running("callbacks") /\ cursor <= Len(streams)

(* The success callback; the Stream leaves map and list and is destroyed.  *)
CallSuccessCallback ==
  /\ InCallbacks
  /\ LET r == streams[cursor]
     IN  /\ stream[r].status = "Completed"
         /\ streamsMap' = Unmap({stream[r].id})
         /\ stream' = [stream EXCEPT
                         ![r] = [ClearedStream EXCEPT !.body = stream[r].body]]
         /\ outcome' = [outcome EXCEPT ![r] = "delivered"]
  /\ streams' = RemoveAt(streams, cursor)
  /\ UNCHANGED <<netVars, flagVars, stock, errorStock, at, quietVars>>

(* The error callback of a request that failed for good: the connection is *)
(* shut down with that status and the Stream stays in the list.            *)
CallErrorCallback ==
  /\ InCallbacks
  /\ stream[streams[cursor]].status \in CriticalStatus
  /\ SetStatus(stream[streams[cursor]].status, "StartShutdown")
  /\ cursor' = cursor + 1
  /\ UNCHANGED <<socketVars, quicVars, appVars, at, budgetVars>>

(* The error callback of any other failed request, and Stream::Retry: its  *)
(* Clear drops both handles, and Start is called with them.                *)
RetryStreamAtOnce ==
  /\ InCallbacks
  /\ stream[streams[cursor]].status \in OrdinaryErrorStatus
  /\ Crash("Stream::Start")

SkipStream ==
  /\ InCallbacks
  /\ stream[streams[cursor]].status \in NormalStatus \ {"Completed"}
  /\ cursor' = cursor + 1
  /\ UNCHANGED <<netVars, appVars, at, budgetVars>>

CallbacksDone ==
  /\ Running("callbacks") /\ cursor > Len(streams)
  /\ at' = "idle" /\ cursor' = 1
  /\ UNCHANGED <<netVars, appVars, budgetVars>>

-----------------------------------------------------------------------------
(* Connection::Update: Send                                                *)

(* What Update does when Send or Receive fails: migrate if that is         *)
(* possible, whatever the failure has set; report the failure otherwise.   *)
BreakOff(spare, s, p) ==
  /\ at' = "idle"
  /\ IF IsEnabledConnectionMigration(spare)
       THEN TransitionConnectionMigration
       ELSE SetStatus(s, p) /\ UNCHANGED socketVars

Send ==
  /\ Running("idle")
  /\ at' = "receive"
  /\ OnlyMoves

(* Mutant: only the socket is tested.                                      *)
MutCanSend == sock

CanSend == sock /\ conn \in {"open", "closing"}

(* sendto does not take the whole packet.                                  *)
SendToFails ==
  /\ Running("idle")
  /\ CanSend
  /\ Fail("sendSocket")
  /\ \E spare \in BOOLEAN : BreakOff(spare, "ErrorSocket", "StartShutdown")
  /\ UNCHANGED <<quicVars, appVars, stepVars>>

(* quiche_conn_send fails.  The phase stays as it is.                      *)
QuicheSendFails ==
  /\ Running("idle")
  /\ CanSend
  /\ Fail("sendQuiche")
  /\ \E error \in TransportErrors, spare \in BOOLEAN :
       LET s == ConvertQuicheErrorToStatus(error, status)
       IN  IF ConvertStatusToResult(s) = "Ok"
             THEN SetStatus(s, phase) /\ at' = "receive" /\ UNCHANGED socketVars
             ELSE BreakOff(spare, s, phase)
  /\ UNCHANGED <<quicVars, appVars, stepVars>>

-----------------------------------------------------------------------------
(* Connection::Update: Receive                                             *)

Receive ==
  /\ Running("receive")
  /\ at' = "phase"
  /\ OnlyMoves

(* A packet completes the handshake.                                       *)
ReceiveEstablished ==
  /\ Running("receive")
  /\ sock /\ conn = "open" /\ ~established
  /\ established' = TRUE
  /\ UNCHANGED <<stateVars, socketVars, conn, h3, zeroRtt, peer, appVars, at,
                 quietVars>>

(* The server closes: quiche drains until a timer ends it, or, for a       *)
(* stateless reset, is closed at once.                                     *)
ReceiveClose ==
  /\ Running("receive")
  /\ sock /\ conn = "open"
  /\ \/ Fail("peerClose") /\ conn' = "closing"
     \/ established /\ Fail("statelessReset") /\ conn' = "closed"
  /\ UNCHANGED <<stateVars, socketVars, setupVars, peer, appVars, at,
                 stepVars>>

(* recvfrom fails.  Update then asks quiche for spare connection ids, with *)
(* a null handle when there is a socket but no connection yet.             *)
RecvFromFails ==
  /\ Running("receive")
  /\ sock
  /\ conn # "null"
  /\ Fail("recvSocket")
  /\ \E spare \in BOOLEAN : BreakOff(spare, "ErrorSocket", "StartShutdown")
  /\ UNCHANGED <<quicVars, appVars, stepVars>>

RecvFromFailsWithoutConnection ==
  /\ Running("receive")
  /\ sock
  /\ conn = "null"
  /\ "recvSocket" \in Failures /\ failures < MaxFailures
  /\ Crash("quiche_available_dcids")

(* quiche_conn_recv fails; quiche closes the connection.  The phase becomes *)
(* Wait, or StartShutdown for ErrorTls, whatever it was.                   *)
QuicheRecvFails ==
  /\ Running("receive")
  /\ sock /\ conn = "open"
  /\ Fail("recvQuiche")
  /\ conn' \in IF established THEN {"closing"} ELSE {"closing", "closed"}
  /\ \E error \in TransportErrors, spare \in BOOLEAN :
       LET s == ConvertQuicheErrorToStatus(error, status)
           p == IF s = "ErrorTls" THEN "StartShutdown" ELSE "Wait"
       IN  IF ConvertStatusToResult(s) = "Ok"
             THEN SetStatus(s, p) /\ at' = "phase" /\ UNCHANGED socketVars
             ELSE BreakOff(spare, s, p)
  /\ UNCHANGED <<setupVars, peer, appVars, stepVars>>

-----------------------------------------------------------------------------
(* Connection::Update: the phases that set a connection up                 *)

InPhase(p) == Running("phase") /\ phase = p

(* UpdatePhaseCreateSocket: ClearForRetry, which also frees the quiche     *)
(* connection and sets the status to Wait, then CreateUdpSocket.           *)
UpdatePhaseCreateSocket ==
  /\ InPhase("CreateSocket")
  /\ conn' = "null" /\ established' = FALSE /\ h3' = "null" /\ zeroRtt' = FALSE
  /\ peer' = [next |-> 0, asked |-> NothingAsked]
  /\ stream' = Detached
  /\ \E open \in BOOLEAN, error \in SocketErrors :
       /\ CreateUdpSocket(open, error)
       /\ IF error = "none"
            THEN SetStatus("Wait", "Initialize") /\ at' = "check"
            ELSE SetStatus(error, phase) /\ at' = "idle"
  /\ UNCHANGED <<flagVars, listVars, outcome, stepVars>>

(* UpdatePhaseInitialize.  An HTTP/3 connection left from before stays, as *)
(* does its next stream id; the streams' handles are those of the old      *)
(* connection.  A qlog file that cannot be opened leaves the phase as is.  *)
UpdatePhaseInitialize ==
  /\ InPhase("Initialize")
  /\ peerAddInfo
  /\ established' = FALSE
  /\ h3' = IF h3 = "null" THEN "null" ELSE "stale"
  /\ peer' = [peer EXCEPT !.asked = NothingAsked]
  /\ stream' = Detached
  /\ \/ /\ Fail("newConnection")
        /\ conn' = "null"
        /\ SetStatus("CriticalErrorQuiche", "Wait") /\ at' = "idle"
        /\ UNCHANGED zeroRtt
     \/ /\ Fail("qlog")
        /\ conn' = "open"
        /\ SetStatus("ErrorFileIO", phase) /\ at' = "idle"
        /\ UNCHANGED zeroRtt
     \/ /\ conn' = "open"
        /\ zeroRtt' \in IF EarlyData THEN BOOLEAN ELSE {zeroRtt}
        /\ SetStatus(status, "Handshake") /\ at' = "check"
        /\ UNCHANGED failures
  /\ UNCHANGED <<socketVars, flagVars, listVars, outcome, stepVars>>

InitializeWithoutAddress ==
  /\ InPhase("Initialize")
  /\ ~peerAddInfo
  /\ Crash("quiche_connect")

IsEnabledZeroRtt == zeroRtt /\ h3 = "null"

(* UpdatePhaseHandshake, early data: the HTTP/3 connection is made before  *)
(* the handshake ends, and requests are started on it.                     *)
StartEarlyData ==
  /\ InPhase("Handshake")
  /\ conn = "open" /\ ~established
  /\ IsEnabledZeroRtt
  /\ \/ Fail("newH3") /\ at' = "idle" /\ UNCHANGED <<h3, peer>>
     \/ h3' = "current" /\ peer' = [peer EXCEPT !.next = 0]
        /\ at' = "start" /\ UNCHANGED failures
  /\ UNCHANGED <<stateVars, socketVars, conn, established, zeroRtt, appVars,
                 stepVars>>

(* Whether a connection that is not established is in early data is up to  *)
(* quiche.                                                                 *)
SkipEarlyData ==
  /\ InPhase("Handshake")
  /\ at' = "established"
  /\ OnlyMoves

(* UpdatePhaseHandshake, the rest: nothing until the handshake has ended.  *)
AwaitEstablished ==
  /\ Running("established")
  /\ ~established
  /\ at' = "check"
  /\ OnlyMoves

FinishHandshake ==
  /\ Running("established")
  /\ established
  /\ \/ h3 = "null" /\ Fail("newH3") /\ UNCHANGED <<h3, peer>>
        /\ SetStatus("CriticalErrorQuiche", "StartShutdown") /\ at' = "idle"
     \/ h3 = "null" /\ h3' = "current" /\ peer' = [peer EXCEPT !.next = 0]
        /\ SetStatus(status, "Wait") /\ at' = "check" /\ UNCHANGED failures
     \/ h3 # "null" /\ UNCHANGED <<h3, peer>>
        /\ SetStatus(status, "Wait") /\ at' = "check" /\ UNCHANGED failures
  /\ UNCHANGED <<socketVars, conn, established, zeroRtt, appVars, stepVars>>

-----------------------------------------------------------------------------
(* Connection::Update: UpdatePhaseWait                                     *)

(* A retry: the requests kept after an error go to the back of the stock.  *)
StartRetry ==
  /\ InPhase("Wait")
  /\ callRetry
  /\ stock' = stock \o errorStock
  /\ errorStock' = <<>>
  /\ callRetry' = FALSE
  /\ SetStatus("Wait", "Initialize")
  /\ at' = "check"
  /\ UNCHANGED <<socketVars, quicVars, callAbort, streams, streamsMap,
                 requestVars, quietVars>>

AwaitRetry ==
  /\ InPhase("Wait")
  /\ ~callRetry /\ IsError(status)
  /\ at' = "check"
  /\ OnlyMoves

StartPolling ==
  /\ InPhase("Wait")
  /\ ~callRetry /\ ~IsError(status)
  /\ IF h3 = "null" THEN Crash("quiche_h3_conn_poll")
     ELSE /\ at' = "poll"
          /\ OnlyMoves

(* An event for stream id finds no Stream: the lookup has made an entry    *)
(* with nullptr, the event is dropped and the polling stops.               *)
Unmapped(id) == streamsMap[id] \in {Absent, Null}

DropEvent(id) ==
  /\ streamsMap' = [streamsMap EXCEPT ![id] = Null]
  /\ at' = "start"

(* The server answers the request it was asked on stream id; if the map    *)
(* gives a Stream for the id, the object may be destroyed already.         *)
Event(id) == Running("poll") /\ peer.asked[id] # Absent /\ sock /\ established
Destroyed(id) == ~Unmapped(id) /\ outcome[streamsMap[id]] # "pending"
Answered(id) == peer' = [peer EXCEPT !.asked[id] = Absent]

(* FINISHED, the end of a response: Stream::EventFinished.                 *)
PollFinished(id) ==
  /\ Event(id) /\ ~Destroyed(id)
  /\ Answered(id)
  /\ IF Unmapped(id)
       THEN DropEvent(id) /\ UNCHANGED stream
       ELSE /\ stream' = [stream EXCEPT ![streamsMap[id]].status = "Completed"]
            /\ UNCHANGED <<streamsMap, at>>
  /\ UNCHANGED <<stateVars, socketVars, conn, setupVars, flagVars, queueVars,
                 outcome, quietVars>>

(* HEADERS and DATA: Stream::EventHeaders and Stream::EventData add to the *)
(* response, or the data cannot be read.                                   *)
Extended(body) ==
  CASE body = "empty" -> "part" [] body = "old" -> "mixed" [] OTHER -> body

PollResponse(id) ==
  /\ Event(id) /\ ~Destroyed(id)
  /\ \/ /\ Unmapped(id)
        /\ DropEvent(id)
        /\ UNCHANGED <<stream, failures>>
     \/ /\ ~Unmapped(id)
        /\ stream' = [stream EXCEPT ![streamsMap[id]].body = Extended(@)]
        /\ UNCHANGED <<streamsMap, at, failures>>
     \/ /\ ~Unmapped(id) /\ stream[streamsMap[id]].handle = "current"
        /\ Fail("body")
        /\ \E error \in BodyErrors :
             stream' = [stream EXCEPT ![streamsMap[id]].status =
                          ConvertQuicheH3ErrorToStatus(error, @)]
        /\ UNCHANGED <<streamsMap, at>>
  /\ UNCHANGED <<netVars, flagVars, queueVars, outcome, stepVars>>

(* DATA for a Stream that holds no handle of this connection, or anything  *)
(* for a Stream that is destroyed.                                         *)
PollInvalidStream(id) ==
  /\ Event(id) /\ ~Unmapped(id)
  /\ Destroyed(id) \/ stream[streamsMap[id]].handle # "current"
  /\ Crash("Stream::EventData")

(* The server resets a stream: the whole connection is shut down.          *)
PollReset(id) ==
  /\ Event(id)
  /\ Fail("streamReset")
  /\ Answered(id)
  /\ IF Unmapped(id)
       THEN DropEvent(id) /\ UNCHANGED phase
       ELSE phase' = "StartShutdown" /\ UNCHANGED <<streamsMap, at>>
  /\ UNCHANGED <<status, socketVars, conn, setupVars, flagVars, queueVars,
                 requestVars, stepVars>>

(* GOAWAY carries a stream id too, and the lookup comes before the switch. *)
PollGoAway(id) ==
  /\ Running("poll")
  /\ sock /\ established
  /\ Fail("goAway")
  /\ IF Unmapped(id) THEN DropEvent(id) ELSE UNCHANGED <<streamsMap, at>>
  /\ UNCHANGED <<netVars, flagVars, queueVars, requestVars, stepVars>>

PollDone ==
  /\ Running("poll")
  /\ at' = "start"
  /\ OnlyMoves

-----------------------------------------------------------------------------
(* Connection::StartStream, one turn of its loop a step.  It is called by  *)
(* UpdatePhaseWait and, with early data, by UpdatePhaseHandshake.          *)

(* Mutant: one stream less than the limit.                                 *)
MutCanStart ==
  /\ Running("start")
  /\ Len(streams) + 1 < MaxConcurrent
  /\ stock # <<>>
  /\ status \in {"Wait", "Connecting"}

CanStart ==
  /\ Running("start")
  /\ Len(streams) < MaxConcurrent
  /\ stock # <<>>
  /\ status \in {"Wait", "Connecting"}

(* Stream::Start, and the front of the stock becomes a started request.    *)
(* The id is entered in the map unless there is an entry already.  On a    *)
(* connection that is closing the request never reaches the server.        *)
StartStream ==
  /\ CanStart
  /\ peer.next < MaxStreams
  /\ LET r  == Head(stock)
         id == peer.next
     IN  /\ stream' = [stream EXCEPT
              ![r].id = id, ![r].handle = "current",
              ![r].body = IF @ = "part" THEN "old" ELSE @]
         /\ streamsMap' = [streamsMap EXCEPT
                             ![id] = IF @ = Absent THEN r ELSE @]
         /\ peer' = [next |-> id + 1,
                     asked |-> [peer.asked EXCEPT
                                  ![id] = IF conn = "open" THEN r ELSE @]]
         /\ streams' = Append(streams, r)
  /\ stock' = Tail(stock)
  /\ status' = "Connecting"
  /\ UNCHANGED <<phase, socketVars, conn, setupVars, flagVars, errorStock,
                 outcome, at, quietVars>>

(* Mutant: the status is set whatever is still started.                    *)
MutLeaveLoop ==
  /\ IF phase = "Handshake"
       THEN at' = "established" /\ UNCHANGED status
       ELSE at' = "check" /\ status' = "Wait"
  /\ UNCHANGED phase

(* After the loop.  In the phase Wait (a reset can have changed it         *)
(* meanwhile) a connection without started requests is in the status Wait. *)
LeaveLoop ==
  /\ IF phase = "Handshake"
       THEN at' = "established" /\ UNCHANGED status
       ELSE at' = "check" /\ status' = IF streams = <<>> THEN "Wait" ELSE status
  /\ UNCHANGED phase

(* Stream::Start fails with a negative code; the request stays in front.   *)
FailToStart(r, failed, code) ==
  /\ stream' = [stream EXCEPT ![r] = failed]
  /\ IF code = CreateLimitCode
       THEN LeaveLoop
       ELSE at' = "idle" /\ SetStatus("CriticalErrorQuiche", "Wait")

(* Mutant: the sign of the id is not tested, so the request that was        *)
(* refused counts as started and its code is entered in the map.           *)
MutStartStreamFails ==
  /\ CanStart
  /\ Fail("sendRequest")
  /\ LET r == Head(stock)
     IN  /\ stream' = [stream EXCEPT ![r].id = NoId, ![r].handle = "current"]
         /\ streamsMap' = (NoId :> r) @@ streamsMap
         /\ streams' = Append(streams, r)
  /\ stock' = Tail(stock)
  /\ status' = "Connecting"
  /\ UNCHANGED <<phase, socketVars, quicVars, flagVars, errorStock, outcome, at,
                 stepVars>>

StartStreamFails ==
  /\ CanStart
  /\ LET r == Head(stock)
     IN  \/ /\ Fail("openFile")
            /\ FailToStart(r, [stream[r] EXCEPT !.status = "ErrorFileIO"], -1)
         \/ /\ Fail("sendRequest")
            /\ \E error \in StartErrors :
                 FailToStart(r, [stream[r] EXCEPT !.id = NoId,
                                   !.status = "CriticalErrorQuiche",
                                   !.handle = "current"],
                             SendRequestCode(error))
  /\ UNCHANGED <<socketVars, quicVars, flagVars, listVars, outcome, stepVars>>

(* The loop is over, or was not entered.                                   *)
StartDone ==
  /\ Running("start")
  /\ ~CanStart
  /\ LeaveLoop
  /\ UNCHANGED <<socketVars, quicVars, appVars, quietVars>>

-----------------------------------------------------------------------------
(* Connection::Update: shutdown and migration                              *)

(* ShutdownStream: each request still running is cleared and takes the     *)
(* status of the connection.                                               *)
UpdatePhaseStartShutdown ==
  /\ InPhase("StartShutdown")
  /\ stream' = [r \in Requests |->
                  IF r \in ToSet(streams) /\ stream[r].status = "Connecting"
                    THEN [ClearedStream EXCEPT !.status = status]
                    ELSE stream[r]]
  /\ SetStatus(status, "WaitShutdown")
  /\ at' = "check"
  /\ UNCHANGED <<socketVars, quicVars, flagVars, listVars, outcome, quietVars>>

(* Mutants: a closed connection is not noticed; the stock is dropped; the  *)
(* flag is not reset; the status is reset with the phase.                  *)
MutShutdownOver == ~established
MutParked == Reverse(streams)
MutFinishAbort ==
  SetStatus("Wait", "CreateSocket") /\ UNCHANGED <<flagVars, listVars>>
MutParkRequests ==
  /\ errorStock' = Reverse(streams) \o stock /\ stock' = errorStock
  /\ streams' = <<>>
  /\ streamsMap' = Unmap(StreamIds)
  /\ SetStatus("Wait", "Wait")
  /\ UNCHANGED flagVars

(* UpdatePhaseWaitShutdown.  The connection is over: after an Abort a new  *)
(* one is made at once; otherwise each started request goes to the front   *)
(* of the stock, one after another, and the stock and the list kept for    *)
(* Retry are swapped.                                                      *)
ShutdownOver == ~established \/ conn = "closed"
Parked == Reverse(streams) \o stock

FinishAbort ==
  /\ callAbort' = FALSE
  /\ SetStatus("Wait", "CreateSocket")
  /\ UNCHANGED <<callRetry, listVars>>

ParkRequests ==
  /\ errorStock' = Parked /\ stock' = errorStock /\ streams' = <<>>
  /\ streamsMap' = Unmap(StreamIds)
  /\ SetStatus(status, "Wait")
  /\ UNCHANGED flagVars

UpdatePhaseWaitShutdown ==
  /\ InPhase("WaitShutdown")
  /\ IF conn = "null" THEN Crash("quiche_conn_is_established")
     ELSE /\ IF ~ShutdownOver THEN UNCHANGED <<stateVars, socketVars, flagVars,
                                               listVars>>
             ELSE /\ CloseUdpSocket
                  /\ IF callAbort THEN FinishAbort ELSE ParkRequests
          /\ at' = "check"
          /\ UNCHANGED <<quicVars, requestVars, quietVars>>

(* Connection::Timeout, in status s: quiche handles the timers that are    *)
(* due.  The end of draining closes the connection, so does the idle timer *)
(* if it is the one.                                                       *)
Timeout(s, idle) ==
  \/ /\ conn \in {"closing", "closed"} \/ idle
     /\ conn' = "closed"
     /\ IF s = "Aborting" THEN SetStatus(s, phase)
                          ELSE SetStatus("ErrorTimeout", "StartShutdown")
  \/ /\ conn # "closed" /\ UNCHANGED conn
     /\ SetStatus(s, phase)

(* UpdatePhaseConnectionMigration while the host cannot be resolved: wait, *)
(* or after ConnectionMigrationTimeOut let the timers decide.  The status  *)
(* tested is the one left by an earlier attempt when this one succeeds.    *)
Unresolved(error) ==
  "ErrorResolveHost" = IF error = "none" THEN status ELSE error

(* Mutant: what the timers made of the connection is not looked at.        *)
MutMigrationTimeout ==
  SetStatus("ErrorResolveHost", phase) /\ conn' \in {conn, "closed"}

MigrationTimeout == Timeout("ErrorResolveHost", "idleTimeout" \in Failures)

AwaitResolution ==
  /\ InPhase("ConnectionMigration")
  /\ \E open \in BOOLEAN, error \in SocketErrors :
       /\ CreateUdpSocket(open, error)
       /\ Unresolved(error)
  /\ \/ SetStatus("ErrorResolveHost", phase) /\ UNCHANGED conn /\ at' = "check"
     \/ MigrationTimeout /\ at' = "idle"
  /\ UNCHANGED <<setupVars, peer, appVars, stepVars>>

(* The new path is announced to quiche, which needs the server's address.  *)
Migrate ==
  /\ InPhase("ConnectionMigration")
  /\ conn # "null"
  /\ \E error \in SocketErrors :
       LET s == IF error = "none" THEN status ELSE error
       IN  /\ ~Unresolved(error)
           /\ CreateUdpSocket(TRUE, error)
           /\ SetStatus(s, "Wait")
           /\ at' = "check"
  /\ UNCHANGED <<quicVars, appVars, stepVars>>

MigrateRefused ==
  /\ InPhase("ConnectionMigration")
  /\ conn # "null" /\ status # "ErrorResolveHost"
  /\ sock' = TRUE /\ peerAddInfo' = TRUE
  /\ \/ /\ Fail("newScid") /\ at' = "idle"
        /\ SetStatus("CriticalErrorQuiche", "Wait")
     \/ /\ Fail("probePath") /\ at' = "check"
        /\ SetStatus("ErrorConnectionMigration", "Wait")
  /\ UNCHANGED <<quicVars, appVars, stepVars>>

(* The socket could not be made, so there is no address, and the result of *)
(* CreateUdpSocket is not looked at.                                       *)
MigrateWithoutAddress ==
  /\ InPhase("ConnectionMigration")
  /\ conn # "null"
  /\ "socket" \in Failures /\ failures < MaxFailures
  /\ Crash("quiche_probe_path")

-----------------------------------------------------------------------------
(* Connection::Update: the checks at its end                               *)

(* CheckConnectionClosed                                                   *)
MustClose == conn = "closed" /\ phase \in FromWait
               /\ ~IsError(status) /\ status # "Aborting"

CheckConnectionClosed ==
  /\ Running("check")
  /\ MustClose
  /\ SetStatus("ErrorConnectionClose", "StartShutdown")
  /\ at' = "idle"
  /\ UNCHANGED <<socketVars, quicVars, appVars, quietVars>>

(* CheckConnectionTimeout, with a timer that is due.  There is none in a   *)
(* closed connection, and none is looked at in an error state.             *)
CheckConnectionTimeout ==
  /\ Running("check")
  /\ conn \in {"open", "closing"} /\ phase \in FromHandshake /\ ~IsError(status)
  /\ \/ conn = "closing" /\ UNCHANGED failures
     \/ conn = "open" /\ Fail("idleTimeout")
  /\ conn' = "closed"
  /\ IF status = "Aborting" THEN UNCHANGED stateVars
                            ELSE SetStatus("ErrorTimeout", "StartShutdown")
  /\ at' = "idle"
  /\ UNCHANGED <<socketVars, setupVars, peer, appVars, stepVars>>

CheckDone ==
  /\ Running("check")
  /\ ~MustClose
  /\ at' = "idle"
  /\ OnlyMoves

-----------------------------------------------------------------------------
(* The process is gone after a fault; nothing happens any more.            *)
Crashed == fault # "none" /\ UNCHANGED vars

Publishing == \E r \in Requests : PublishRequest(r)

Calling == \/ Retry \/ Abort \/ AbortWithoutConnection \/ AbortIgnored
           \/ Reconnect \/ ReconnectWithoutConnection

Callbacks == \/ CallSuccessCallback \/ CallErrorCallback \/ RetryStreamAtOnce
             \/ SkipStream \/ CallbacksDone

Sending == Send \/ SendToFails \/ QuicheSendFails

Receiving == \/ Receive \/ ReceiveEstablished \/ ReceiveClose \/ RecvFromFails
             \/ RecvFromFailsWithoutConnection \/ QuicheRecvFails

Connecting == \/ UpdatePhaseCreateSocket \/ UpdatePhaseInitialize
              \/ InitializeWithoutAddress \/ StartEarlyData \/ SkipEarlyData
              \/ AwaitEstablished \/ FinishHandshake

Waiting == StartRetry \/ AwaitRetry \/ StartPolling

Polling == \/ PollDone
           \/ \E id \in StreamIds :
                \/ PollFinished(id) \/ PollResponse(id)
                \/ PollInvalidStream(id) \/ PollReset(id) \/ PollGoAway(id)

Starting == StartStream \/ StartStreamFails \/ StartDone

ShuttingDown == UpdatePhaseStartShutdown \/ UpdatePhaseWaitShutdown

Migrating == \/ AwaitResolution \/ Migrate \/ MigrateRefused
             \/ MigrateWithoutAddress

Checking == CheckConnectionClosed \/ CheckConnectionTimeout \/ CheckDone

Next == \/ Publishing \/ Calling \/ IssueCallbacks \/ Callbacks
        \/ Sending \/ Receiving \/ Connecting \/ Waiting \/ Polling
        \/ Starting \/ ShuttingDown \/ Migrating \/ Checking \/ Crashed

Spec == Init /\ [][Next]_vars

(* Fairness.  A native call comes to its end.  The update thread and the   *)
(* application's thread, each calling again and again, both get the host's *)
(* lock in the end.  The server completes the handshake, answers what it   *)
(* is asked, and the timer of a closing connection runs out.  So do, for a *)
(* migration that goes on, ConnectionMigrationTimeOut and quiche's idle    *)
(* timer, if it is enabled: no packet is read while the code waits there.  *)
(* What the code makes of a timer is not assumed.                          *)
Fairness ==
  /\ WF_vars(at # "idle" /\ Next)
  /\ SF_vars(Send)
  /\ SF_vars(IssueCallbacks)
  /\ SF_vars(ReceiveEstablished)
  /\ \A id \in StreamIds : SF_vars(PollFinished(id))
  /\ SF_vars(conn = "closing" /\ CheckConnectionTimeout)
  /\ SF_vars(AwaitResolution /\ conn' = "closed")

FairSpec == Spec /\ Fairness
=============================================================================
