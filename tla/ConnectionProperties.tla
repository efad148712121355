------------------------- MODULE ConnectionProperties -------------------------
(***************************************************************************)
(* What one connection promises: the properties the runs of MCConnection   *)
(* check and the theorems of ConnectionProofs, PhaseProofs and             *)
(* StreamProofs are about.                                                 *)
(***************************************************************************)
EXTENDS Connection

Pending == {r \in Requests : outcome[r] = "pending"}

(* The three lists of the connection hold each pending request exactly     *)
(* once and no other request.  StartStream, the callbacks, Reconnect, the  *)
(* swap at the end of a shutdown and RetryStream all move the owning       *)
(* pointers between lists; one that is lost is a request that never ends,  *)
(* one that is kept twice or too long a request that ends twice.           *)
RequestInOneList == IsInjective(Held) /\ ToSet(Held) = Pending

(* The raw pointers of _h3StreamsMap point to Streams that still exist.    *)
(* Deliveries and Abort destroy Streams; the map is cleaned separately, by *)
(* the id a Stream carries, which Clear resets to 0.                       *)
NoDanglingStream ==
  \A id \in StreamIds : ~Unmapped(id) => streamsMap[id] \in Pending

(* An event of stream id is handled by the Stream of the request that was  *)
(* sent on it, or dropped: no request is completed, and no body extended,  *)
(* by the answer to another.                                               *)
EventsReachOwner ==
  \A id \in StreamIds :
    peer.asked[id] # Absent /\ ~Unmapped(id) => streamsMap[id] = peer.asked[id]

(* No event is handed to a Stream that cannot take it: one that has been   *)
(* destroyed, or that holds no handle of this connection, to which         *)
(* quiche_h3_recv_body would be given what Clear has left.                 *)
EventsFindStream == fault # "Stream::EventData"

(* What hands _quicheConnection to quiche without looking at it, the       *)
(* phases from Handshake on but Wait, the polling and Stream::Start, is    *)
(* reached only while there is one, whatever error interrupted the set-up. *)
PhaseHasConnection ==
  \/ phase \in {"Handshake", "StartShutdown", "WaitShutdown", "ConnectionMigration"}
  \/ at \in {"poll", "start"}
  => conn # "null"

(* A started request has an HTTP/3 connection: UpdatePhaseCreateSocket     *)
(* drops both handles without a look at the list of started requests, so   *)
(* that every way back to it, after an Abort, a failed attempt to make the *)
(* socket or a Reconnect, must have emptied the list.  A request left in   *)
(* it would never be answered and take a slot of _maxConcurrentStreams for *)
(* good.                                                                   *)
StartedHaveHttp3 == streams # <<>> => h3 # "null" /\ phase # "CreateSocket"

(* While an application sees the status Wait in the phase Wait, no request *)
(* is being transferred: UpdatePhaseWait sets the status from the list of  *)
(* started requests, and everything else that sets it must agree.          *)
WaitMeansNoneStarted ==
  at = "idle" /\ phase = "Wait" /\ status = "Wait" => streams = <<>>

(* An error stays until something is done about it: Retry, Abort,          *)
(* Reconnect, a migration, or another attempt to make the socket.          *)
ErrorsStay ==
  [][IsError(status) /\ ~IsError(status') =>
       \/ callRetry \/ callAbort
       \/ phase = "CreateSocket"
       \/ "ConnectionMigration" \in {phase, phase'}]_vars

(* The connection implements the contract with the application; what is    *)
(* pending there is what the three lists hold here.                        *)
Contract == INSTANCE RequestContract WITH
  pending   <- ToSet(Held),
  delivered <- {r \in Requests : outcome[r] = "delivered"},
  aborted   <- {r \in Requests : outcome[r] = "aborted"}
ImplementsContract == Contract!Spec

Gone == fault # "none"

(* Every published request is delivered or discarded in the end, however   *)
(* calls of the application interrupt the connection, as long as nothing   *)
(* fails.                                                                  *)
RequestsSettle ==
  \A r \in Requests :
    (outcome[r] = "pending" /\ failures = 0)
      ~> (outcome[r] \in {"delivered", "aborted"} \/ failures > 0 \/ Gone)

(* An Abort comes to an end, with an answer of the server or without one:  *)
(* a new connection is about to be made, for the requests published        *)
(* meanwhile.  Not so if a Reconnect follows the Abort before that: it     *)
(* leaves the phases of the shutdown, and _callAbort stays set.            *)
AbortEnds == callAbort ~> (~callAbort \/ Gone)

(* A migration comes to an end, even one whose first attempt to resolve    *)
(* the host fails: the status of that attempt is read again after every    *)
(* attempt that succeeds, so that only the time-out ends it, and only if   *)
(* the phase asks quiche's timers and leaves when they close.              *)
MigrationEnds ==
  (phase = "ConnectionMigration") ~> (phase # "ConnectionMigration" \/ Gone)

(* "At the time of an error keep the requests, so that Retry can reissue   *)
(* them; only the processing goes back to wait, for Retry or Abort": an    *)
(* error ends in the phase Wait with no request started.                   *)
ErrorsPark == IsError(status) ~> ((phase = "Wait" /\ streams = <<>>) \/ Gone)

-----------------------------------------------------------------------------
(* What comments of the source say and the code does not do.               *)

(* StartStream, of a request the peer's stream limit refuses: "waiting a   *)
(* while and retrying should resolve it".  No error then, where the limit  *)
(* is all that fails.                                                      *)
StreamLimitIsNoError ==
  Failures = {"sendRequest"} /\ StartErrors = {"STREAM_LIMIT"} => ~IsError(status)

(* UpdatePhaseWaitShutdown keeps the requests "so that they can be         *)
(* reissued automatically at Retry"; the phase Retry goes to needs the     *)
(* server's address.                                                       *)
RetryHasAddress == phase = "Initialize" => peerAddInfo

(* Stream::Shutdown: "the individual failure callback is not called".      *)
(* With the shutdown as the only cause of failed requests, IssueCallbacks  *)
(* never gets to the callback and the Stream::Retry that follows it.       *)
ShutdownIsSilent == fault # "Stream::Start"

(* StartStream: "a stream id is unique, so there is no check with find".   *)
(* The id about to be used has no entry in the map.                        *)
UniqueIds ==
  CanStart /\ peer.next \in StreamIds => streamsMap[peer.next] = Absent

(* Reconnect, of requests under way: "they are done again from the         *)
(* beginning".  What is handed to the application was collected from one   *)
(* sending of its request.                                                 *)
BodyFromOneSending ==
  \A r \in Requests : outcome[r] = "delivered" => stream[r].body # "mixed"
=============================================================================
