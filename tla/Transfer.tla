------------------------------- MODULE Transfer -------------------------------
(***************************************************************************)
(* The bytes of the responses: the buffer of each Stream, its counters,    *)
(* and the progress an application is told.  The module adds to the steps  *)
(* of Connection what they do to bytes (qwfs_h3_stream.cpp: EventHeaders,  *)
(* EventData, AddProgress, Clear; qwfs_connection.cpp: _totalWriteSize),   *)
(* and lets the host call GetProgress and IssueCallbacks together, as      *)
(* Nhh3Impl.Update does.                                                   *)
(*                                                                         *)
(* A response goes to a file if its request names one, to memory if not.   *)
(* The server sends headers, with or without a true content-length, then   *)
(* the body, in chunks, then the end of the stream.  Reading a body does   *)
(* not fail here, and neither does starting a request (Failures must not   *)
(* contain these): a started Stream that has a file has it open.           *)
(***************************************************************************)
EXTENDS Connection

CONSTANTS
  Saved,    \* the requests with a _saveFilePath, each of its own
  Length,   \* the size of the body the server has for each request
  Word      \* the range of uint64_t: 2^64 in the code

ASSUME TransferAssumption ==
  /\ Saved \subseteq Requests
  /\ Length \in [Requests -> Nat]
  /\ Word \in Nat /\ \A r \in Requests : 2 * Length[r] < Word
  /\ Failures \cap {"body", "sendRequest", "openFile"} = {}

VARIABLES
  bytes,    \* of each Stream: _bodySize, _writeSize, _progress, size of _body
  file,     \* the size of what is written to each file
  total,    \* _totalWriteSize
  served,   \* what the server has sent on each stream, and was read
  told      \* history: the bytes of each request in the progress returned

byteVars == <<bytes, file, total, served, told>>
transferVars == <<vars, byteVars>>

(* What is still to be reported is part of what is written.                *)
Counters ==
  {b \in [size : Nat, write : Nat, progress : Nat, capacity : Nat] :
     b.progress <= b.write}

NoBytes  == [size |-> 0, write |-> 0, progress |-> 0, capacity |-> 0]
NothingServed == [headers |-> FALSE, sent |-> 0]

BytesOK ==
  /\ bytes \in [Requests -> Counters]
  /\ file \in [Requests -> Nat]
  /\ total \in Nat
  /\ served \in [StreamIds -> [headers : BOOLEAN, sent : Nat]]
  /\ told \in [Requests -> Nat]

TransferInit ==
  /\ Init
  /\ bytes = [r \in Requests |-> NoBytes]
  /\ file = [r \in Requests |-> 0]
  /\ total = 0
  /\ served = [id \in StreamIds |-> NothingServed]
  /\ told = [r \in Requests |-> 0]

(* Mutant: _progress is not reset.                                         *)
MutCleared(b) == [NoBytes EXCEPT !.progress = b.progress]

Cleared(b) == NoBytes

(* Stream::Clear and the destructor, for the requests of a set.            *)
Forget(rs) ==
  /\ bytes' = [r \in Requests |-> IF r \in rs THEN Cleared(bytes[r]) ELSE bytes[r]]
  /\ told'  = [r \in Requests |-> IF r \in rs THEN 0 ELSE told[r]]

-----------------------------------------------------------------------------
(* EventData                                                               *)

(* Mutant: the difference is taken as a signed number.                     *)
MutClamp(size, write, n) == IF 0 > size - (n + write) THEN size - write ELSE n

(* "if (0 > (_bodySize - (recvSize + _writeSize)))": the difference of     *)
(* unsigned numbers is never below 0.                                      *)
Clamp(size, write, n) ==
  IF 0 > (size - (n + write)) % Word THEN size - write ELSE n

(* Mutant: the buffer of an announced body is made for the first chunk.    *)
MutCapacity(b, n) ==
  IF b.write = 0 THEN n ELSE IF b.size = 0 THEN b.write + n ELSE b.capacity

(* malloc for the first chunk, of the announced size if there is one;      *)
(* realloc for the others if there is none.                                *)
Capacity(b, n) ==
  CASE b.write = 0 /\ b.size # 0 -> b.size
    [] b.write = 0 /\ b.size = 0 -> n
    [] b.write # 0 /\ b.size = 0 -> b.write + n
    [] OTHER                     -> b.capacity

(* The counters after a chunk that goes to memory, or to a file.           *)
Written(b, n, toFile) ==
  LET m == Clamp(b.size, b.write, n)
  IN  [b EXCEPT !.capacity = IF toFile THEN @ ELSE Capacity(b, m),
                !.write = @ + m, !.progress = @ + m]

(* What the server still has on stream id.                                 *)
Unread(id) == IF peer.asked[id] = Absent THEN 0
              ELSE Length[peer.asked[id]] - served[id].sent

(* EventHeaders: content-length is noted if it is there; nothing resets it. *)
ReadHeaders(id) ==
  /\ ~served[id].headers
  /\ served' = [served EXCEPT ![id].headers = TRUE]
  /\ \E size \in {Length[peer.asked[id]], bytes[streamsMap[id]].size} :
       bytes' = [bytes EXCEPT ![streamsMap[id]].size = size]
  /\ UNCHANGED file

(* EventData reads the stream the Stream object knows.                     *)
ReadData(id) ==
  LET r == streamsMap[id]
  IN  /\ served[id].headers /\ Unread(id) > 0
      /\ stream[r].handle = "current"
      /\ \E n \in 1 .. Unread(stream[r].id) :
           /\ served' = [served EXCEPT ![stream[r].id].sent = @ + n]
           /\ bytes' = [bytes EXCEPT ![r] = Written(@, n, r \in Saved)]
           /\ file' = IF r \notin Saved THEN file
                      ELSE [file EXCEPT ![r] =
                              @ + Clamp(bytes[r].size, bytes[r].write, n)]

Respond(id) ==
  /\ PollResponse(id)
  /\ IF Unmapped(id) THEN UNCHANGED <<served, bytes, file>>
                     ELSE ReadHeaders(id) \/ ReadData(id)
  /\ UNCHANGED <<total, told>>

(* FINISHED: the size of the body is added to the total.                   *)
Finish(id) ==
  /\ PollFinished(id)
  /\ served[id].headers /\ Unread(id) = 0
  /\ total' = IF Unmapped(id) THEN total ELSE total + bytes[streamsMap[id]].write
  /\ UNCHANGED <<bytes, file, served, told>>

-----------------------------------------------------------------------------
(* The total of a batch of requests                                        *)

(* Mutant: the status is not looked at.                                    *)
MutRestartedTotal == 0

(* The total starts again from 0 with the first request after a wait.      *)
RestartedTotal == IF status = "Wait" THEN 0 ELSE total

Publish(r) ==
  /\ PublishRequest(r)
  /\ total' = RestartedTotal
  /\ UNCHANGED <<bytes, file, served, told>>

(* Mutant: the file is opened to append to it.                             *)
MutOpened(r) == file

(* fopen with "wb": what the file held is gone.                            *)
Opened(r) == IF r \in Saved THEN [file EXCEPT ![r] = 0] ELSE file

StartTransfer ==
  /\ StartStream
  /\ file' = Opened(Head(stock))
  /\ total' = RestartedTotal
  /\ served' = [served EXCEPT ![peer.next] = NothingServed]
  /\ UNCHANGED <<bytes, told>>

(* ClearForRetry                                                           *)
RestartConnection ==
  /\ UpdatePhaseCreateSocket
  /\ total' = 0
  /\ UNCHANGED <<bytes, file, served, told>>

-----------------------------------------------------------------------------
(* The end of Streams                                                      *)

ShutdownStreams ==
  /\ UpdatePhaseStartShutdown
  /\ Forget({r \in ToSet(streams) : stream[r].status = "Connecting"})
  /\ UNCHANGED <<file, total, served>>

DiscardStreams ==
  /\ Abort
  /\ Forget({r \in Requests : outcome[r] = "pending"})
  /\ UNCHANGED <<file, total, served>>

-----------------------------------------------------------------------------
(* Nhh3Impl.Update                                                         *)

AnyCallback == \E r \in ToSet(streams) : stream[r].status # "Connecting"

(* Mutant: the callbacks come first, and destroy what they deliver.        *)
MutReported == {r \in ToSet(streams) : stream[r].status # "Completed"}

(* The requests GetProgress goes through.                                  *)
Reported == ToSet(streams)

(* GetProgress: each started request's _progress is returned and reset.    *)
GetProgress ==
  /\ told' = [r \in Requests |->
                IF r \in Reported THEN told[r] + bytes[r].progress ELSE told[r]]
  /\ bytes' = [r \in Requests |->
                 IF r \in Reported THEN [bytes[r] EXCEPT !.progress = 0]
                 ELSE bytes[r]]

UpdateOfHost ==
  /\ IF AnyCallback THEN IssueCallbacks
                    ELSE Running("idle") /\ UNCHANGED vars
  /\ GetProgress
  /\ UNCHANGED <<file, total, served>>

-----------------------------------------------------------------------------
(* The steps of Connection that have nothing to do with bytes.             *)
OtherCalls == \/ Retry \/ AbortWithoutConnection \/ AbortIgnored
              \/ Reconnect \/ ReconnectWithoutConnection

OtherConnecting == \/ UpdatePhaseInitialize \/ InitializeWithoutAddress
                   \/ StartEarlyData \/ SkipEarlyData
                   \/ AwaitEstablished \/ FinishHandshake

OtherPolling == \/ PollDone
                \/ \E id \in StreamIds :
                     PollInvalidStream(id) \/ PollReset(id) \/ PollGoAway(id)

OtherSteps ==
  /\ \/ OtherCalls \/ Callbacks \/ Sending \/ Receiving \/ OtherConnecting
     \/ Waiting \/ OtherPolling \/ StartDone \/ UpdatePhaseWaitShutdown
     \/ Migrating \/ Checking \/ Crashed
  /\ UNCHANGED byteVars

TransferNext ==
  \/ \E r \in Requests : Publish(r)
  \/ \E id \in StreamIds : Respond(id) \/ Finish(id)
  \/ StartTransfer \/ RestartConnection \/ ShutdownStreams \/ DiscardStreams
  \/ UpdateOfHost \/ OtherSteps

TransferSpec == TransferInit /\ [][TransferNext]_transferVars
=============================================================================
