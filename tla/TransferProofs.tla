---------------------------- MODULE TransferProofs ----------------------------
(***************************************************************************)
(* Theorems about the bytes of responses, for bodies of any size, read in  *)
(* chunks of any size.                                                     *)
(***************************************************************************)
EXTENDS TransferProperties, ConnectionProofs

-----------------------------------------------------------------------------
(* The module adds to Connection without changing it.                      *)

(* Every step is a step of the connection, or GetProgress without one.     *)
LEMMA TransferStepSimulates ==
  ASSUME [TransferNext]_transferVars
  PROVE  [Next]_vars
<1>1. CASE \E r \in Requests : Publish(r)
  BY <1>1 DEF Publish, Next, Publishing
<1>2. CASE \E id \in StreamIds : Respond(id) \/ Finish(id)
  BY <1>2 DEF Respond, Finish, Next, Polling
<1>3. CASE StartTransfer \/ RestartConnection \/ ShutdownStreams \/ DiscardStreams
  BY <1>3 DEF StartTransfer, RestartConnection, ShutdownStreams, DiscardStreams,
     Next, Starting, Connecting, ShuttingDown, Calling
<1>4. CASE UpdateOfHost
  BY <1>4 DEF UpdateOfHost, Next
<1>5. CASE OtherSteps
  <2>1. CASE OtherCalls
    BY <2>1 DEF OtherCalls, Next, Calling
  <2>2. CASE OtherConnecting
    BY <2>2 DEF OtherConnecting, Next, Connecting
  <2>3. CASE OtherPolling
    BY <2>3 DEF OtherPolling, Next, Polling
  <2>4. CASE StartDone \/ UpdatePhaseWaitShutdown
    BY <2>4 DEF Next, Starting, ShuttingDown
  <2>5. CASE \/ Callbacks \/ Sending \/ Receiving \/ Waiting \/ Migrating
             \/ Checking \/ Crashed
    BY <2>5 DEF Next
  <2> QED BY <1>5, <2>1, <2>2, <2>3, <2>4, <2>5 DEF OtherSteps
<1>6. CASE UNCHANGED transferVars
  BY <1>6 DEF transferVars
<1> QED BY <1>1, <1>2, <1>3, <1>4, <1>5, <1>6 DEF TransferNext

(* The connection with its bytes is a connection: its steps add counters   *)
(* to those of Connection and restrict them, but never do what these do    *)
(* not.                                                                    *)
THEOREM TransferRefinesConnection == TransferSpec => Spec
<1>1. TransferInit => Init
  BY DEF TransferInit
<1> QED BY <1>1, TransferStepSimulates, PTL DEF TransferSpec, Spec

(* Hence the requests of transfers are delivered once or discarded too:    *)
(* reading bodies and asking for progress loses and doubles none.          *)
THEOREM TransferImplementsContract == TransferSpec => ImplementsContract
BY TransferRefinesConnection, ConnectionImplementsContract, PTL

-----------------------------------------------------------------------------
(* The counters                                                            *)

(* A sum that fits the word is not taken for a negative one: the clamp     *)
(* never shortens a chunk, whatever was announced.                         *)
LEMMA NoClamp ==
  ASSUME NEW size \in Nat, NEW write \in Nat, NEW n \in Nat, Word > 0
  PROVE  Clamp(size, write, n) = n
<1> DEFINE d == size - (n + write)
<1>1. d \in Int /\ Word \in Nat
  BY TransferAssumption
<1> HIDE DEF d
<1>2. d % Word >= 0
  BY <1>1
<1> QED BY <1>1, <1>2 DEF Clamp, d

(* A chunk is added to what is written and to what is to be reported.      *)
LEMMA ChunkWritten ==
  ASSUME NEW b \in Counters, NEW n \in Nat, NEW toFile \in BOOLEAN, Word > 0
  PROVE  /\ Written(b, n, toFile) \in Counters
         /\ Written(b, n, toFile).write = b.write + n
         /\ Written(b, n, toFile).progress = b.progress + n
<1> DEFINE c == IF toFile THEN b.capacity ELSE Capacity(b, n)
           w == b.write + n
           p == b.progress + n
           u == Written(b, n, toFile)
<1>0. /\ b \in [size : Nat, write : Nat, progress : Nat, capacity : Nat]
      /\ b.progress <= b.write
  BY DEF Counters
<1>1. Clamp(b.size, b.write, n) = n
  BY <1>0, NoClamp
<1>2. c \in Nat /\ w \in Nat /\ p \in Nat /\ p <= w
  BY <1>0 DEF Capacity
<1>3. u = [b EXCEPT !.capacity = c, !.write = w, !.progress = p]
  BY <1>1 DEF Written
<1> HIDE DEF c, w, p, u
<1>4. u \in Counters /\ u.write = w /\ u.progress = p
  BY <1>0, <1>2, <1>3 DEF Counters
<1> QED BY <1>4 DEF u, w, p

(* With a request there is a word it fits.                                 *)
LEMMA WordPositive == ASSUME NEW r \in Requests PROVE Word > 0
BY TransferAssumption

(* What the proof says of a state, beyond the types: every Stream has the  *)
(* id of a stream of the connection; what was reported and what is to be   *)
(* reported is what was written; nothing is left to be reported while the  *)
(* callbacks run, nor of what they have delivered.                         *)
IdsKnown == \A r \in Requests : stream[r].id \in StreamIds
AllCounted == \A r \in Requests : told[r] + bytes[r].progress = bytes[r].write
CallbacksReported ==
  at = "callbacks" => \A r \in ToSet(streams) : bytes[r].progress = 0
DeliveredReported ==
  \A r \in Requests : outcome[r] = "delivered" => bytes[r].progress = 0

BytesInv == BytesOK /\ IdsKnown /\ AllCounted /\ CallbacksReported
              /\ DeliveredReported

(* What the steps without bytes do to the state BytesInv speaks of.        *)
LEMMA OtherStepsQuiet ==
  ASSUME ListsInv, OtherSteps
  PROVE  /\ UNCHANGED byteVars
         /\ at' = "callbacks" => at = "callbacks"
         /\ \/ UNCHANGED outcome /\ (at = "callbacks" => UNCHANGED streams)
            \/ CallSuccessCallback
         /\ \A r \in Requests : stream'[r].id \in {stream[r].id, 0}
<1> DEFINE Quiet == /\ UNCHANGED <<outcome, stream>>
                    /\ at' = "callbacks" => at = "callbacks"
                    /\ at = "callbacks" => UNCHANGED streams
<1>0. /\ UNCHANGED byteVars
      /\ stream \in [Requests -> Streams] /\ cursor \in Nat \ {0}
      /\ streams \in Seq(Requests)
  BY DEF OtherSteps, ListsInv, TypeOK, StreamsOK, ControlOK, QueuesOK
<1> USE DEF Crash, OnlyMoves, netVars, appVars, listVars, queueVars, requestVars,
            Running
<1>1. CASE OtherCalls
  BY <1>0, <1>1 DEF OtherCalls, Retry, AbortWithoutConnection, AbortIgnored,
     Reconnect, ReconnectWithoutConnection, Call
<1>2. CASE Callbacks
  <2>1. CASE CallSuccessCallback
    <3>1. streams[cursor] \in Requests
      BY <1>0, <2>1 DEF CallSuccessCallback, InCallbacks
    <3>2. \A r \in Requests : stream'[r].id \in {stream[r].id, 0}
      BY <1>0, <2>1, <3>1 DEF CallSuccessCallback, ClearedStream
    <3> QED BY <1>0, <2>1, <3>2 DEF CallSuccessCallback
  <2>2. CASE CallErrorCallback \/ RetryStreamAtOnce \/ SkipStream \/ CallbacksDone
    BY <1>0, <2>2 DEF CallErrorCallback, RetryStreamAtOnce, SkipStream, CallbacksDone
  <2> QED BY <1>2, <2>1, <2>2 DEF Callbacks
<1>b. ASSUME NEW spare, NEW s, NEW q, BreakOff(spare, s, q)
      PROVE  at' = "idle"
  BY <1>b DEF BreakOff
<1>3. CASE Sending
  <2>1. Quiet
    BY <1>3, <1>b DEF Sending, Send, SendToFails, QuicheSendFails
  <2> QED BY <1>0, <2>1
<1>4. CASE Receiving
  <2>1. Quiet
    BY <1>4, <1>b DEF Receiving, Receive, ReceiveEstablished, ReceiveClose,
       RecvFromFails, RecvFromFailsWithoutConnection, QuicheRecvFails
  <2> QED BY <1>0, <2>1
<1>5. CASE OtherConnecting
  <2>1. CASE UpdatePhaseInitialize
    <3>1. stream' = Detached
      BY <2>1 DEF UpdatePhaseInitialize
    <3>2. \A r \in Requests : stream'[r].id = stream[r].id
      BY <1>0, <3>1 DEF Detached, Streams
    <3>3. UNCHANGED outcome /\ at # "callbacks" /\ at' # "callbacks"
      BY <2>1 DEF UpdatePhaseInitialize, InPhase
    <3> QED BY <1>0, <3>2, <3>3
  <2>2. Quiet \/ UpdatePhaseInitialize
    BY <1>5 DEF OtherConnecting, InitializeWithoutAddress, StartEarlyData,
       SkipEarlyData, AwaitEstablished, FinishHandshake, InPhase
  <2> QED BY <1>0, <2>1, <2>2
<1>6. CASE Waiting
  BY <1>0, <1>6 DEF Waiting, StartRetry, AwaitRetry, StartPolling, InPhase
<1>7. CASE OtherPolling
  <2>1. Quiet
    BY <1>7 DEF OtherPolling, PollDone, PollInvalidStream, PollReset, PollGoAway,
       DropEvent, Event
  <2> QED BY <1>0, <2>1
<1>8. CASE StartDone
  <2>1. Quiet
    BY <1>8 DEF StartDone, LeaveLoop
  <2> QED BY <1>0, <2>1
<1>9. CASE UpdatePhaseWaitShutdown
  <2>1. Quiet
    BY <1>9 DEF UpdatePhaseWaitShutdown, InPhase
  <2> QED BY <1>0, <2>1
<1>10. CASE Migrating
  <2>1. Quiet
    BY <1>10 DEF Migrating, AwaitResolution, Migrate, MigrateRefused,
       MigrateWithoutAddress, InPhase
  <2> QED BY <1>0, <2>1
<1>11. CASE Checking
  <2>1. Quiet
    BY <1>11 DEF Checking, CheckConnectionClosed, CheckConnectionTimeout, CheckDone
  <2> QED BY <1>0, <2>1
<1>12. CASE Crashed
  BY <1>0, <1>12 DEF Crashed, vars
<1> QED
  BY <1>1, <1>2, <1>3, <1>4, <1>5, <1>6, <1>7, <1>8, <1>9, <1>10, <1>11, <1>12
     DEF OtherSteps

(* Clearing Streams leaves nothing to report of them.                      *)
LEMMA ForgetStep ==
  ASSUME BytesOK, AllCounted, NEW rs, Forget(rs),
         UNCHANGED <<file, total, served>>
  PROVE  /\ BytesOK' /\ AllCounted'
         /\ \A r \in Requests : bytes'[r].progress \in {bytes[r].progress, 0}
<1>1. NoBytes \in Counters
  BY DEF NoBytes, Counters
<1>2. bytes' \in [Requests -> Counters] /\ told' \in [Requests -> Nat]
  BY <1>1 DEF BytesOK, Forget, Cleared
<1>3. \A r \in Requests :
        \/ bytes'[r] = bytes[r] /\ told'[r] = told[r]
        \/ bytes'[r] = NoBytes /\ told'[r] = 0
  BY DEF Forget, Cleared
<1> QED BY <1>2, <1>3 DEF BytesOK, AllCounted, NoBytes

(* Every step keeps the counters in order.                                 *)
LEMMA BytesStep ==
  ASSUME ListsInv, BytesInv, TransferNext
  PROVE  BytesInv'
<1> USE DEF BytesInv
<1>0. /\ stream \in [Requests -> Streams]
      /\ streamsMap \in [StreamIds -> Requests \cup {Absent, Null}]
      /\ peer.next \in 0 .. MaxStreams
      /\ peer.asked \in [StreamIds -> Requests \cup {Absent}]
      /\ outcome \in [Requests -> {"new", "pending", "delivered", "aborted"}]
      /\ stock \in Seq(Requests) /\ streams \in Seq(Requests)
      /\ cursor \in Nat \ {0}
      /\ Partition(stock, streams, errorStock, Pending)
  BY HeldPartition DEF ListsInv, TypeOK, StreamsOK, QueuesOK, ControlOK,
     RequestInOneList, Held
<1>1. 0 \in StreamIds
  BY ConnectionAssumption DEF StreamIds
<1>2. \A r \in ToSet(streams) : r \in Requests
  BY <1>0 DEF ToSet
<1>i. ASSUME NEW r, NEW v, \/ stream' = [stream EXCEPT ![r].body = v]
                          \/ stream' = [stream EXCEPT ![r].status = v]
      PROVE  IdsKnown'
  <2>1. \A q \in Requests : stream'[q].id = stream[q].id
    BY <1>0, <1>i DEF Streams
  <2> QED BY <2>1 DEF IdsKnown
<1>3. CASE \E r \in Requests : Publish(r)
  <2> PICK r \in Requests : Publish(r)
    BY <1>3
  <2>1. total' \in Nat
    BY DEF Publish, RestartedTotal, BytesOK
  <2>2. /\ \A q \in Requests : outcome'[q] = "delivered" => outcome[q] = "delivered"
        /\ UNCHANGED <<streams, stream, at>>
    BY <1>0 DEF Publish, PublishRequest
  <2> QED BY <2>1, <2>2 DEF Publish, BytesOK, IdsKnown, AllCounted,
             CallbacksReported, DeliveredReported
<1>4. CASE \E id \in StreamIds : Respond(id)
  <2> PICK id \in StreamIds : Respond(id)
    BY <1>4
  <2> DEFINE r == streamsMap[id]
  <2>1. UNCHANGED <<streams, outcome, total, told>> /\ at' # "callbacks"
    BY DEF Respond, PollResponse, DropEvent, Event, Running, queueVars
  <2>2. IdsKnown'
    <3>1. CASE UNCHANGED stream
      BY <3>1 DEF IdsKnown
    <3>2. CASE \E v : \/ stream' = [stream EXCEPT ![r].body = v]
                     \/ stream' = [stream EXCEPT ![r].status = v]
      BY <3>2, <1>i
    <3> QED BY <3>1, <3>2 DEF Respond, PollResponse
  <2>3. peer.asked[id] \in Requests /\ ~Destroyed(id)
    BY <1>0 DEF Respond, PollResponse, Event
  <2>4. CASE UNCHANGED <<served, bytes, file>>
    BY <2>1, <2>2, <2>4 DEF BytesOK, AllCounted, CallbacksReported,
       DeliveredReported
  <2>5. CASE ~Unmapped(id) /\ ReadHeaders(id)
    <3>1. r \in Requests /\ bytes[r] \in Counters
      BY <1>0, <2>5 DEF Unmapped, BytesOK
    <3>2. PICK size \in {Length[peer.asked[id]], bytes[r].size} :
            bytes' = [bytes EXCEPT ![r].size = size]
      BY <2>5 DEF ReadHeaders
    <3>3. size \in Nat
      BY <2>3, <3>1, TransferAssumption DEF Counters
    <3>4. [bytes[r] EXCEPT !.size = size] \in Counters
      BY <3>1, <3>3 DEF Counters
    <3>5. bytes' \in [Requests -> Counters]
      BY <3>2, <3>4 DEF BytesOK
    <3>6. \A q \in Requests : /\ bytes'[q].write = bytes[q].write
                              /\ bytes'[q].progress = bytes[q].progress
      BY <3>1, <3>2 DEF BytesOK, Counters
    <3>7. served' \in [StreamIds -> [headers : BOOLEAN, sent : Nat]]
      BY <2>5 DEF ReadHeaders, BytesOK
    <3>8. UNCHANGED file
      BY <2>5 DEF ReadHeaders
    <3> QED BY <2>1, <2>2, <3>5, <3>6, <3>7, <3>8 DEF BytesOK, AllCounted,
               CallbacksReported, DeliveredReported
  <2>6. CASE ~Unmapped(id) /\ ReadData(id)
    <3>1. r \in Requests /\ bytes[r] \in Counters /\ outcome[r] = "pending"
      BY <1>0, <2>3, <2>6 DEF Unmapped, Destroyed, BytesOK
    <3> DEFINE sid == stream[r].id
    <3>2. sid \in StreamIds
      BY <3>1 DEF IdsKnown
    <3>3. PICK n \in 1 .. Unread(sid) :
            /\ served' = [served EXCEPT ![sid].sent = @ + n]
            /\ bytes' = [bytes EXCEPT ![r] = Written(@, n, r \in Saved)]
            /\ file' = IF r \notin Saved THEN file
                       ELSE [file EXCEPT ![r] =
                               @ + Clamp(bytes[r].size, bytes[r].write, n)]
      BY <2>6 DEF ReadData
    <3>4. n \in Nat /\ (r \in Saved) \in BOOLEAN
      OBVIOUS
    <3> HIDE DEF sid
    <3>5. /\ Written(bytes[r], n, r \in Saved) \in Counters
          /\ Written(bytes[r], n, r \in Saved).write = bytes[r].write + n
          /\ Written(bytes[r], n, r \in Saved).progress = bytes[r].progress + n
      BY <3>1, <3>4, ChunkWritten, WordPositive
    <3> DEFINE w == Written(bytes[r], n, r \in Saved)
    <3> HIDE DEF w
    <3>6. bytes' = [bytes EXCEPT ![r] = w]
      BY <3>3 DEF w
    <3>7. bytes' \in [Requests -> Counters]
      BY <3>5, <3>6 DEF BytesOK, w
    <3>8. served' \in [StreamIds -> [headers : BOOLEAN, sent : Nat]]
      <4>1. served[sid].sent + n \in Nat /\ served[sid].headers \in BOOLEAN
        BY <3>2, <3>4 DEF BytesOK
      <4> QED BY <3>2, <3>3, <4>1 DEF BytesOK
    <3>9. AllCounted'
      <4>1. told[r] \in Nat /\ bytes[r].progress \in Nat /\ bytes[r].write \in Nat
            /\ told[r] + bytes[r].progress = bytes[r].write
        BY <3>1 DEF BytesOK, Counters, AllCounted
      <4>2. told[r] + w.progress = w.write
        BY <4>1, <3>4, <3>5 DEF w
      <4>3. bytes'[r] = w /\ \A q \in Requests \ {r} : bytes'[q] = bytes[q]
        BY <3>1, <3>6 DEF BytesOK
      <4> QED BY <2>1, <4>2, <4>3 DEF AllCounted
    <3>10. DeliveredReported'
      BY <2>1, <3>1, <3>6 DEF DeliveredReported, BytesOK
    <3>11. file' \in [Requests -> Nat]
      <4>1. bytes[r].size \in Nat /\ bytes[r].write \in Nat /\ file[r] \in Nat
        BY <3>1 DEF BytesOK, Counters
      <4>2. Clamp(bytes[r].size, bytes[r].write, n) = n
        BY <3>1, <3>4, <4>1, NoClamp, WordPositive
      <4>3. file' = file \/ file' = [file EXCEPT ![r] = @ + n]
        BY <3>3, <4>2
      <4> QED BY <3>1, <3>4, <4>1, <4>3 DEF BytesOK
    <3> QED BY <2>1, <2>2, <3>7, <3>8, <3>9, <3>10, <3>11 DEF BytesOK,
               CallbacksReported
  <2> QED BY <2>4, <2>5, <2>6 DEF Respond
<1>5. CASE \E id \in StreamIds : Finish(id)
  <2> PICK id \in StreamIds : Finish(id)
    BY <1>5
  <2>1. UNCHANGED <<streams, outcome, bytes, file, served, told>> /\ at' # "callbacks"
    BY DEF Finish, PollFinished, DropEvent, Event, Running, queueVars
  <2>2. IdsKnown'
    <3>1. CASE UNCHANGED stream
      BY <3>1 DEF IdsKnown
    <3>2. CASE stream' = [stream EXCEPT ![streamsMap[id]].status = "Completed"]
      BY <3>2, <1>i
    <3> QED BY <3>1, <3>2 DEF Finish, PollFinished
  <2>3. total' \in Nat
    <3>1. ~Unmapped(id) => bytes[streamsMap[id]].write \in Nat
      BY <1>0 DEF Unmapped, BytesOK, Counters
    <3> QED BY <3>1 DEF Finish, BytesOK
  <2> QED BY <2>1, <2>2, <2>3 DEF BytesOK, AllCounted, CallbacksReported,
             DeliveredReported
<1>6. CASE StartTransfer
  <2>1. UNCHANGED <<outcome, bytes, told>> /\ at' # "callbacks"
    BY <1>6 DEF StartTransfer, StartStream, CanStart, Running
  <2>2. peer.next \in StreamIds
    BY <1>0, <1>6, ConnectionAssumption DEF StartTransfer, StartStream, StreamIds
  <2>3. IdsKnown'
    BY <1>0, <1>6, <2>2 DEF StartTransfer, StartStream, IdsKnown
  <2>4. BytesOK'
    <3>1. file' \in [Requests -> Nat]
      BY <1>6 DEF StartTransfer, Opened, BytesOK
    <3> QED BY <1>6, <2>1, <2>2, <3>1 DEF StartTransfer, RestartedTotal,
               NothingServed, BytesOK
  <2> QED BY <2>1, <2>3, <2>4 DEF AllCounted, CallbacksReported, DeliveredReported
<1>7. CASE RestartConnection
  <2>1. UNCHANGED <<outcome, bytes, told>> /\ at' # "callbacks"
    BY <1>7 DEF RestartConnection, UpdatePhaseCreateSocket
  <2>2. stream' = Detached
    BY <1>7 DEF RestartConnection, UpdatePhaseCreateSocket
  <2>3. IdsKnown'
    BY <1>0, <2>2 DEF Detached, IdsKnown
  <2>4. BytesOK'
    BY <1>7 DEF RestartConnection, BytesOK
  <2> QED BY <2>1, <2>3, <2>4 DEF AllCounted, CallbacksReported, DeliveredReported
<1>8. CASE ShutdownStreams
  <2>1. UNCHANGED <<outcome, file, total, served>> /\ at' # "callbacks"
    BY <1>8 DEF ShutdownStreams, UpdatePhaseStartShutdown
  <2>2. IdsKnown'
    BY <1>0, <1>1, <1>8 DEF ShutdownStreams, UpdatePhaseStartShutdown,
       ClearedStream, IdsKnown
  <2>3. /\ BytesOK' /\ AllCounted'
        /\ \A r \in Requests : bytes'[r].progress \in {bytes[r].progress, 0}
    BY <1>8, <2>1, ForgetStep DEF ShutdownStreams
  <2> QED BY <2>1, <2>2, <2>3 DEF CallbacksReported, DeliveredReported
<1>9. CASE DiscardStreams
  <2>1. UNCHANGED <<file, total, served>> /\ at' # "callbacks"
    BY <1>9 DEF DiscardStreams, Abort, Call, Running
  <2>2. IdsKnown'
    BY <1>0, <1>1, <1>9 DEF DiscardStreams, Abort, ClearedStream, IdsKnown
  <2>3. /\ BytesOK' /\ AllCounted'
        /\ \A r \in Requests : bytes'[r].progress \in {bytes[r].progress, 0}
    BY <1>9, <2>1, ForgetStep DEF DiscardStreams
  <2>4. \A r \in Requests : outcome'[r] = "delivered" => outcome[r] = "delivered"
    BY <1>0, <1>9 DEF DiscardStreams, Abort
  <2> QED BY <2>1, <2>2, <2>3, <2>4 DEF CallbacksReported, DeliveredReported
<1>10. CASE UpdateOfHost
  <2>1. UNCHANGED <<streams, stream, outcome>>
    BY <1>10 DEF UpdateOfHost, IssueCallbacks, vars, appVars, listVars, queueVars,
       requestVars
  <2>2. /\ UNCHANGED <<file, total, served>>
        /\ told' = [r \in Requests |->
             IF r \in ToSet(streams) THEN told[r] + bytes[r].progress ELSE told[r]]
        /\ bytes' = [r \in Requests |->
             IF r \in ToSet(streams) THEN [bytes[r] EXCEPT !.progress = 0]
             ELSE bytes[r]]
    BY <1>10 DEF UpdateOfHost, GetProgress, Reported
  <2>3. \A r \in Requests :
          /\ told[r] \in Nat /\ bytes[r] \in Counters
          /\ bytes[r].progress \in Nat /\ bytes[r].write \in Nat
          /\ [bytes[r] EXCEPT !.progress = 0] \in Counters
          /\ [bytes[r] EXCEPT !.progress = 0].progress = 0
          /\ [bytes[r] EXCEPT !.progress = 0].write = bytes[r].write
    BY DEF BytesOK, Counters
  <2>4. BytesOK'
    BY <2>2, <2>3 DEF BytesOK
  <2>5. AllCounted'
    BY <2>2, <2>3 DEF AllCounted
  <2>6. CallbacksReported' /\ DeliveredReported'
    BY <1>2, <2>1, <2>2, <2>3 DEF CallbacksReported, DeliveredReported
  <2> QED BY <2>1, <2>4, <2>5, <2>6 DEF IdsKnown
<1>11. CASE OtherSteps
  <2>1. UNCHANGED <<bytes, file, total, served, told>>
    BY <1>11, OtherStepsQuiet DEF byteVars
  <2>2. IdsKnown'
    BY <1>1, <1>11, OtherStepsQuiet DEF IdsKnown
  <2>3. CASE UNCHANGED outcome /\ (at = "callbacks" => UNCHANGED streams)
    BY <1>11, <2>1, <2>2, <2>3, OtherStepsQuiet DEF BytesOK, AllCounted,
       CallbacksReported, DeliveredReported
  <2>4. CASE CallSuccessCallback
    <3> DEFINE r == streams[cursor]
    <3>1. cursor \in 1 .. Len(streams) /\ at = "callbacks"
      BY <1>0, <2>4 DEF CallSuccessCallback, InCallbacks, Running
    <3>2. r \in ToSet(streams)
      BY <1>0, <3>1 DEF ToSet
    <3>3. bytes[r].progress = 0
      BY <3>1, <3>2 DEF CallbacksReported
    <3>4. ToSet(streams') = ToSet(streams) \ {r}
      BY <1>0, <2>4, <3>1, Removal DEF CallSuccessCallback, Partition
    <3>5. outcome' = [outcome EXCEPT ![r] = "delivered"]
      BY <2>4 DEF CallSuccessCallback
    <3> HIDE DEF r
    <3>6. CallbacksReported'
      BY <2>1, <3>1, <3>4 DEF CallbacksReported
    <3>7. DeliveredReported'
      BY <1>0, <2>1, <3>3, <3>5 DEF DeliveredReported
    <3> QED BY <2>1, <2>2, <3>6, <3>7 DEF BytesOK, AllCounted
  <2> QED BY <1>11, <2>3, <2>4, OtherStepsQuiet
<1> QED
  BY <1>3, <1>4, <1>5, <1>6, <1>7, <1>8, <1>9, <1>10, <1>11 DEF TransferNext

LEMMA InitialBytes == TransferInit => BytesInv
<1> SUFFICES ASSUME TransferInit PROVE BytesInv
  OBVIOUS
<1>1. NoBytes \in Counters /\ 0 \in StreamIds
  BY ConnectionAssumption DEF NoBytes, Counters, StreamIds
<1>2. BytesOK
  BY <1>1 DEF TransferInit, BytesOK, NothingServed
<1> QED
  BY <1>1, <1>2 DEF TransferInit, Init, BytesInv, IdsKnown, AllCounted,
     CallbacksReported, DeliveredReported, NoBytes, ClearedStream

LEMMA BytesInvStep ==
  ListsInv /\ BytesInv /\ [TransferNext]_transferVars => BytesInv'
<1>1. ASSUME BytesInv, UNCHANGED transferVars
      PROVE  BytesInv'
  BY <1>1 DEF BytesInv, BytesOK, IdsKnown, AllCounted, CallbacksReported,
     DeliveredReported, transferVars, byteVars, vars, appVars, listVars, queueVars,
     requestVars
<1> QED BY <1>1, BytesStep

-----------------------------------------------------------------------------
(* Theorems                                                                *)

LEMMA TransferInvariant == TransferSpec => [](ListsInv /\ BytesInv)
<1>1. TransferSpec => []ListsInv
  BY TransferRefinesConnection, InitialLists, ListsInvStep, PTL DEF Spec
<1> QED BY <1>1, InitialBytes, BytesInvStep, PTL DEF TransferSpec

(* The counters, the buffers and the total stay in their ranges, and what  *)
(* is to be reported never exceeds what is written, for bodies of any size *)
(* that come in chunks of any size, with any number of calls and failures. *)
THEOREM TransferTypeCorrect == TransferSpec => []TransferTypeOK
<1>1. ListsInv /\ BytesInv => TransferTypeOK
  BY DEF ListsInv, BytesInv, TransferTypeOK
<1> QED BY <1>1, TransferInvariant, PTL

(* When an application receives a response, the progress values it was     *)
(* given before contain all bytes of it: Nhh3Impl.Update asks for the      *)
(* progress before the callbacks, under one lock, and no retry, shutdown,  *)
(* abort or new connection in between makes a byte count twice or never.   *)
THEOREM ProgressReported == TransferSpec => []ReportedBeforeDelivered
<1>1. BytesInv => ReportedBeforeDelivered
  <2> SUFFICES ASSUME BytesInv, NEW r \in Requests, outcome[r] = "delivered"
               PROVE  told[r] = bytes[r].write
    BY DEF ReportedBeforeDelivered
  <2>1. told[r] \in Nat /\ bytes[r].progress = 0
    BY DEF BytesInv, BytesOK, DeliveredReported
  <2> QED BY <2>1 DEF BytesInv, AllCounted
<1> QED BY <1>1, TransferInvariant, PTL
=============================================================================
