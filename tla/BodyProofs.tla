------------------------------ MODULE BodyProofs ------------------------------
(***************************************************************************)
(* Theorems about the bytes of responses that need to know which request   *)
(* an event belongs to. They hold for bodies of any size, announced or     *)
(* not, in chunks of any size, under the hypotheses of PhaseProofs and     *)
(* StreamProofs.                                                           *)
(***************************************************************************)
EXTENDS TransferProofs, StreamProofs

(* The total of a batch starts again from 0 only while no request is       *)
(* started: what an application sees of the progress is of the batch under *)
(* way, whichever place of the code reset it.                              *)
THEOREM TotalRestarts == IdleScope => (TransferSpec => TotalRestartsIdle)
<1> SUFFICES ASSUME IdleScope PROVE TransferSpec => TotalRestartsIdle
  OBVIOUS
<1> DEFINE Restarts == total' < total => streams = <<>>
<1>1. ASSUME ListsInv, BytesInv, PhaseInv, IdleInv, [TransferNext]_transferVars
      PROVE  Restarts
  <2>0. total \in Nat
    BY <1>1 DEF BytesInv, BytesOK
  <2>1. total' = RestartedTotal => Restarts
    BY <1>1, <2>0 DEF RestartedTotal, IdleInv
  <2>2. CASE RestartConnection
    BY <1>1, <2>2 DEF RestartConnection, UpdatePhaseCreateSocket, InPhase, PhaseInv
  <2>3. UNCHANGED total => Restarts
    BY <2>0
  <2>4. ASSUME NEW id \in StreamIds, Finish(id)
        PROVE  Restarts
    <3>1. ~Unmapped(id) => bytes[streamsMap[id]].write \in Nat
      BY <1>1, <2>4 DEF ListsInv, TypeOK, StreamsOK, Unmapped, BytesInv, BytesOK, Counters
    <3> QED BY <2>0, <2>4, <3>1 DEF Finish
  <2>5. CASE OtherSteps \/ UpdateOfHost \/ ShutdownStreams \/ DiscardStreams
    BY <2>3, <2>5 DEF OtherSteps, UpdateOfHost, ShutdownStreams, DiscardStreams, byteVars
  <2>6. CASE StartTransfer \/ \E r \in Requests : Publish(r)
    BY <2>1, <2>6 DEF StartTransfer, Publish
  <2>7. CASE \E id \in StreamIds : Respond(id)
    BY <2>3, <2>7 DEF Respond
  <2>8. CASE UNCHANGED transferVars
    BY <2>3, <2>8 DEF transferVars, byteVars
  <2> QED BY <1>1, <2>2, <2>4, <2>5, <2>6, <2>7, <2>8 DEF TransferNext
<1>2. TransferSpec => [](ListsInv /\ BytesInv /\ PhaseInv /\ IdleInv)
  BY TransferRefinesConnection, TransferInvariant, IdleHolds, PTL
<1> QED BY <1>1, <1>2, PTL DEF TransferSpec, TotalRestartsIdle

-----------------------------------------------------------------------------
(* Bodies                                                                  *)

(* The server was asked on this id, and the Stream the map gives for it    *)
(* can take the answer: the response is being transferred.                 *)
Linked(id) == Mapped(id) /\ peer.asked[id] # Absent /\ Intact(id)

(* What has been received of a response so far is what the server sent on  *)
(* that id, in the file and, for a request sent once, in the counter.      *)
Exact(id, r) ==
  /\ r \in Saved => file[r] = served[id].sent
  /\ SentOnce(r) => bytes[r].write = served[id].sent
  /\ served[id].sent <= Length[r]
  /\ ~served[id].headers => served[id].sent = 0

Linkage == \A id \in StreamIds : Linked(id) => Exact(id, streamsMap[id])

(* A body that is empty has no byte counted.                               *)
EmptyBodies ==
  \A r \in Requests : stream[r].body = "empty" => bytes[r].write = 0

(* The size of a body is unknown or the server's.                          *)
Announced == \A r \in Requests : bytes[r].size \in {0, Length[r]}

(* The buffer was made for the announced size, or grown to what is         *)
(* written, and what is written is part of the body.                       *)
Buffered ==
  \A r \in Requests : SentOnce(r) /\ bytes[r].write > 0 =>
    /\ bytes[r].write <= Length[r]
    /\ r \notin Saved =>
         bytes[r].capacity = IF bytes[r].size = 0 THEN bytes[r].write ELSE bytes[r].size

(* A response that is complete, delivered or not yet, is the whole body.   *)
Over(r) == stream[r].status = "Completed" \/ outcome[r] = "delivered"

Complete ==
  \A r \in Requests : Over(r) /\ SentOnce(r) =>
    bytes[r].write = Length[r] /\ (r \in Saved => file[r] = Length[r])

(* The inductive invariant: BodyFits and BodyComplete speak of the Stream  *)
(* alone and are kept only because, through map and id, the Stream and the *)
(* server agree about how much was sent.                                   *)
BodyInv == Linkage /\ EmptyBodies /\ Announced /\ Buffered /\ Complete

(* The initial state satisfies it.                                         *)
LEMMA InitialBody == TransferInit => BodyInv
<1> SUFFICES ASSUME TransferInit PROVE BodyInv
  OBVIOUS
<1>1. Linkage
  BY ConnectionAssumption DEF TransferInit, Init, Linkage, Linked, Mapped
<1> QED
  BY <1>1 DEF TransferInit, Init, BodyInv, EmptyBodies, Announced, Buffered, Complete, Over,
     NoBytes, ClearedStream

(* Only Stream::Start makes a new link between an id and a request;        *)
LEMMA LinkSteps ==
  ASSUME TypeOK, Next
  PROVE  \/ StartStream
         \/ \A id \in StreamIds : /\ streamsMap'[id] \in {streamsMap[id], Absent, Null}
                                  /\ peer'.asked[id] \in {peer.asked[id], Absent}
<1> DEFINE Less == \A id \in StreamIds :
                     /\ streamsMap'[id] \in {streamsMap[id], Absent, Null}
                     /\ peer'.asked[id] \in {peer.asked[id], Absent}
<1>0. /\ streamsMap \in [StreamIds -> Requests \cup {Absent, Null}]
      /\ peer \in [next : 0 .. MaxStreams, asked : [StreamIds -> Requests \cup {Absent}]]
  BY DEF TypeOK, StreamsOK
<1>u. ASSUME UNCHANGED <<streamsMap, peer>> PROVE Less
  BY <1>u
<1>m. ASSUME NEW ids, streamsMap' = Unmap(ids), UNCHANGED peer PROVE Less
  BY <1>m DEF Unmap
<1>p. ASSUME UNCHANGED streamsMap, \/ UNCHANGED peer
                                  \/ peer' = [peer EXCEPT !.asked = NothingAsked]
                                  \/ peer' = [peer EXCEPT !.next = 0]
                                  \/ peer' = [next |-> 0, asked |-> NothingAsked]
      PROVE  Less
  BY <1>0, <1>p DEF NothingAsked
<1> USE DEF Crash, OnlyMoves, netVars, quicVars, appVars, listVars
<1>1. CASE Publishing
  BY <1>1, <1>u DEF Publishing, PublishRequest
<1>2. CASE Calling
  BY <1>2, <1>u, <1>m DEF Calling, Retry, Abort, AbortWithoutConnection, AbortIgnored,
     Reconnect, ReconnectFromScratch, ReconnectWithoutConnection
<1>3. CASE IssueCallbacks
  BY <1>3, <1>u DEF IssueCallbacks
<1>4. CASE Callbacks
  BY <1>4, <1>u, <1>m DEF Callbacks, CallSuccessCallback, CallErrorCallback,
     RetryStreamAtOnce, SkipStream, CallbacksDone
<1>5. CASE Sending
  BY <1>5, <1>u DEF Sending, Send, SendToFails, QuicheSendFails
<1>6. CASE Receiving
  BY <1>6, <1>u DEF Receiving, Receive, ReceiveEstablished, ReceiveClose, RecvFromFails,
     RecvFromFailsWithoutConnection, QuicheRecvFails
<1>7. CASE Connecting
  BY <1>7, <1>u, <1>p DEF Connecting, UpdatePhaseCreateSocket, UpdatePhaseInitialize,
     InitializeWithoutAddress, StartEarlyData, SkipEarlyData, AwaitEstablished,
     FinishHandshake
<1>8. CASE Waiting
  BY <1>8, <1>u DEF Waiting, StartRetry, AwaitRetry, StartPolling
<1>9. CASE Polling
  <2>1. ASSUME NEW id \in StreamIds, DropEvent(id) \/ UNCHANGED streamsMap,
               Answered(id) \/ UNCHANGED peer
        PROVE  Less
    <3>1. \A i \in StreamIds : streamsMap'[i] \in {streamsMap[i], Absent, Null}
      BY <1>0, <2>1 DEF DropEvent
    <3>2. \A i \in StreamIds : peer'.asked[i] \in {peer.asked[i], Absent}
      BY <1>0, <2>1 DEF Answered
    <3> QED BY <3>1, <3>2
  <2> QED
    BY <1>9, <1>u, <2>1 DEF Polling, PollFinished, PollResponse, PollInvalidStream,
       PollReset, PollGoAway, PollDone
<1>10. CASE Starting
  BY <1>10, <1>u DEF Starting, StartStreamFails, StartDone
<1>11. CASE ShuttingDown
  BY <1>11, <1>u, <1>m DEF ShuttingDown, UpdatePhaseStartShutdown, UpdatePhaseWaitShutdown,
     FinishAbort, ParkRequests
<1>12. CASE Migrating
  BY <1>12, <1>u DEF Migrating, AwaitResolution, Migrate, MigrateRefused,
     MigrateWithoutAddress
<1>13. CASE Checking
  BY <1>13, <1>u DEF Checking, CheckConnectionClosed, CheckConnectionTimeout, CheckDone
<1>14. CASE Crashed
  BY <1>14, <1>u DEF Crashed, vars
<1> QED
  BY <1>1, <1>2, <1>3, <1>4, <1>5, <1>6, <1>7, <1>8, <1>9, <1>10, <1>11,
     <1>12, <1>13, <1>14 DEF Next

(* of the steps without bytes only two change a Stream.                    *)
LEMMA OtherStreams ==
  ASSUME OtherSteps
  PROVE  \/ UNCHANGED requestVars
         \/ CallSuccessCallback
         \/ UpdatePhaseInitialize
<1> USE DEF Crash, OnlyMoves, appVars, requestVars
<1>1. CASE OtherCalls
  BY <1>1 DEF OtherCalls, Retry, AbortWithoutConnection, AbortIgnored, Reconnect,
     ReconnectWithoutConnection
<1>2. CASE Callbacks
  BY <1>2 DEF Callbacks, CallErrorCallback, RetryStreamAtOnce, SkipStream, CallbacksDone
<1>3. CASE Sending
  BY <1>3 DEF Sending, Send, SendToFails, QuicheSendFails
<1>4. CASE Receiving
  BY <1>4 DEF Receiving, Receive, ReceiveEstablished, ReceiveClose, RecvFromFails,
     RecvFromFailsWithoutConnection, QuicheRecvFails
<1>5. CASE OtherConnecting
  BY <1>5 DEF OtherConnecting, InitializeWithoutAddress, StartEarlyData, SkipEarlyData,
     AwaitEstablished, FinishHandshake
<1>6. CASE Waiting
  BY <1>6 DEF Waiting, StartRetry, AwaitRetry, StartPolling
<1>7. CASE OtherPolling
  BY <1>7 DEF OtherPolling, PollDone, PollInvalidStream, PollReset, PollGoAway
<1>8. CASE StartDone \/ UpdatePhaseWaitShutdown
  BY <1>8 DEF StartDone, UpdatePhaseWaitShutdown
<1>9. CASE Migrating
  BY <1>9 DEF Migrating, AwaitResolution, Migrate, MigrateRefused, MigrateWithoutAddress
<1>10. CASE Checking
  BY <1>10 DEF Checking, CheckConnectionClosed, CheckConnectionTimeout, CheckDone
<1>11. CASE Crashed
  BY <1>11 DEF Crashed, vars
<1> QED
  BY <1>1, <1>2, <1>3, <1>4, <1>5, <1>6, <1>7, <1>8, <1>9, <1>10, <1>11 DEF OtherSteps

(* No link is new.                                                         *)
StillLinked ==
  \A id \in StreamIds : Linked(id)' => Linked(id) /\ streamsMap'[id] = streamsMap[id]

(* A step that starts nothing and attaches no Stream makes no link.        *)
LEMMA LinksLeft ==
  ASSUME TypeOK, Next, ~StartStream,
         \A r \in Requests : stream'[r].handle = "current" =>
           stream[r].handle = "current" /\ stream'[r].id = stream[r].id
  PROVE  StillLinked
<1> SUFFICES ASSUME NEW id \in StreamIds, Linked(id)'
             PROVE  Linked(id) /\ streamsMap'[id] = streamsMap[id]
  BY DEF StillLinked
<1>1. streamsMap'[id] = streamsMap[id] /\ peer'.asked[id] = peer.asked[id]
  BY ConnectionAssumption, LinkSteps DEF Linked, Mapped
<1> QED BY <1>1 DEF Linked, Mapped, Intact

(* A step that leaves bytes and bodies alone, and makes no link, keeps it; *)
LEMMA BodyKept ==
  ASSUME BodyInv, UNCHANGED <<file, served>>, StillLinked,
         \A r \in Requests :
           /\ bytes'[r].size = bytes[r].size /\ bytes'[r].write = bytes[r].write
           /\ bytes'[r].capacity = bytes[r].capacity
           /\ stream'[r].body = stream[r].body
           /\ Over(r)' => Over(r)
  PROVE  BodyInv'
<1>1. \A r \in Requests : SentOnce(r)' <=> SentOnce(r)
  BY DEF SentOnce
<1>2. Linkage'
  BY DEF StillLinked, BodyInv, Linkage, Exact, SentOnce, Linked, Mapped
<1>3. EmptyBodies' /\ Announced' /\ Buffered' /\ Complete'
  BY <1>1 DEF BodyInv, EmptyBodies, Announced, Buffered, Complete
<1> QED BY <1>2, <1>3 DEF BodyInv

(* so does one that clears the Streams of some requests, as Stream::Clear  *)
(* does.                                                                   *)
LEMMA ForgottenBodies ==
  ASSUME BodyInv, NEW rs, Forget(rs), UNCHANGED <<file, served>>, StillLinked,
         \A r \in Requests :
           \/ /\ r \in rs /\ stream'[r].body = "empty" /\ stream'[r].handle # "current"
              /\ ~Over(r)'
           \/ /\ r \notin rs /\ stream'[r].body = stream[r].body
              /\ Over(r)' => Over(r)
  PROVE  BodyInv'
<1>1. \A r \in Requests : bytes'[r] = IF r \in rs THEN NoBytes ELSE bytes[r]
  BY DEF Forget, Cleared
<1>2. \A r \in Requests \ rs : SentOnce(r)' <=> SentOnce(r)
  BY DEF SentOnce
<1>3. Linkage'
  <2> SUFFICES ASSUME NEW id \in StreamIds, Linked(id)'
               PROVE  Exact(id, streamsMap[id])'
    BY DEF Linkage
  <2> DEFINE r == streamsMap[id]
  <2>1. Linked(id) /\ streamsMap'[id] = r /\ r \in Requests
    BY DEF StillLinked, Linked, Mapped
  <2>2. r \notin rs
    BY <2>1 DEF Linked, Intact
  <2> HIDE DEF r
  <2> QED BY <1>1, <1>2, <2>1, <2>2 DEF BodyInv, Linkage, Exact, SentOnce, r
<1>4. EmptyBodies' /\ Announced' /\ Buffered' /\ Complete'
  <2> SUFFICES ASSUME NEW r \in Requests
               PROVE  /\ stream'[r].body = "empty" => bytes'[r].write = 0
                      /\ bytes'[r].size \in {0, Length[r]}
                      /\ SentOnce(r)' /\ bytes'[r].write > 0 =>
                           /\ bytes'[r].write <= Length[r]
                           /\ r \notin Saved =>
                                bytes'[r].capacity = IF bytes'[r].size = 0
                                  THEN bytes'[r].write ELSE bytes'[r].size
                      /\ Over(r)' /\ SentOnce(r)' =>
                           bytes'[r].write = Length[r]
                             /\ (r \in Saved => file'[r] = Length[r])
    BY DEF EmptyBodies, Announced, Buffered, Complete
  <2>1. CASE r \in rs
    BY <1>1, <2>1 DEF NoBytes
  <2>2. CASE r \notin rs
    BY <1>1, <1>2, <2>2 DEF BodyInv, EmptyBodies, Announced, Buffered, Complete
  <2> QED BY <2>1, <2>2
<1> QED BY <1>3, <1>4 DEF BodyInv

(* Starting a request is not among the steps without bytes.                *)
LEMMA OtherThanStart == OtherSteps => ~StartStream
<1> SUFFICES ASSUME OtherSteps, StartStream PROVE FALSE
  OBVIOUS
<1> USE DEF Running
<1>1. at = "start" /\ at' = "start" /\ fault = "none"
  BY DEF StartStream, CanStart
<1>2. ~OtherCalls
  BY <1>1 DEF OtherCalls, Retry, AbortWithoutConnection, AbortIgnored, Reconnect,
     ReconnectWithoutConnection, Call
<1>3. ~Callbacks
  BY <1>1 DEF Callbacks, CallSuccessCallback, CallErrorCallback, RetryStreamAtOnce,
     SkipStream, CallbacksDone, InCallbacks
<1>4. ~Sending /\ ~Receiving
  BY <1>1 DEF Sending, Send, SendToFails, QuicheSendFails, Receiving, Receive,
     ReceiveEstablished, ReceiveClose, RecvFromFails, RecvFromFailsWithoutConnection,
     QuicheRecvFails
<1>5. ~OtherConnecting /\ ~Waiting
  BY <1>1 DEF OtherConnecting, UpdatePhaseInitialize, InitializeWithoutAddress,
     StartEarlyData, SkipEarlyData, AwaitEstablished, FinishHandshake, Waiting,
     StartRetry, AwaitRetry, StartPolling, InPhase
<1>6. ~OtherPolling
  BY <1>1 DEF OtherPolling, PollDone, PollInvalidStream, PollReset, PollGoAway, Event
<1>7. ~StartDone /\ ~UpdatePhaseWaitShutdown
  BY <1>1 DEF StartDone, LeaveLoop, UpdatePhaseWaitShutdown, InPhase
<1>8. ~Migrating /\ ~Checking /\ ~Crashed
  BY <1>1 DEF Migrating, AwaitResolution, Migrate, MigrateRefused, MigrateWithoutAddress,
     InPhase, Checking, CheckConnectionClosed, CheckConnectionTimeout, CheckDone, Crashed
<1> QED BY <1>2, <1>3, <1>4, <1>5, <1>6, <1>7, <1>8 DEF OtherSteps

(* A chunk leaves a buffer that fits, first chunk or later, announced or   *)
(* not.                                                                    *)
LEMMA ChunkBuffered ==
  ASSUME NEW b \in Counters, NEW n \in Nat, NEW toFile \in BOOLEAN, Word > 0
  PROVE  /\ Written(b, n, toFile).size = b.size
         /\ Written(b, n, toFile).capacity = IF toFile THEN b.capacity ELSE Capacity(b, n)
<1> DEFINE c == IF toFile THEN b.capacity ELSE Capacity(b, n)
           w == b.write + n
           p == b.progress + n
           u == Written(b, n, toFile)
<1>0. b \in [size : Nat, write : Nat, progress : Nat, capacity : Nat]
  BY DEF Counters
<1>1. Clamp(b.size, b.write, n) = n
  BY <1>0, NoClamp
<1>3. u = [b EXCEPT !.capacity = c, !.write = w, !.progress = p]
  BY <1>1 DEF Written
<1> HIDE DEF c, w, p, u
<1>4. u.size = b.size /\ u.capacity = c
  BY <1>0, <1>3
<1> QED BY <1>4 DEF u, c

(* HEADERS and DATA are added to the request they answer.                  *)
LEMMA RespondBody ==
  ASSUME ListsInv, StreamInv, BytesInv, BodyInv, NEW id \in StreamIds, Respond(id)
  PROVE  BodyInv'
<1>0. /\ stream \in [Requests -> Streams] /\ TypeOK
      /\ streamsMap \in [StreamIds -> Requests \cup {Absent, Null}]
      /\ peer.asked \in [StreamIds -> Requests \cup {Absent}]
      /\ bytes \in [Requests -> Counters] /\ file \in [Requests -> Nat]
      /\ served \in [StreamIds -> [headers : BOOLEAN, sent : Nat]]
      /\ Length \in [Requests -> Nat] /\ Saved \subseteq Requests
  BY TransferAssumption DEF ListsInv, TypeOK, StreamsOK, BytesInv, BytesOK
<1>n. Next /\ ~StartStream
  BY DEF Respond, PollResponse, Event, StartStream, CanStart, Running, Next, Polling
<1>1. CASE Unmapped(id)
  <2>1. UNCHANGED <<stream, outcome, served, bytes, file>>
    BY <1>1 DEF Respond, PollResponse
  <2>2. StillLinked
    BY <1>0, <1>n, <2>1, LinksLeft
  <2> QED BY <2>1, <2>2, BodyKept DEF Over
<1>2. CASE ~Unmapped(id)
  <2> PICK r : r = streamsMap[id]
    OBVIOUS
  <2>1. /\ r \in Requests /\ Linked(id) /\ r = peer.asked[id] /\ Mapped(id)
    <3>1. Mapped(id) /\ peer.asked[id] # Absent
      BY <1>0, <1>2 DEF Mapped, Unmapped, Respond, PollResponse, Event
    <3>2. AskedIntact /\ EventsReachOwner
      BY LivePolling DEF StreamInv, MapInv, Respond, PollResponse, Event, Running
    <3> QED BY <1>2, <3>1, <3>2 DEF Linked, AskedIntact, EventsReachOwner, Mapped
  <2>2. stream' = [stream EXCEPT ![r].body = Extended(@)] /\ UNCHANGED outcome
    BY <1>2, TransferAssumption DEF Respond, PollResponse, Fail
  <2>3. /\ \A q \in Requests : /\ stream'[q].handle = stream[q].handle
                              /\ stream'[q].id = stream[q].id
                              /\ stream'[q].status = stream[q].status
        /\ \A q \in Requests \ {r} : stream'[q] = stream[q]
        /\ stream'[r].body # "empty" /\ (SentOnce(r)' => SentOnce(r))
    <3> DEFINE x == Extended(stream[r].body)
    <3>1. /\ x # "empty"
          /\ x \in {"empty", "part"} => stream[r].body \in {"empty", "part"}
      BY DEF Extended
    <3>2. stream' = [stream EXCEPT ![r].body = x]
      BY <2>2
    <3> HIDE DEF x
    <3>3. stream'[r].body = x
      BY <1>0, <2>1, <3>2 DEF Streams
    <3> QED BY <1>0, <2>1, <3>1, <3>2, <3>3 DEF Streams, SentOnce
  <2>4. \A q \in Requests : Over(q)' <=> Over(q)
    BY <2>2, <2>3 DEF Over
  <2>5. ASSUME NEW j \in StreamIds, Linked(j)'
        PROVE  /\ Linked(j) /\ streamsMap'[j] = streamsMap[j]
               /\ j # id => streamsMap[j] \in Requests \ {r}
    <3>1. StillLinked
      BY <1>0, <1>n, <2>3, LinksLeft
    <3>2. MapsOnce
      BY DEF StreamInv, MapInv
    <3> QED BY <2>1, <2>5, <3>1, <3>2 DEF StillLinked, MapsOnce, Linked, Mapped
  <2>6. Exact(id, r)
    BY <2>1 DEF BodyInv, Linkage
  <2>7. ASSUME \A q \in Requests \ {r} : bytes'[q] = bytes[q] /\ file'[q] = file[q],
               \A j \in StreamIds \ {id} : served'[j] = served[j],
               Exact(id, r)', bytes'[r].size \in {0, Length[r]},
               SentOnce(r)' /\ bytes'[r].write > 0 =>
                 /\ bytes'[r].write <= Length[r]
                 /\ r \notin Saved => bytes'[r].capacity =
                      IF bytes'[r].size = 0 THEN bytes'[r].write ELSE bytes'[r].size,
               Over(r) /\ SentOnce(r)' =>
                 bytes'[r].write = Length[r] /\ (r \in Saved => file'[r] = Length[r])
        PROVE  BodyInv'
    <3>1. \A q \in Requests \ {r} : SentOnce(q)' <=> SentOnce(q)
      BY <2>3 DEF SentOnce
    <3>2. Linkage'
      <4> SUFFICES ASSUME NEW j \in StreamIds, Linked(j)'
                   PROVE  Exact(j, streamsMap[j])'
        BY DEF Linkage
      <4>1. CASE j = id
        <5>1. streamsMap'[j] = r
          BY <2>5, <4>1
        <5> QED BY <2>7, <4>1, <5>1 DEF Exact, SentOnce
      <4>2. CASE j # id
        <5> PICK q : q = streamsMap[j]
          OBVIOUS
        <5>1. Linked(j) /\ streamsMap'[j] = q /\ q \in Requests \ {r}
          BY <2>5, <4>2
        <5>2. Exact(j, q)
          BY <5>1 DEF BodyInv, Linkage
        <5>3. served'[j] = served[j] /\ bytes'[q] = bytes[q] /\ file'[q] = file[q]
          BY <2>7, <4>2, <5>1
        <5> QED BY <2>3, <5>1, <5>2, <5>3 DEF Exact, SentOnce
      <4> QED BY <4>1, <4>2
    <3>3. EmptyBodies'
      BY <2>3, <2>7 DEF BodyInv, EmptyBodies
    <3>4. Announced'
      BY <2>7 DEF BodyInv, Announced
    <3>5. Buffered'
      BY <2>7, <3>1 DEF BodyInv, Buffered
    <3>6. Complete'
      BY <2>4, <2>7, <3>1 DEF BodyInv, Complete
    <3> QED BY <3>2, <3>3, <3>4, <3>5, <3>6 DEF BodyInv
  <2>8. CASE ReadHeaders(id)
    <3>1. PICK size \in {Length[r], bytes[r].size} :
            bytes' = [bytes EXCEPT ![r].size = size]
      BY <2>1, <2>8 DEF ReadHeaders
    <3>2. /\ served' = [served EXCEPT ![id].headers = TRUE] /\ UNCHANGED file
          /\ ~served[id].headers
      BY <2>8 DEF ReadHeaders
    <3>3. /\ served'[id].headers /\ served'[id].sent = served[id].sent
          /\ \A j \in StreamIds \ {id} : served'[j] = served[j]
      BY <1>0, <3>2
    <3>4. /\ \A q \in Requests \ {r} : bytes'[q] = bytes[q]
          /\ bytes'[r].size = size /\ bytes'[r].write = bytes[r].write
      BY <1>0, <2>1, <3>1 DEF Counters
    <3>5. size \in {0, Length[r]}
      BY <2>1 DEF BodyInv, Announced
    <3>6. SentOnce(r) => bytes[r].write = 0
      BY <2>6, <3>2 DEF Exact
    <3>7. Exact(id, r)'
      BY <2>3, <2>6, <3>2, <3>3, <3>4 DEF Exact
    <3>8. Over(r) /\ SentOnce(r)' =>
            bytes'[r].write = Length[r] /\ (r \in Saved => file'[r] = Length[r])
      BY <2>1, <2>3, <3>2, <3>4 DEF BodyInv, Complete
    <3> QED BY <2>3, <2>7, <3>2, <3>3, <3>4, <3>5, <3>6, <3>7, <3>8
  <2>9. CASE ReadData(id)
    <3> DEFINE w(n) == Written(bytes[r], n, r \in Saved)
    <3>1. stream[r].id = id /\ Unread(id) = Length[r] - served[id].sent
          /\ served[id].headers
      BY <2>1, <2>9 DEF Linked, Intact, Unread, ReadData
    <3>2. PICK n \in 1 .. Unread(id) :
            /\ served' = [served EXCEPT ![id].sent = @ + n]
            /\ bytes' = [bytes EXCEPT ![r] = w(n)]
            /\ file' = IF r \notin Saved THEN file
                       ELSE [file EXCEPT ![r] =
                               @ + Clamp(bytes[r].size, bytes[r].write, n)]
      BY <2>9, <3>1 DEF ReadData
    <3> PICK b : b = bytes[r]
      OBVIOUS
    <3>3. /\ b \in Counters /\ b.size \in Nat /\ b.write \in Nat /\ b.capacity \in Nat
          /\ served[id].sent \in Nat /\ Length[r] \in Nat /\ file[r] \in Nat
          /\ n \in Nat /\ n > 0 /\ served[id].sent + n <= Length[r]
          /\ (r \in Saved) \in BOOLEAN
      BY <1>0, <2>1, <3>1 DEF Counters
    <3>4. /\ w(n).write = b.write + n /\ w(n).size = b.size
          /\ w(n).capacity = IF r \in Saved THEN b.capacity ELSE Capacity(b, n)
          /\ Clamp(b.size, b.write, n) = n
      <4>1. Word > 0
        BY <2>1, WordPositive
      <4>2. b \in Counters /\ n \in Nat /\ (r \in Saved) \in BOOLEAN
        BY <3>3
      <4>4. Written(b, n, r \in Saved).write = b.write + n
        BY <4>1, <4>2, ChunkWritten
      <4>5. /\ Written(b, n, r \in Saved).size = b.size
            /\ Written(b, n, r \in Saved).capacity =
                 IF r \in Saved THEN b.capacity ELSE Capacity(b, n)
        BY <4>1, <4>2, ChunkBuffered
      <4>3. Clamp(b.size, b.write, n) = n
        BY <3>3, <4>1, NoClamp
      <4> QED BY <4>3, <4>4, <4>5
    <3> HIDE DEF w
    <3>5. /\ bytes'[r] = w(n) /\ \A q \in Requests \ {r} : bytes'[q] = bytes[q]
      BY <1>0, <2>1, <3>2
    <3>6. /\ served'[id].sent = served[id].sent + n /\ served'[id].headers
          /\ \A j \in StreamIds \ {id} : served'[j] = served[j]
      BY <1>0, <3>1, <3>2
    <3>7. /\ \A q \in Requests \ {r} : file'[q] = file[q]
          /\ r \in Saved => file'[r] = file[r] + n
      BY <1>0, <2>1, <3>2, <3>4
    <3>8. SentOnce(r) => b.write = served[id].sent
      BY <2>6 DEF Exact
    <3>9. Exact(id, r)'
      <4>1. r \in Saved => file[r] = served[id].sent
        BY <2>6 DEF Exact
      <4>2. r \in Saved => file'[r] = served'[id].sent
        BY <3>6, <3>7, <4>1
      <4>3. SentOnce(r)' => bytes'[r].write = served'[id].sent
        BY <2>3, <3>4, <3>5, <3>6, <3>8
      <4> QED BY <3>3, <3>6, <4>2, <4>3 DEF Exact
    <3>10. ~(Over(r) /\ SentOnce(r)')
      <4>1. Over(r) /\ SentOnce(r) => b.write = Length[r]
        BY <2>1 DEF BodyInv, Complete
      <4> QED BY <2>3, <3>3, <3>8, <4>1
    <3>11. ASSUME SentOnce(r)'
           PROVE  /\ bytes'[r].write <= Length[r]
                  /\ r \notin Saved => bytes'[r].capacity =
                       IF bytes'[r].size = 0 THEN bytes'[r].write ELSE bytes'[r].size
      <4>1. b.write = served[id].sent
        BY <2>3, <3>8, <3>11
      <4>2. b.write > 0 /\ r \notin Saved =>
              b.capacity = IF b.size = 0 THEN b.write ELSE b.size
        BY <2>1, <2>3, <3>11 DEF BodyInv, Buffered
      <4>3. r \notin Saved =>
              Capacity(b, n) = IF b.size = 0 THEN b.write + n ELSE b.size
        BY <3>3, <4>2 DEF Capacity
      <4> QED BY <3>3, <3>4, <3>5, <4>1, <4>3
    <3>12. bytes'[r].size \in {0, Length[r]}
      BY <2>1, <3>4, <3>5 DEF BodyInv, Announced
    <3> QED BY <2>7, <3>5, <3>6, <3>7, <3>9, <3>10, <3>11, <3>12
  <2> QED BY <1>2, <2>8, <2>9 DEF Respond
<1> QED BY <1>1, <1>2

(* FINISHED comes when the server has sent the whole body.                 *)
LEMMA FinishBody ==
  ASSUME ListsInv, StreamInv, BytesInv, BodyInv, NEW id \in StreamIds, Finish(id)
  PROVE  /\ BodyInv'
         /\ \A r \in Saved : stream[r].status # "Completed" /\ stream'[r].status = "Completed"
                            => file[r] = Length[r]
<1>0. /\ stream \in [Requests -> Streams] /\ TypeOK
      /\ streamsMap \in [StreamIds -> Requests \cup {Absent, Null}]
      /\ peer.asked \in [StreamIds -> Requests \cup {Absent}]
      /\ served \in [StreamIds -> [headers : BOOLEAN, sent : Nat]]
      /\ Length \in [Requests -> Nat] /\ Saved \subseteq Requests
  BY TransferAssumption DEF ListsInv, TypeOK, StreamsOK, BytesInv, BytesOK
<1>1. UNCHANGED <<outcome, bytes, file, served>>
  BY DEF Finish, PollFinished
<1>n. Next /\ ~StartStream
  BY DEF Finish, PollFinished, Event, StartStream, CanStart, Running, Next, Polling
<1>2. CASE Unmapped(id)
  <2>1. UNCHANGED stream
    BY <1>2 DEF Finish, PollFinished
  <2>2. StillLinked
    BY <1>0, <1>n, <2>1, LinksLeft
  <2> QED BY <1>0, <1>1, <2>1, <2>2, BodyKept DEF Over
<1>3. CASE ~Unmapped(id)
  <2> PICK r : r = streamsMap[id]
    OBVIOUS
  <2>1. r \in Requests /\ Linked(id) /\ r = peer.asked[id]
    <3>1. Mapped(id) /\ peer.asked[id] # Absent
      BY <1>0, <1>3 DEF Mapped, Unmapped, Finish, PollFinished, Event
    <3>2. AskedIntact /\ EventsReachOwner
      BY LivePolling DEF StreamInv, MapInv, Finish, PollFinished, Event, Running
    <3> QED BY <1>3, <3>1, <3>2 DEF Linked, AskedIntact, EventsReachOwner, Mapped
  <2>2. stream' = [stream EXCEPT ![r].status = "Completed"]
    BY <1>3 DEF Finish, PollFinished
  <2>3. /\ \A q \in Requests : /\ stream'[q].handle = stream[q].handle
                              /\ stream'[q].id = stream[q].id
                              /\ stream'[q].body = stream[q].body
        /\ \A q \in Requests \ {r} : stream'[q] = stream[q]
    BY <1>0, <2>1, <2>2 DEF Streams
  <2>4. StillLinked
    BY <1>0, <1>n, <2>3, LinksLeft
  <2>5. Exact(id, r) /\ served[id].sent = Length[r]
    <3>1. Exact(id, r) /\ served[id].sent \in Nat /\ Length[r] \in Nat
      BY <1>0, <2>1 DEF BodyInv, Linkage
    <3>2. Length[r] - served[id].sent = 0
      BY <2>1 DEF Finish, Unread, Linked
    <3> QED BY <3>1, <3>2
  <2>6. \A q \in Requests : SentOnce(q)' <=> SentOnce(q)
    BY <2>3 DEF SentOnce
  <2>7. Linkage'
    BY <1>1, <2>3, <2>4 DEF StillLinked, BodyInv, Linkage, Exact, SentOnce, Linked, Mapped
  <2>8. EmptyBodies' /\ Announced' /\ Buffered'
    BY <1>1, <2>3, <2>6 DEF BodyInv, EmptyBodies, Announced, Buffered
  <2>9. Complete'
    <3>1. \A q \in Requests \ {r} : Over(q)' <=> Over(q)
      BY <1>1, <2>3 DEF Over
    <3>2. SentOnce(r)' => bytes[r].write = Length[r] /\ (r \in Saved => file[r] = Length[r])
      BY <2>1, <2>5, <2>6 DEF Exact
    <3> QED BY <1>1, <2>6, <3>1, <3>2 DEF BodyInv, Complete
  <2> QED BY <1>0, <2>3, <2>5, <2>7, <2>8, <2>9 DEF BodyInv, Exact
<1> QED BY <1>2, <1>3

(* Stream::Start links a request to an id on which nothing was sent yet.   *)
LEMMA StartBody ==
  ASSUME ListsInv, StreamInv, BytesInv, BodyInv, StartTransfer
  PROVE  BodyInv'
<1> PICK r, new : r = Head(stock) /\ new = peer.next
  OBVIOUS
<1>0. /\ streams \in Seq(Requests) /\ stock \in Seq(Requests)
      /\ errorStock \in Seq(Requests)
      /\ streamsMap \in [StreamIds -> Requests \cup {Absent, Null}]
      /\ stream \in [Requests -> Streams]
      /\ outcome \in [Requests -> {"new", "pending", "delivered", "aborted"}]
      /\ peer \in [next : 0 .. MaxStreams, asked : [StreamIds -> Requests \cup {Absent}]]
      /\ file \in [Requests -> Nat] /\ Length \in [Requests -> Nat]
      /\ served \in [StreamIds -> [headers : BOOLEAN, sent : Nat]]
      /\ MaxStreams \in Nat \ {0} /\ Absent \notin Requests /\ Null \notin Requests
      /\ Saved \subseteq Requests
  BY ConnectionAssumption, TransferAssumption
     DEF ListsInv, TypeOK, QueuesOK, StreamsOK, BytesInv, BytesOK
<1>1. r \in Requests /\ r \notin ToSet(streams) /\ outcome[r] = "pending"
  <2>1. Partition(stock, streams, errorStock, Pending)
    BY <1>0, HeldPartition DEF ListsInv, RequestInOneList, Held
  <2>2. stock # <<>>
    BY DEF StartTransfer, StartStream, CanStart
  <2>3. r \in ToSet(stock)
    BY <1>0, <2>1, <2>2, AppendTail DEF Partition
  <2> QED BY <1>0, <2>1, <2>2, <2>3 DEF Partition, Pending
<1>2. new \in StreamIds /\ ~Mapped(new)
  BY <1>0 DEF StartTransfer, StartStream, StreamIds, StreamInv, MapInv, FreshIds
<1>3. \A id \in StreamIds :
        /\ streamsMap'[id] = IF id = new /\ streamsMap[id] = Absent THEN r ELSE streamsMap[id]
        /\ peer'.asked[id] = IF id = new /\ conn = "open" THEN r ELSE peer.asked[id]
  BY <1>0, <1>2 DEF StartTransfer, StartStream
<1>4. /\ \A q \in Requests \ {r} : stream'[q] = stream[q]
      /\ stream'[r].status = stream[r].status
      /\ stream'[r].body = IF stream[r].body = "part" THEN "old" ELSE stream[r].body
  BY <1>0, <1>1 DEF StartTransfer, StartStream, Streams
<1>5. /\ \A q \in Requests \ {r} : file'[q] = file[q]
      /\ r \in Saved => file'[r] = 0
      /\ UNCHANGED <<bytes, outcome>>
  BY <1>0, <1>1 DEF StartTransfer, Opened, StartStream
<1>6. /\ served'[new].sent = 0 /\ ~served'[new].headers
      /\ \A id \in StreamIds \ {new} : served'[id] = served[id]
  BY <1>0, <1>2 DEF StartTransfer, NothingServed
<1>7. SentOnce(r)' => /\ stream[r].body = "empty" /\ SentOnce(r)
                      /\ bytes[r].write = 0
  BY <1>1, <1>4 DEF SentOnce, BodyInv, EmptyBodies
<1>8. \A q \in Requests \ {r} : SentOnce(q)' <=> SentOnce(q)
  BY <1>4 DEF SentOnce
<1>9. \A q \in Requests : Over(q)' <=> Over(q)
  BY <1>4, <1>5 DEF Over
<1>10. Linkage'
  <2> SUFFICES ASSUME NEW id \in StreamIds, Linked(id)'
               PROVE  Exact(id, streamsMap[id])'
    BY DEF Linkage
  <2>1. CASE id = new
    <3>1. streamsMap'[id] = r
      BY <1>2, <1>3, <2>1 DEF Linked, Mapped
    <3>2. Length[r] >= 0
      BY <1>0, <1>1
    <3> QED BY <1>1, <1>5, <1>6, <1>7, <2>1, <3>1, <3>2 DEF Exact, SentOnce
  <2>2. CASE id # new
    <3> PICK q : q = streamsMap[id]
      OBVIOUS
    <3>1. streamsMap'[id] = q /\ q \in Requests
      BY <1>3, <2>2 DEF Linked, Mapped
    <3>2. q # r
      BY <1>1, <3>1 DEF StreamInv, MapInv, MapsStarted, Mapped
    <3>3. Linked(id)
      BY <1>3, <1>4, <2>2, <3>1, <3>2 DEF Linked, Mapped, Intact
    <3>4. Exact(id, q)
      BY <3>3 DEF BodyInv, Linkage
    <3> QED BY <1>4, <1>5, <1>6, <2>2, <3>1, <3>2, <3>4 DEF Exact, SentOnce
  <2> QED BY <2>1, <2>2
<1>11. EmptyBodies'
  BY <1>4, <1>5 DEF BodyInv, EmptyBodies
<1>12. Announced' /\ Buffered'
  BY <1>5, <1>7, <1>8 DEF BodyInv, Announced, Buffered
<1>13. Complete'
  <2>1. Over(r)' /\ SentOnce(r)' => bytes'[r].write = Length[r] /\ Length[r] = 0
    BY <1>1, <1>5, <1>7, <1>9 DEF BodyInv, Complete
  <2> QED BY <1>1, <1>5, <1>8, <1>9, <2>1 DEF BodyInv, Complete
<1> QED BY <1>10, <1>11, <1>12, <1>13 DEF BodyInv

(* Every step keeps the invariant, and completes a request that is saved   *)
(* to a file only with the whole body in the file.                         *)
LEMMA BodyStep ==
  ASSUME ListsInv, StreamInv, BytesInv, BodyInv, TransferNext
  PROVE  /\ BodyInv'
         /\ \A r \in Saved : stream[r].status # "Completed" /\ stream'[r].status = "Completed"
                            => file[r] = Length[r]
<1> DEFINE Ends == \A r \in Requests : stream'[r].status = "Completed" =>
                                        stream[r].status = "Completed"
           Goal == /\ BodyInv'
                   /\ \A r \in Saved : stream[r].status # "Completed"
                                        /\ stream'[r].status = "Completed"
                                      => file[r] = Length[r]
<1>0. /\ TypeOK /\ stream \in [Requests -> Streams]
      /\ streams \in Seq(Requests) /\ cursor \in Nat \ {0}
      /\ stock \in Seq(Requests) /\ errorStock \in Seq(Requests)
      /\ outcome \in [Requests -> {"new", "pending", "delivered", "aborted"}]
      /\ bytes \in [Requests -> Counters] /\ Saved \subseteq Requests
  BY TransferAssumption
     DEF ListsInv, TypeOK, QueuesOK, ControlOK, StreamsOK, BytesInv, BytesOK
<1>g. BodyInv' /\ Ends => Goal
  BY <1>0
<1>l. ASSUME Next, ~StartStream, UNCHANGED stream
      PROVE  StillLinked
  BY <1>0, <1>l, LinksLeft
<1>k. ASSUME StillLinked, UNCHANGED <<file, served>>,
             \A r \in Requests :
               /\ bytes'[r].size = bytes[r].size /\ bytes'[r].write = bytes[r].write
               /\ bytes'[r].capacity = bytes[r].capacity
               /\ stream'[r].body = stream[r].body
               /\ Over(r)' => Over(r)
      PROVE  BodyInv'
  BY <1>k, BodyKept
<1>1. CASE \E r \in Requests : Publish(r)
  <2> PICK r \in Requests : Publish(r)
    BY <1>1
  <2>1. UNCHANGED <<stream, file, served, bytes>>
    BY DEF Publish, PublishRequest
  <2>2. Next /\ ~StartStream
    BY DEF Publish, PublishRequest, Next, Publishing, StartStream, CanStart, Running
  <2>3. \A q \in Requests : Over(q)' => Over(q)
    BY <1>0, <2>1 DEF Publish, PublishRequest, Over
  <2>4. BodyInv'
    BY <1>k, <1>l, <2>1, <2>2, <2>3
  <2> QED BY <1>g, <2>1, <2>4
<1>2. CASE \E id \in StreamIds : Respond(id)
  <2> PICK id \in StreamIds : Respond(id)
    BY <1>2
  <2>1. Ends
    <3>1. CASE UNCHANGED stream
      BY <3>1
    <3>2. CASE stream' = [stream EXCEPT ![streamsMap[id]].body = Extended(@)]
      BY <1>0, <3>2 DEF Streams
    <3> QED BY <3>1, <3>2, TransferAssumption DEF Respond, PollResponse, Fail
  <2> QED BY <1>g, <2>1, RespondBody
<1>3. CASE \E id \in StreamIds : Finish(id)
  BY <1>3, FinishBody
<1>4. CASE StartTransfer
  <2>1. Ends
    BY <1>0, <1>4 DEF StartTransfer, StartStream, Streams
  <2> QED BY <1>4, <1>g, <2>1, StartBody
<1>5. CASE RestartConnection
  <2>1. /\ UNCHANGED <<outcome, file, served, bytes>> /\ stream' = Detached
    BY <1>5 DEF RestartConnection, UpdatePhaseCreateSocket
  <2>2. \A r \in Requests : /\ stream'[r].status = stream[r].status
                           /\ stream'[r].body = stream[r].body
                           /\ stream'[r].handle # "current"
    BY <1>0, <2>1 DEF Detached, Streams
  <2>3. Next /\ ~StartStream
    BY <1>5 DEF RestartConnection, UpdatePhaseCreateSocket, InPhase, Next, Connecting,
       StartStream, CanStart, Running
  <2>4. StillLinked
    BY <1>0, <2>2, <2>3, LinksLeft
  <2>5. BodyInv'
    BY <1>k, <2>1, <2>2, <2>4 DEF Over
  <2> QED BY <1>g, <2>2, <2>5
<1>6. CASE ShutdownStreams
  <2> DEFINE rs == {r \in ToSet(streams) : stream[r].status = "Connecting"}
  <2>1. UNCHANGED <<outcome, file, served>>
    BY <1>6 DEF ShutdownStreams, UpdatePhaseStartShutdown
  <2>2. \A r \in Requests : stream'[r] = IF r \in rs THEN [ClearedStream EXCEPT !.status = status]
                                                     ELSE stream[r]
    BY <1>6 DEF ShutdownStreams, UpdatePhaseStartShutdown
  <2>3. ASSUME NEW r \in rs
        PROVE  outcome[r] = "pending"
    <3>1. Partition(stock, streams, errorStock, Pending)
      BY <1>0, HeldPartition DEF ListsInv, RequestInOneList, Held
    <3> QED BY <3>1 DEF Partition, Pending
  <2>4. Forget(rs)
    BY <1>6 DEF ShutdownStreams
  <2>5. status # "Completed"
    BY DEF StreamInv, CalmInv
  <2>6. \A r \in Requests :
          \/ /\ r \in rs /\ stream'[r].body = "empty" /\ stream'[r].handle # "current"
             /\ stream'[r].status # "Completed" /\ outcome'[r] # "delivered"
          \/ r \notin rs /\ stream'[r] = stream[r]
    BY <2>1, <2>2, <2>3, <2>5 DEF ClearedStream
  <2>7. Next /\ ~StartStream
    BY <1>6 DEF ShutdownStreams, UpdatePhaseStartShutdown, InPhase, Next, ShuttingDown,
       StartStream, CanStart, Running
  <2> HIDE DEF rs
  <2>8. StillLinked
    BY <1>0, <2>6, <2>7, LinksLeft
  <2>9. BodyInv'
    BY <2>1, <2>4, <2>6, <2>8, ForgottenBodies DEF Over
  <2> QED BY <1>g, <2>6, <2>9
<1>7. CASE DiscardStreams
  <2> DEFINE rs == {r \in Requests : outcome[r] = "pending"}
  <2>1. UNCHANGED <<file, served>> /\ Forget(rs)
    BY <1>7 DEF DiscardStreams
  <2>2. \A r \in Requests :
          \/ /\ r \in rs /\ stream'[r] = ClearedStream /\ outcome'[r] = "aborted"
          \/ r \notin rs /\ stream'[r] = stream[r] /\ outcome'[r] = outcome[r]
    BY <1>0, <1>7 DEF DiscardStreams, Abort
  <2>3. \A r \in Requests :
          \/ /\ r \in rs /\ stream'[r].body = "empty" /\ stream'[r].handle # "current"
             /\ stream'[r].status # "Completed" /\ outcome'[r] # "delivered"
          \/ r \notin rs /\ stream'[r] = stream[r] /\ outcome'[r] = outcome[r]
    BY <2>2 DEF ClearedStream
  <2>4. Next /\ ~StartStream
    BY <1>7 DEF DiscardStreams, Abort, Call, Next, Calling, StartStream, CanStart, Running
  <2> HIDE DEF rs
  <2>5. StillLinked
    BY <1>0, <2>3, <2>4, LinksLeft
  <2>6. BodyInv'
    BY <2>1, <2>3, <2>5, ForgottenBodies DEF Over
  <2> QED BY <1>g, <2>3, <2>6
<1>8. CASE UpdateOfHost
  <2>1. /\ UNCHANGED <<stream, outcome, peer, streamsMap, file, served>>
    BY <1>8 DEF UpdateOfHost, IssueCallbacks, vars, appVars, listVars, requestVars, netVars,
       quicVars
  <2>2. \A r \in Requests : /\ bytes'[r].size = bytes[r].size
                           /\ bytes'[r].write = bytes[r].write
                           /\ bytes'[r].capacity = bytes[r].capacity
    BY <1>0, <1>8 DEF UpdateOfHost, GetProgress, Counters
  <2>3. StillLinked
    BY <2>1 DEF StillLinked, Linked, Mapped, Intact
  <2>4. BodyInv'
    BY <1>k, <2>1, <2>2, <2>3 DEF Over
  <2> QED BY <1>g, <2>1, <2>4
<1>9. CASE OtherSteps
  <2>1. UNCHANGED byteVars
    BY <1>9 DEF OtherSteps
  <2>2. ASSUME NEW r \in Requests
        PROVE  /\ stream'[r].body = stream[r].body
               /\ stream'[r].status = "Completed" => stream[r].status = "Completed"
               /\ stream'[r].handle = "current" =>
                    (stream[r].handle = "current" /\ stream'[r].id = stream[r].id)
               /\ Over(r)' => Over(r)
    <3>1. CASE UNCHANGED requestVars
      BY <3>1 DEF requestVars, Over
    <3>2. CASE UpdatePhaseInitialize
      <4>1. stream' = Detached /\ UNCHANGED outcome
        BY <3>2 DEF UpdatePhaseInitialize
      <4> QED BY <1>0, <4>1 DEF Detached, Streams, Over
    <3>3. CASE CallSuccessCallback
      <4> PICK q : q = streams[cursor]
        OBVIOUS
      <4>1. q \in Requests /\ stream[q].status = "Completed"
        BY <1>0, <3>3 DEF CallSuccessCallback, InCallbacks
      <4>2. /\ stream' = [stream EXCEPT ![q] = [ClearedStream EXCEPT !.body = stream[q].body]]
            /\ outcome' = [outcome EXCEPT ![q] = "delivered"]
        BY <3>3 DEF CallSuccessCallback
      <4>3. CASE r = q
        BY <1>0, <4>1, <4>2, <4>3 DEF ClearedStream, Over
      <4>4. CASE r # q
        <5>1. stream'[r] = stream[r] /\ outcome'[r] = outcome[r]
          BY <1>0, <4>1, <4>2, <4>4
        <5> QED BY <5>1 DEF Over
      <4> QED BY <4>3, <4>4
    <3> QED BY <1>9, <3>1, <3>2, <3>3, OtherStreams
  <2>e. Ends
    BY <2>2
  <2>k. ASSUME StillLinked
        PROVE  BodyInv'
    <3>1. \A r \in Requests :
            /\ bytes'[r].size = bytes[r].size /\ bytes'[r].write = bytes[r].write
            /\ bytes'[r].capacity = bytes[r].capacity
            /\ stream'[r].body = stream[r].body
            /\ Over(r)' => Over(r)
      BY <2>1, <2>2 DEF byteVars
    <3> QED BY <1>k, <2>1, <2>k, <3>1 DEF byteVars
  <2>3. CASE Next
    <3>1. \A r \in Requests :
            stream'[r].handle = "current" =>
              (stream[r].handle = "current" /\ stream'[r].id = stream[r].id)
      BY <2>2
    <3>2. ~StartStream
      BY <1>9, OtherThanStart
    <3>3. StillLinked
      BY <1>0, <2>3, <3>1, <3>2, LinksLeft
    <3> QED BY <1>g, <2>e, <2>k, <3>3
  <2>4. CASE UNCHANGED vars
    <3>1. StillLinked
      BY <2>4 DEF StillLinked, Linked, Mapped, Intact, vars, appVars, listVars, requestVars,
         netVars, quicVars
    <3> QED BY <1>g, <2>e, <2>k, <3>1
  <2> QED BY <1>9, <2>3, <2>4, TransferStepSimulates DEF TransferNext
<1> QED
  BY <1>1, <1>2, <1>3, <1>4, <1>5, <1>6, <1>7, <1>8, <1>9 DEF TransferNext

(* It holds throughout.                                                    *)
LEMMA BodyInvHolds ==
  MapScope => (TransferSpec => [](ListsInv /\ StreamInv /\ BytesInv /\ BodyInv))
<1> SUFFICES ASSUME MapScope
             PROVE  TransferSpec => [](ListsInv /\ StreamInv /\ BytesInv /\ BodyInv)
  OBVIOUS
<1>1. TransferSpec => [](ListsInv /\ StreamInv /\ BytesInv)
  BY TransferRefinesConnection, TransferInvariant, StreamInvHolds, PTL
<1>2. ASSUME BodyInv, UNCHANGED transferVars
      PROVE  BodyInv'
  <2>1. StillLinked
    BY <1>2 DEF StillLinked, Linked, Mapped, Intact, transferVars, vars, appVars, listVars,
       requestVars, netVars, quicVars
  <2> QED BY <1>2, <2>1, BodyKept DEF Over, transferVars, byteVars, vars, appVars, requestVars
<1>3. /\ ListsInv /\ StreamInv /\ BytesInv /\ BodyInv /\ [TransferNext]_transferVars
        => BodyInv'
  BY <1>2, BodyStep
<1> QED BY <1>1, <1>3, InitialBody, PTL DEF TransferSpec

(* What Stream::EventData copies to the buffer of a request sent once      *)
(* never exceeds the buffer, made for the announced size with the first    *)
(* chunk or grown chunk by chunk, although the clamp to content-length has *)
(* no effect.                                                              *)
THEOREM BodiesFit == MapScope => (TransferSpec => []BodyFits)
<1>1. BytesInv /\ BodyInv => BodyFits
  <2> SUFFICES ASSUME BytesInv, BodyInv, NEW r \in Requests \ Saved, SentOnce(r)
               PROVE  bytes[r].write <= bytes[r].capacity
    BY DEF BodyFits
  <2>1. /\ bytes[r].write \in Nat /\ bytes[r].capacity \in Nat /\ bytes[r].size \in Nat
        /\ bytes[r].size \in {0, Length[r]}
    BY DEF BytesInv, BytesOK, Counters, BodyInv, Announced
  <2>2. bytes[r].write > 0 =>
          /\ bytes[r].write <= Length[r]
          /\ bytes[r].capacity = IF bytes[r].size = 0 THEN bytes[r].write ELSE bytes[r].size
    BY DEF BodyInv, Buffered
  <2> QED BY <2>1, <2>2
<1> QED BY <1>1, BodyInvHolds, PTL

(* A request that is complete or delivered, and was sent once, has every   *)
(* byte of its response, in memory or in its file.                         *)
THEOREM BodiesComplete == MapScope => (TransferSpec => []BodyComplete)
<1>1. BodyInv => BodyComplete
  BY DEF BodyInv, Complete, Over, BodyComplete
<1> QED BY <1>1, BodyInvHolds, PTL

(* A file is finished with exactly the bytes of the response, however      *)
(* often its request was sent: each sending truncates it.                  *)
THEOREM FilesFinished == MapScope => (TransferSpec => FileFinished)
<1> DEFINE Finished == \A r \in Saved :
             stream[r].status # "Completed" /\ stream'[r].status = "Completed"
               => file[r] = Length[r]
<1>1. /\ ListsInv /\ StreamInv /\ BytesInv /\ BodyInv /\ [TransferNext]_transferVars
        => Finished
  BY BodyStep DEF transferVars, vars, appVars, requestVars
<1> QED BY <1>1, BodyInvHolds, PTL DEF TransferSpec, FileFinished
=============================================================================
