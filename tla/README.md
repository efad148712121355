# A verification development for nhh3

nhh3 is an HTTP/3 client for Unity.  A native library, qwfs (C++, on top of
Cloudflare's quiche), does the networking; a C# layer gives it a thread and an
API.  This directory holds TLA+ models of it, the TLC runs that check them and
the proofs, checked by TLAPS, of what holds for every value of the constants.

## 1. The system

| Part | Source | State it keeps | Operations |
|---|---|---|---|
| Connection | `src/qwfs/sources/shared/qwfs_connection.cpp`, `.h` | status, phase, socket and server address, the quiche handles, the flags of Retry and Abort, three lists of requests (`_h3StreamsStock` waiting, `_h3Streams` started, `_h3StreamsErrorStock` kept for Retry), a map from stream ids to started requests | PublishRequest, Update, IssueCallbacks, Retry, Abort, Reconnect, GetProgress, SetOptions |
| Stream | `qwfs_h3_stream.cpp`, `.h` | one request: status, stream id, the handles it was started with, body, counters, file | Start, Retry, Shutdown, the events HEADERS, DATA and FINISHED, the two callbacks |
| Native API | `qwfs_quich_wrapper.cpp`, `qwfs.cpp` | the manager | checks an id, passes calls on; Abort in three states only |
| Connection manager | `qwfs_connection_manager.cpp` | connections by id, a counter | create, destroy, get |
| Host | `src/unity/Assets/nhh3/Scripts/` (C#) | a lock, an update thread, a flag for each of Retry, Abort and Reconnect, the requests by id | Initialize, Uninitialize, the constructor, Destroy, PublishRequest, Update, Retry, Abort, Reconnect |
| quiche | `src/Bat/patch/quiche/` (third party) | transport and HTTP/3 state | - |
| Sockets, samples, Unity project | `src/qwfs/sources/{windows,android,sample}`, `src/unity` | - | - |

How they interact.  The host's update thread calls `qwfsUpdate` about once a
millisecond; Unity's main thread calls `IssueCallbacks`, reads status and
progress, and publishes requests.  Every native call is made under the host's
lock (`Impl/Nhh3Impl.cs:159-206, 317-371`), so native calls do not overlap,
but they interleave in every order.  Retry, Abort and Reconnect are not
native calls of the main thread: it sets a flag, and the update thread makes
the call.  Two hosts have two locks, one manager and one map of connections.
`Update` runs `Send`, `Receive`, the
function of the current phase and two checks:

    CreateSocket -> Initialize -> Handshake -> Wait <-> ConnectionMigration
    any failure  -> StartShutdown -> WaitShutdown -> Wait        (error, Retry)
                                                  -> CreateSocket (Abort)

Behaviour that is hard to get right, and to test:

- a failure can come at any call of Update, in any phase, and the code sets
  status and phase in many places, in different orders;
- the application's calls come between any two Updates, hence between the two
  phases of a shutdown, in a handshake, or before there is a connection;
- ownership of a request moves between three lists, while a map keeps raw
  pointers to requests, cleaned separately;
- stream ids start again at 0 with each connection;
- timers are run by Update only, and not in an error state;
- a host is destroyed, and the library initialized again, while update threads
  run, and nothing but the wait for the thread keeps the free apart from the use;
- the counters of a response live in the object its callback destroys.

What makes each part correct:

- *Connection*: a published request is delivered once or discarded by Abort,
  never lost or doubled; answers reach the request they belong to; null and
  destroyed objects are never used; every error and every Abort come to an end
  from which the application can go on; the status tells the truth.
- *Stream*: what is delivered is the answer to one sending of the request, and
  fits the buffer; a file holds the answer to one sending; all bytes have been
  reported as progress when the response is handed over.
- *Native API and manager*: an id stands for one connection at most; calls on
  an id that is gone are refused.
- *Host*: a request of the application for Retry, Abort or Reconnect reaches
  the connection; a response is returned once, to the host that asked;
  Destroy returns, leaves no thread behind and frees nothing in use.

The list of hazards, each at its line, is in `PROJECT.json`.

## 2. The modules

| Module | Models |
|---|---|
| `QwfsTypes` | statuses, phases, results, the error classes and the conversions between them |
| `Connection` | one connection with its streams, against quiche, the operating system and the server |
| `RequestContract` | what the application may rely on: the abstract specification of `Connection` |
| `ConnectionProperties` | the properties of a connection, and the refinement mapping |
| `ConnectionProofs` | its theorems without further hypotheses |
| `PhaseProofs` | what each phase may assume of handles and lists, and the truth of the status Wait |
| `StreamProofs` | the map of streams: no dangling pointer, no event for another |
| `Transfer` | `Connection` with the bytes of the responses: buffers, files, content-length, progress |
| `TransferProperties`, `TransferProofs` | its properties and its theorems about counters and progress |
| `BodyProofs` | the theorems about complete bodies, buffers and files, on top of `StreamProofs` |
| `Host` | the C# layer and the manager: main thread, update threads, locks, flags, the registries |
| `HostContract` | what each host promises: the abstract specification of `Host` |
| `HostProperties`, `HostProofs` | its properties, refinement mapping and theorems |
| `MCConnection`, `MCTransfer`, `MCHost` | constants and symmetry, for TLC |

`Transfer` extends `Connection` and refines it.  `Host` stands beside them: to
it a connection is a set of requests with and without an answer, which is what
`RequestContract` leaves of one.

### Connection

*State.*  Each member of the class that controls what happens has a variable of
its name (`status`, `phase`, `sock`, `peerAddInfo`, `conn`, `h3`, `zeroRtt`,
`callRetry`, `callAbort`, `stock`, `streams`, `errorStock`, `streamsMap`).
`stream[r]` is the Stream object of request r: status, stream id, whether its
handles are null, those of the connection in use or stale, and where the parts
of its body come from.  `established` and the values of `conn` are what quiche
answers when asked; `peer` is the server's side: the next stream id, and which
request it was asked on which stream.  `outcome` is a history variable.

A request whose object is destroyed, because it was delivered or discarded,
leaves the lists; the map may still point to it, and using it then is a fault.

*Steps.*  An application's call that only assigns is one action.  `Update` is
cut at the functions it calls and at the turns of its loops, because quiche and
the network can answer differently each time; `at` holds the place, and no
other call starts before `at` is "idle" again (the host's lock).
`IssueCallbacks` is a loop over the list with `cursor`.  An action covers all
its branch of the code changes, e.g. `ParkRequests` is the whole else-branch of
`UpdatePhaseWaitShutdown`.

*The environment.*  Failures are listed by kind in `FailureKinds`: each call of
quiche or the operating system whose failure the code handles, the server's
closing, resetting and sending GOAWAY, and the idle timer.  A run says which of
them can happen and how often.  A dereference of a null or destroyed object
ends the behaviour in a state where `fault` names the function; properties are
then about what led there.

*Bounds.*  `MaxFailures` and `MaxCalls` bound the failures and the calls of
Retry, Abort and Reconnect in a behaviour.  `MaxStreams` bounds the ids one
HTTP/3 connection opens: `StartStream` needs `peer.next < MaxStreams`, and
since `StartDone` is not possible there, a run with too small a bound would be
reported by TLC as a deadlock.

### Transfer

Every action of `Transfer` is an action of `Connection` with what it does to
bytes (`Respond` is `PollResponse` with EventHeaders or EventData, `Finish`
adds to `_totalWriteSize`, `ShutdownStreams` and `DiscardStreams` clear what
`Stream::Clear` clears), or leaves bytes alone (`OtherSteps`).  `bytes[r]` has
the four numbers of a Stream: announced size, bytes written, bytes not yet
reported, size of the buffer.  `file[r]` is what has been written to the file
of a request that names one since `fopen` truncated it; `served` is the
server's side, and `told` a history variable: what GetProgress has returned of
each request.  The difference in the clamp is taken modulo `Word`, as the code
takes it modulo 2^64.  `UpdateOfHost` is `Nhh3Impl.Update`: progress first, then
the callbacks, under one lock.

The server keeps to the content-length it announces, if it announces one, and
`fopen`, sending a request and reading a body do not fail here: those failures
are in the runs of `Connection`.

### Host

*State.*  `manager`, `nextId` and `connections` are the native registry;
`hostId`, `implList` and `responses` are `_hostId` and the static dictionaries
of the C# classes; `flag[i]` is the set of flags raised, `cancelled[i]` the
token.  `thread[i]` says where the update thread of host i is and in which
native call, `main` what the main thread is doing.  A connection is named after
the host that created it, so that "another connection of the same id" can be
told apart.

*Steps.*  `UpdateQwfs` is `Check`, then for each flag `Exchange` and, if it was
set, `Enter` and `Leave`, then the same for qwfsUpdate.  A native call is cut
between the lookup of the connection and its work because the main thread's
Destroy and Initialize, which take no lock, can come in between.  What they do
to the map lasts from one step to another (`creating`, `destroying`,
`initializing`).  `Destroy` is cut at the wait for the task, `Update` at the
lock: the list of the last responses is cleared before it.

*Faults.*  "connection": a native call works in a connection that was freed;
"manager": Retry or Abort, which do not test the pointer, find none; "map": an
update thread looks its connection up while the main thread changes the map.
The last one needs no more than two hosts and no property is about it.
`orphaned` is a history variable: Initialize was called while hosts were alive.

*Bounds.*  `MaxIds` is the number of ids one manager gives out, `MaxPosts` the
calls of Retry, Abort and Reconnect together, `MaxInits` the calls of
Initialize.

## 3. The runs

The runs of `Connection` and `Transfer` have two requests: enough for a list to
have an order, for one request to wait while another is started
(`MaxConcurrent = 1`) and for two to be started together
(`MaxConcurrent = 2`); requests do not look at each other otherwise.

| Run | Question | Bounds |
|---|---|---|
| `single_fault` | Does any one failure, at any point, with Retry and Abort, leave a dangling pointer, an answer for the wrong request or for a Stream that cannot take it, a phase without its connection, or a started request without HTTP/3? | 1 failure of any of 20 kinds, 2 calls, both requests started together |
| `all_calls` | Is a request ever lost, doubled or settled twice, or an error forgotten? | 1 failure, 2 calls of any kind, migration and early data on |
| `healthy` | Does everything end well: requests while nothing fails, an Abort, a migration after a host that could not be resolved? | 1 Abort or Reconnect at any point, migration on, 1 failure to resolve or idle timeout |
| `lost_connection` | Does each error end in the phase Wait, ready for Retry, when the server goes away, also a second time on a connection made anew? | 2 of close, silence; 1 Reconnect at any point, also between the two; one request started at a time; early data on |
| `transfers` | Are buffers large enough, finished files and delivered bodies complete, is all progress reported, and does the total start again only when nothing is started? | one body to memory, one to a file, 2 bytes each in 1 or 2 chunks; `Word` = 16; 1 close or stream reset; 1 call of any kind |
| `hosts` | Can a destroyed host, a second Initialize or an unlucky order of flags lose a call, return a response twice, or use what is freed? Does Destroy return? | 2 hosts, 2 ids, 1 request, 2 Aborts, 2 calls of Initialize |

`TypeOK` is checked with `single_fault` and `hosts`, `TransferTypeOK` with
`transfers`, the largest run (about 1.6 million states).  The kinds of failure
are one class of error each where the code distinguishes classes only.  Bodies
of two bytes make a first chunk, a later one and a last one differ, and `Word`
= 16 is more than twice as much, as 2^64 is for any body.  In `hosts` two hosts
are what the shared map and a reused id need, and Abort is the one of the three
flags whose call changes what becomes of requests; the proofs are about all
three.

Fairness of `Connection` (`FairSpec`), used by `healthy`, `lost_connection` and
`shutdown_stuck`.  `WF(at # "idle" /\ Next)`: a native call that has begun goes
on.  `SF(Send)` and `SF(IssueCallbacks)`: the update thread calls Update again
and again, the main thread issues callbacks again and again, and each gets the
lock in the end; strong, because the other thread's call disables it for a
while.  `SF(ReceiveEstablished)` and `SF(PollFinished(id))`: the server completes
the handshake and answers what it is asked, which is assumed of the server, not
of the code; without it no request ends.  `SF(conn = "closing" /\
CheckConnectionTimeout)`: the timer of a closing connection, which is a few round
trips long, runs out and is noticed *when the code looks at it*.
`SF(AwaitResolution /\ conn' = "closed")`: a migration that goes on waiting
passes its own time-out, and at one of the calls that then ask quiche's timers
the idle timer is due, since no packet is read in that phase.  Only the timers
are assumed, not what `Connection::Timeout` makes of them: that the phase is
left is the code's doing (with `MutMigrationTimeout`, which closes the
connection and does not look, it is not).  The idle timer must be enabled for
this (`healthy` has `idleTimeout` among its failures): with
`max_idle_timeout` 0 a migration under `ErrorResolveHost` waits for ever.  No
fairness is assumed of the application's calls, of failures, nor of a timer the
code does not look at.

Fairness of `Host`, used by `hosts`: each update thread goes on, and the main
thread goes on with a call it has begun, but for Update, which waits for a lock
and keeps nobody else from going on.

Some properties do not hold for all calls and failures.  The theorems about
them have a hypothesis on the constants that leaves out what breaks them
(`AbortUndisturbed`, `PhaseScope`, `IdleScope`, `MapScope`, section 4).  With
two requests, TLC finds:

| Property | Violated with |
|---|---|
| `NoDanglingStream` | Reconnect and 1 failure; migration and 2 failures; migration, Abort and 2 failures; Retry and 2 failures, a reset and a packet that fails without an error |
| `EventsReachOwner` | migration, Abort and 1 failure |
| `PhaseHasConnection` | Retry and 3 failures; Abort, Reconnect and 2 failures; Abort, migration and 3 failures |
| `StartedHaveHttp3` | Abort, Reconnect and 1 failure; Abort, migration and 1 failure |
| `WaitMeansNoneStarted` | migration; Abort and Reconnect; Retry with early data, or with a failure of `sendQuiche`, `recvQuiche`, `sendRequest` or `openFile` |

Each is a disagreement between two parts of the state that a longer behaviour
of the code reaches: a Reconnect leaves entries in the map (`reused_ids`), a
migration or a Retry sets the status Wait over started requests, a migration
overwrites the phase of a shutdown.  Further limits:

- `RequestsSettle` speaks of requests while nothing has failed, and does not
  hold with two Reconnects, because of reused ids.
- `AbortEnds` is checked with one call, Abort or Reconnect.  With an Abort and a
  Reconnect before its shutdown is over TLC finds it violated: the Reconnect
  goes to CreateSocket and leaves `_callAbort` set (see the divergences).
- `MigrationEnds` rests on the timers assumed above; it says that the phase looks
  at them and is left when they close the connection.
- `ErrorsStay` excepts a migration: when Send or Receive fails and Update
  migrates instead, the error is overwritten.
- In `lost_connection` an error is left by Reconnect only, as Retry has findings
  of its own (`retry_address`).  With Retry it would end at the missing address.
- `BodyFits` and `BodyComplete` are about requests sent once.  After a Reconnect
  a body in memory is the finding `reconnect_body`; a file is truncated and
  holds the new answer only (`FileFinished`), but see the last of the
  divergences below.
- `NoUseAfterDestroy` and the contract of `Host` except what follows an
  Initialize over living hosts; `OneThreadPerId` and `NoCallLost` do not.

### Findings

Six runs expect a violation; each shows what a comment of the source promises
and the code does not do (`PROJECT.json`, "findings", with the quotes):

- `stream_limit`: the peer's limit on streams is a critical error, because the
  code tested (-12) is not the one quiche returns (-1012);
- `retry_address`: Retry after a shutdown uses the server's address that the
  shutdown has freed;
- `shutdown_stuck`: after a failed `sendto` the shutdown never ends, and
  neither Retry nor Abort has an effect;
- `silent_shutdown`: callbacks issued in the middle of a shutdown restart its
  requests with null handles;
- `reused_ids`: after a Reconnect the map still has entries for the new
  connection's stream ids, and answers are dropped;
- `reconnect_body`: a Reconnect in the middle of a response appends the new
  response to the old one.

### Divergences without a run

Noticed while modelling; each is a step of a model, or plain from one function,
so that a run would only restate it:

- A second Initialize does not call Uninitialize, as the comment at
  `Nhh3Sharp.cs:424` says: it deletes the manager under the update threads.
- The constructor does not refuse an authority that is in use
  (`Nhh3Sharp.cs:460`): only ids are keys.
- Abort does not discard the requests of a connection in an error state
  (`Nhh3Sharp.cs:511`): the wrapper drops the call.
- `totalWriteSize` counts finished requests (`Nhh3Sharp.cs:484` says it does
  not), and once too often those finished and not yet delivered.
- A Retry asked for in an error state fires later, on a healthy connection, if
  a Reconnect or a migration comes first.  After a packet that failed, which
  starts no shutdown, it leaves the started requests with handles of the
  connection it replaces.
- A migration ignores that the socket could not be made, and is kept waiting by
  the status of an earlier attempt, until its own time-out.
- A request that failed for good has its error callback called in every
  IssueCallbacks.
- Abort takes effect with the next turn of the update thread, PublishRequest at
  once: a request published after Abort() returned can be discarded by it.
- A Reconnect before an Abort is over goes to CreateSocket and does not reset
  `_callAbort` (`qwfs_connection.cpp:946`).  The flag stays set on the new
  connection, and the next shutdown, whatever its cause, is taken for the end of
  the Abort: its error is not shown, and its started requests stay in their list
  without a connection.
- The map of connections is read and changed by several threads without a lock.
- A request that is finished and not yet delivered is started again by
  Reconnect.  Its file is truncated, and the next callback hands it over, empty.
  The first FILE is never closed.  (The same request with a body in memory is
  not harmed.)

## 4. The proofs

### Connection

`ConnectionProofs` proves, for all sets of requests, limits, options, kinds and
numbers of failures and calls that satisfy `ConnectionAssumption`:

- `TypeCorrect`: `Spec => []TypeOK`;
- `RequestsKept`: `Spec => []RequestInOneList`;
- `ConnectionImplementsContract`: `Spec => ImplementsContract`, that is, the
  connection refines `RequestContract`;
- `ErrorsRemain`: `Spec => ErrorsStay`.

The inductive invariant of the first three is
`ListsInv == TypeOK /\ RequestInOneList`.  The type
invariant is needed with it: that the lists are sequences of requests and
`cursor` is a positive number is what lets a callback remove the right element.
Its step is proved in four parts, one lemma for each conjunct of `TypeOK`
(`ControlStep`, `HandlesStep`, `QueuesStep`, `StreamsStep`), one case per
action.

`ErrorsRemain` needs one fact about the places where a call can be
(`NoErrorToForget`): polling, and starting requests outside the handshake, are
reached without an error only.  These are the steps that set the status Wait
without looking at it.

For the lists, `QueueSteps` first sorts out the seven actions that touch them.
`Concatenation`, `AppendTail`, `Reversal` and `Removal` say of the operators on
sequences what they keep: no repetition, and which set of elements.
`HeldPartition` turns `RequestInOneList`, a statement about the concatenation
of the three lists, into one about each list and the sets of their elements,
and `ListsStep` then goes through the seven actions.

For the refinement, `RequestInOneList` identifies the abstract `pending` (what
the lists hold) with the history variable, after which `ContractStep` maps
PublishRequest, Abort and CallSuccessCallback to Publish, DiscardAll and
Deliver and every other step to a stutter.

### The phases

`PhaseProofs` proves, for any number of failures and requests:

- `PhasesFit`: `AbortUndisturbed => (Spec => [](ListsInv /\ PhaseInv))`;
- `StartedKeepHttp3`: `AbortUndisturbed => (Spec => []StartedHaveHttp3)`;
- `SetupKeepsConnection`: `PhaseScope => (Spec => []PhaseHasConnection)`;
- `WaitIsIdle`: `IdleScope => (Spec => []WaitMeansNoneStarted)`.

`PhaseHasConnection` is not inductive: phase and `conn` are set in different
places, and a step that sets one relies on what an earlier one left.
`PhaseInv` says what a phase may assume: a socket is made with nothing
started, there is no HTTP/3 connection only while nothing is started, polling
and starting happen in three phases.  `StartedHaveHttp3` follows from it and is
not inductive alone: a Reconnect may go to CreateSocket because it empties the
list itself, but the end of an Abort because nothing was started since.
`PhaseInv` needs Abort to be the last word (`AbortUndisturbed`), since Abort
empties the started list and the way back to CreateSocket does not.  `SetupInv` adds that without a quiche connection the
connection is about to make one or parked in an error state, and that none of
the started requests has failed for good: the error callback of such a request
starts a shutdown in any phase, which would then close a connection that is
not there.  This is the part that three failures break: after a Retry out of a
failed set-up a request can be there that has failed for good.  `PhaseScope`
leaves that out with `"newConnection" \in Failures /\ "Retry" \in Calls =>
MaxFailures <= 1`.

`WaitIsIdle` strengthens its property to all phases: `IdleInv` says
that the status Wait and an empty list go together everywhere, where there is
Retry, that an error with requests started is on its way through a shutdown,
and that a Retry that is remembered finds nothing started or a shutdown still
to come.  The five places that set Wait
agree only because of this.

### The map of streams

`StreamProofs` proves, under `MapScope`, for any number of requests, ids,
connections after one another, and calls:

- `StreamsNotDangling`: `Spec => []NoDanglingStream`;
- `EventsOwned`: `Spec => []EventsReachOwner`;
- `EventsTaken`: `Spec => []EventsFindStream`.

`MapScope` admits Retry and Abort with any number of failures; of the 20 kinds
only a reset stream together with a packet that fails without an error is left
out when there are two.  It admits migration with one failure and without Abort,
and Reconnect without failures and without Abort.

`NoDanglingStream` says nothing about which Stream an entry is for, so that it is
not kept by a delivery, which removes the entry by the id in the Stream.  The
inductive invariant `MapInv` says of the map: its pointers are to started
requests (`MapsStarted`), each to another one (`MapsOnce`), a finished one knows
the id it was entered with (`KnowsId`), ids not opened yet have no entry
(`FreshIds`), and a Stream whose answer is still to come has its handles and id
(`AskedIntact`), *or* the connection is in a dead end (`DeadEnd`), a shutdown
or what follows it, from which no event can come before the map is emptied.  The
dead end is needed because a shutdown clears the Streams first and the map two
phases later.  That it ends only with an empty map needs `CalmInv`: what may have
started a shutdown with the connection open and no error, and that without
failures and Abort there is no shutdown at all (then Reconnect may keep its
entries).  `MapStep` goes through the actions; `DeliveryMap`, `StartMap`, `PollMap`
and `MapEmptied` are its four cases that change the map.

### Transfer

`TransferProofs` proves, for bodies of any size read in chunks of any size:

- `TransferRefinesConnection`: `TransferSpec => Spec`, one case per action, so
  that what is proved of `Connection` holds here
  (`TransferImplementsContract`);
- `TransferTypeCorrect`: `TransferSpec => []TransferTypeOK`, which includes that
  what is to be reported never exceeds what is written;
- `ProgressReported`: `TransferSpec => []ReportedBeforeDelivered`.

`BytesInv`, beside `ListsInv`, says that told plus unreported is written, for
every request (`AllCounted`), and that nothing is unreported of a started
request while callbacks run, nor of a delivered one.  The first half alone is
not enough: it is the order of GetProgress and IssueCallbacks in one Update that
makes the unreported part 0 when the Stream goes.  `NoClamp` shows on the way
that the test of the last chunk is never true, for any numbers.

### Bodies

`BodyProofs` proves, for bodies of any size, announced or not, in chunks of any
size:

- `TotalRestarts`: `IdleScope => (TransferSpec => TotalRestartsIdle)`;
- `BodiesFit`: `MapScope => (TransferSpec => []BodyFits)`;
- `BodiesComplete`: `MapScope => (TransferSpec => []BodyComplete)`;
- `FilesFinished`: `MapScope => (TransferSpec => FileFinished)`.

`BodyFits` and `BodyComplete` speak of a Stream and the length of its
response; what keeps them is the server, which sends so much and no more *on an
id*.  `Linked(id)` says that the server was asked on this id and the map leads
to a Stream that can take the answer, and `Linkage` that for such an id the
counter of the Stream, its file and the server agree.  Only Stream::Start makes
a link (`LinksLeft`), and on an id nothing was sent on; every other step keeps
links or ends them.  `EmptyBodies`, `Announced` and `Buffered` relate the four
counters, and `Complete` is what FINISHED leaves.  That an event finds its link,
and the link belongs to the request asked for, are the theorems of
`StreamProofs`, which hold here by `TransferRefinesConnection`.

The run `transfers` is in one respect wider than these theorems: it has
Reconnect together with a failure, which `MapScope` does not admit.

### Host

`HostProofs` proves, for any number of hosts, requests, ids and calls:

- `HostTypeCorrect`: `Spec => []TypeOK`;
- `OneThread`: `Spec => []OneThreadPerId`;
- `CallsKept`: `Spec => []NoCallLost`;
- `NoUseAfterFree`: `Spec => []NoUseAfterDestroy`;
- `HostsImplementContract`: `Spec => ImplementsContract`.

The argument goes in four layers, each proved inductive with the ones before.
`ControlInv` ties a running thread to a listed host, and a cancelled, listed
host to the Destroy in progress; that a host runs only while it is the one in
the list for its id is `OneThread`.  `FlagInv` adds that the calls made, the
flags raised and the call about to be made are together at most those asked
for.  `RegistryInv` says that a host that is kept (listed, and not yet past the
end of its Destroy) has the manager and its own connection in the map, and that
a thread inside a call is in its own connection; it holds as long as the library
is not initialized over living hosts.  `RequestInv` says that a request held by
a connection belongs to a host that is kept, and a response in a list has been
returned.  With these, `PublishMaps`, `ReturnMaps`, `LeaveMaps`, `EndMaps`,
`AskMaps` and `OthersMap` take each step of `Host` to one of `HostContract`.

### Model-checked only

Every invariant, action property and refinement the passing runs check is
stated by a theorem.  Liveness (`RequestsSettle`, `AbortEnds`, `MigrationEnds`,
`ErrorsPark`, `CallsArrive`, `DestroyEnds`) under fairness is out of the
prover's reach and stays with TLC.  So do the properties with a hypothesis where
the hypothesis does not hold and TLC finds no violation either, which is not known
to be true for all constants: the map of streams with Reconnect and Abort and no
failure, and bodies with Reconnect and a failure.

## 5. What is not modelled

- SetOptions and the quiche configuration (the result of making one is ignored
  by `UpdatePhaseInitialize`), saving and loading sessions (whether one was
  loaded is a free choice), GetErrorDetail, headers but content-length, the
  response code, logging.
- A failed `fwrite`, which the code does not look at, and memory that runs out.
- Two failures in one step, e.g. in Abort; a packet that arrives after a failed
  `quiche_connect`.
- The destructor of Connection with requests under way: destruction is modelled
  in `Host`, where a connection has no phases.
- In `Host`: responses from the error callback, which differ from the others in
  their status only; exceptions thrown out of a callback; `_nextId` after 2^64
  connections.
- The wrappers of sockets are calls of the operating system, whose outcomes are
  choices of the model.  quiche is external.  Samples and the Unity project have
  no logic of the library.

## 6. Plan

Done: `QwfsTypes`, `RequestContract`, `Connection`; `Host` with the manager and
the registries, and `HostContract`; `Transfer`; migration and its time-out; the
theorems of all three, with the invariants of the phases, the map of streams and
the bodies.  Left, in this order:

1. The connection as `Host` sees it, requests with and without an answer, as a
   module of its own, which `Connection` is shown to implement call by call.  A
   call of IssueCallbacks or several of PublishRequest are one step of `Host` and
   several of `Connection`, so that this needs a mapping that waits for the call
   to end.
2. `MapScope` with Reconnect and Abort, which needs an invariant about the
   entries a Reconnect leaves: their requests are in the stock and will be
   started under another id.
3. The error callback's responses in `Host`, and the error stock.
