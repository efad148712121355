--------------------------------- MODULE Host ---------------------------------
(***************************************************************************)
(* The C# layer over the native library (Nhh3Impl.cs, through Nhh3Sharp.cs)*)
(* with the native registry of connections (qwfs_connection_manager.cpp,   *)
(* qwfs_quich_wrapper.cpp): the application's main thread, an update       *)
(* thread for each host, a lock for each host, the flags with which the    *)
(* main thread asks an update thread for Retry, Abort and Reconnect.       *)
(*                                                                         *)
(* The lock belongs to one host: the native calls of one host do not       *)
(* overlap, those of two hosts do, and all of them look their connection   *)
(* up in one map without a lock.  An update thread's native call is cut in *)
(* two, the lookup and the work.  What the main thread does to the map     *)
(* takes from one step to a later one.  Its calls that take the lock are   *)
(* one step, possible while the update thread is not inside a call.        *)
(*                                                                         *)
(* A connection is named after the instance that created it; what happens  *)
(* inside (module Connection) is abstracted to which of its requests have  *)
(* an answer.  The application calls a host's functions only between its   *)
(* construction and Destroy, as documented, from one thread; but it may    *)
(* destroy a host twice and initialize the library twice.                  *)
(*                                                                         *)
(* MaxIds, MaxPosts, MaxInits bound the model, not the code: the ids given *)
(* out by one manager, the calls of Retry, Abort and Reconnect together,   *)
(* the calls of Initialize.                                                *)
(***************************************************************************)
EXTENDS Integers

CONSTANTS Instances, Requests, Nobody, Calls, MaxIds, MaxPosts, MaxInits

CallKinds == {"Retry", "Abort", "Reconnect"}

ASSUME HostAssumption ==
  /\ Nobody \notin Instances
  /\ Calls \subseteq CallKinds
  /\ MaxIds \in Nat /\ MaxPosts \in Nat /\ MaxInits \in Nat

VARIABLES
  manager, nextId,  \* _connectionManager is not null; its _nextId
  connections,      \* its _connections, from ids to connections
  hostId,           \* _hostId of each instance
  implList,         \* _Nhh3ImplList, from ids to instances
  responses,        \* _responseForEachHost, the responses as requests
  flag,             \* _requestRetry, _requestAbort, _requestRecconect
  cancelled,        \* _cToken
  thread,           \* the update thread of each instance
  main,             \* what the main thread is doing
  request,          \* each request: who published it, where it is
  owed,             \* history: calls of the application not yet passed on
  asked, made,      \* history: how often calls were asked for, and made
  got,              \* history: how often Update returned a response
  posts, inits,     \* history: the calls of the flags, of Initialize
  orphaned,         \* history: Initialize was called with hosts in the list
  fault             \* an access to what is destroyed, or being changed

nativeVars  == <<manager, nextId, connections>>
listVars    == <<hostId, implList, inits, orphaned>>
callVars    == <<flag, owed, asked, made, posts>>
answerVars  == <<responses, got>>
registryVars == <<nativeVars, listVars>>
vars == <<registryVars, callVars, answerVars, cancelled, thread, main,
          request, fault>>

Ids  == 0 .. (MaxIds - 1)
NoId == -1                     \* INVALID_HOST_ID

NativeCalls == CallKinds \cup {"Update"}

(* "check": IsCancellationRequested is next; "flag", "enter", "in": the    *)
(* flag of call is tested next, its native call is made next, is running   *)
(* in connection conn.                                                     *)
Threads ==
  [at   : {"none", "check", "flag", "enter", "in", "ended"},
   call : NativeCalls,
   conn : Instances \cup {Nobody}]

(* "joining": waiting for the update thread; "creating", "destroying",     *)
(* "initializing": changing the native map; all: inside Uninitialize.      *)
Mains ==
  [op  : {"idle", "creating", "joining", "destroying", "updating",
          "initializing", "uninitializing"},
   of  : Instances \cup {Nobody},
   all : BOOLEAN]

(* A request: not published; sent to connection conn; answered; handed to  *)
(* a callback; gone with an Abort or with its connection.                  *)
RequestRecords ==
  [by   : Instances \cup {Nobody},
   conn : Instances \cup {Nobody},
   st   : {"new", "waiting", "done", "out", "dropped"}]

TypeOK ==
  /\ manager \in BOOLEAN /\ nextId \in 0 .. MaxIds
  /\ connections \in [Ids -> Instances \cup {Nobody}]
  /\ hostId \in [Instances -> Ids \cup {NoId}]
  /\ implList \in [Ids -> Instances \cup {Nobody}]
  /\ responses \in [Ids -> SUBSET Requests]
  /\ flag \in [Instances -> SUBSET CallKinds]
  /\ cancelled \in [Instances -> BOOLEAN]
  /\ thread \in [Instances -> Threads]
  /\ main \in Mains
  /\ request \in [Requests -> RequestRecords]
  /\ owed \in [Instances -> SUBSET CallKinds]
  /\ asked \in [Instances -> [CallKinds -> Nat]]
  /\ made \in [Instances -> [CallKinds -> Nat]]
  /\ got \in [Instances -> [Requests -> Nat]]
  /\ posts \in 0 .. MaxPosts /\ inits \in 0 .. MaxInits /\ orphaned \in BOOLEAN
  /\ fault \in {"none", "map", "manager", "connection"}

-----------------------------------------------------------------------------
(* Helpers                                                                 *)

Alive == fault = "none"
Idle  == Alive /\ main.op = "idle"

Doing(op, i, all) == main' = [op |-> op, of |-> i, all |-> all]
Rest == Doing("idle", Nobody, FALSE)

Point(p, call, c) == [at |-> p, call |-> call, conn |-> c]
Stopped(p) == Point(p, "Retry", Nobody)
Goes(i, point) == thread' = [thread EXCEPT ![i] = point]

(* The update thread of i runs.                                            *)
Running(i) == thread[i].at \notin {"none", "ended"}

(* Instance i is constructed and not destroyed.                            *)
Listed(i) == hostId[i] \in Ids /\ implList[hostId[i]] = i

(* The main thread is inside a change of _connections, or of the pointer   *)
(* to the manager.                                                         *)
Changing == main.op \in {"creating", "destroying", "initializing"}

(* ConnectionManager::GetConnection, for the id of i.                      *)
GetConnection(i) == IF manager THEN connections[hostId[i]] ELSE Nobody

(* _lockObject of i is not held by its update thread.                      *)
LockFree(i) == thread[i].at # "in"

(* The requests in connection c are destroyed.                             *)
Dropped(c) ==
  [r \in Requests |->
     IF request[r].conn = c /\ request[r].st \in {"waiting", "done"}
       THEN [request[r] EXCEPT !.st = "dropped"] ELSE request[r]]

Crash(what) ==
  /\ fault' = what
  /\ UNCHANGED <<registryVars, callVars, answerVars, cancelled, thread, main,
                 request>>

Init ==
  /\ manager = FALSE /\ nextId = 0
  /\ connections = [id \in Ids |-> Nobody]
  /\ hostId = [i \in Instances |-> NoId]
  /\ implList = [id \in Ids |-> Nobody]
  /\ responses = [id \in Ids |-> {}]
  /\ flag = [i \in Instances |-> {}]
  /\ cancelled = [i \in Instances |-> FALSE]
  /\ thread = [i \in Instances |-> Stopped("none")]
  /\ main = [op |-> "idle", of |-> Nobody, all |-> FALSE]
  /\ request = [r \in Requests |-> [by |-> Nobody, conn |-> Nobody, st |-> "new"]]
  /\ owed = [i \in Instances |-> {}]
  /\ asked = [i \in Instances |-> [k \in CallKinds |-> 0]]
  /\ made = [i \in Instances |-> [k \in CallKinds |-> 0]]
  /\ got = [i \in Instances |-> [r \in Requests |-> 0]]
  /\ posts = 0 /\ inits = 0 /\ orphaned = FALSE /\ fault = "none"

-----------------------------------------------------------------------------
(* The main thread: the library                                            *)

(* Initialize: qwfsInitialize deletes the manager there is, with all its   *)
(* connections, and makes a new one.  The lists are left as they are.      *)
Initialize ==
  /\ Idle
  /\ inits < MaxInits
  /\ inits' = inits + 1
  /\ orphaned' = (orphaned \/ \E i \in Instances : Listed(i))
  /\ manager' = FALSE
  /\ connections' = [id \in Ids |-> Nobody]
  /\ request' = [r \in Requests |-> Dropped(request[r].conn)[r]]
  /\ Doing("initializing", Nobody, FALSE)
  /\ UNCHANGED <<nextId, hostId, implList, callVars, answerVars, cancelled,
                 thread, fault>>

Initialized ==
  /\ Alive /\ main.op = "initializing"
  /\ manager' = TRUE /\ nextId' = 0
  /\ Rest
  /\ UNCHANGED <<connections, listVars, callVars, answerVars, cancelled,
                 thread, request, fault>>

(* Uninitialize: Destroy(false) for one host after another, in any order   *)
(* the dictionary has, then the lists are cleared and the manager deleted. *)
Uninitialize ==
  /\ Idle
  /\ Doing("uninitializing", Nobody, TRUE)
  /\ UNCHANGED <<registryVars, callVars, answerVars, cancelled, thread,
                 request, fault>>

ToDestroy == {i \in Instances : Listed(i) /\ ~cancelled[i]}

Uninitialized ==
  /\ Alive /\ main.op = "uninitializing"
  /\ ToDestroy = {}
  /\ implList' = [id \in Ids |-> Nobody]
  /\ responses' = [id \in Ids |-> {}]
  /\ manager' = FALSE
  /\ connections' = [id \in Ids |-> Nobody]
  /\ request' = [r \in Requests |-> Dropped(request[r].conn)[r]]
  /\ Rest
  /\ UNCHANGED <<nextId, hostId, inits, orphaned, callVars, got, cancelled,
                 thread, fault>>

-----------------------------------------------------------------------------
(* The main thread: construction and destruction of a host                 *)

(* The constructor of a fresh instance (they differ in nothing but their   *)
(* names), as far as ConnectionManager::Create.                            *)
Fresh == {i \in Instances : hostId[i] = NoId}

Create ==
  /\ Idle
  /\ manager /\ nextId < MaxIds
  /\ Fresh # {}
  /\ Doing("creating", CHOOSE i \in Fresh : TRUE, FALSE)
  /\ UNCHANGED <<registryVars, callVars, answerVars, cancelled, thread,
                 request, fault>>

(* Mutant: the id is read after the counter is advanced.                   *)
MutNewId == nextId + 1

NewId == nextId

(* Mutant: _Nhh3ImplList[_hostId] = this.                                  *)
MutMayAdd(id) == TRUE

(* Dictionary.Add throws for a key it has.                                 *)
MayAdd(id) == implList[id] = Nobody

(* The end of Create and the rest of the constructor.  When the id is in   *)
(* the list already, Add throws: no update thread is started, and the      *)
(* native connection stays.                                                *)
Created ==
  /\ Alive /\ main.op = "creating"
  /\ LET i == main.of
     IN  /\ hostId' = [hostId EXCEPT ![i] = NewId]
         /\ connections' = [connections EXCEPT ![nextId] = i]
         /\ nextId' = nextId + 1
         /\ IF MayAdd(nextId)
              THEN /\ implList' = [implList EXCEPT ![nextId] = i]
                   /\ Goes(i, Stopped("check"))
              ELSE UNCHANGED <<implList, thread>>
  /\ Rest
  /\ UNCHANGED <<manager, inits, orphaned, callVars, answerVars, cancelled,
                 request, fault>>

(* Mutant: Cancel() is forgotten.                                          *)
MutCancel(i) == UNCHANGED cancelled

Cancel(i) == cancelled' = [cancelled EXCEPT ![i] = TRUE]

(* Destroy of a host in the list.  A host that is destroyed already is not *)
(* in the list, and nothing happens; if a later host has its id, Cancel on *)
(* the disposed token throws, and nothing happens either.                  *)
Destroy(i) ==
  /\ Idle
  /\ Listed(i)
  /\ Cancel(i)
  /\ Doing("joining", i, FALSE)
  /\ UNCHANGED <<registryVars, callVars, answerVars, thread, request, fault>>

DestroyNext(i) ==
  /\ Alive /\ main.op = "uninitializing"
  /\ i \in ToDestroy
  /\ Cancel(i)
  /\ Doing("joining", i, TRUE)
  /\ UNCHANGED <<registryVars, callVars, answerVars, thread, request, fault>>

(* Mutant: the task is not waited for.                                     *)
MutHasEnded(i) == cancelled[i]

HasEnded(i) == thread[i].at = "ended"

(* _task.Wait() returns, and ConnectionManager::Destroy begins.            *)
Joined ==
  /\ Alive /\ main.op = "joining"
  /\ HasEnded(main.of)
  /\ main' = [main EXCEPT !.op = "destroying"]
  /\ UNCHANGED <<registryVars, callVars, answerVars, cancelled, thread,
                 request, fault>>

Destroyed ==
  /\ Alive /\ main.op = "destroying"
  /\ LET id == hostId[main.of]
     IN  /\ request' = IF GetConnection(main.of) = Nobody THEN request
                       ELSE Dropped(GetConnection(main.of))
         /\ connections' = [connections EXCEPT ![id] = Nobody]
         /\ responses' = [responses EXCEPT ![id] = {}]
         /\ implList' = IF main.all THEN implList
                        ELSE [implList EXCEPT ![id] = Nobody]
  /\ IF main.all THEN Doing("uninitializing", Nobody, TRUE) ELSE Rest
  /\ UNCHANGED <<manager, nextId, hostId, inits, orphaned, callVars, got,
                 cancelled, thread, fault>>

-----------------------------------------------------------------------------
(* The main thread: the functions of a host                                *)

(* PublishRequest, of some requests under one lock.  A request that finds  *)
(* no connection is gone: the result is only asserted.                     *)
PublishRequest(i, new) ==
  /\ Idle /\ Listed(i) /\ LockFree(i)
  /\ \A r \in new : request[r].st = "new"
  /\ request' = [r \in Requests |->
       IF r \notin new THEN request[r]
       ELSE [by |-> i, conn |-> GetConnection(i),
             st |-> IF GetConnection(i) = Nobody THEN "dropped" ELSE "waiting"]]
  /\ UNCHANGED <<registryVars, callVars, answerVars, cancelled, thread, main,
                 fault>>

(* Update: the responses returned last time are cleared outside the lock.  *)
Update(i) ==
  /\ Idle /\ Listed(i)
  /\ responses' = [responses EXCEPT ![hostId[i]] = {}]
  /\ Doing("updating", i, FALSE)
  /\ UNCHANGED <<registryVars, callVars, got, cancelled, thread, request, fault>>

(* Mutant: the list is read before the callbacks have filled it.           *)
MutReturned(id, new) == responses[id]

(* What Update returns: the list the callbacks have filled.                *)
Returned(id, new) == responses[id] \cup new

(* Update, the rest: under the lock, qwfsIssueCallbacks has a callback add *)
(* each response of the connection to the list of the connection's id.     *)
IssueCallbacks ==
  /\ Alive /\ main.op = "updating"
  /\ LockFree(main.of)
  /\ LET i   == main.of
         id  == hostId[i]
         new == {r \in Requests : /\ GetConnection(i) # Nobody
                                  /\ request[r].conn = GetConnection(i)
                                  /\ request[r].st = "done"}
     IN  /\ request' = [r \in Requests |->
                          IF r \in new THEN [request[r] EXCEPT !.st = "out"]
                          ELSE request[r]]
         /\ responses' = [responses EXCEPT ![id] = @ \cup new]
         /\ got' = [got EXCEPT ![i] = [r \in Requests |->
                      IF r \in Returned(id, new) THEN @[r] + 1 ELSE @[r]]]
  /\ Rest
  /\ UNCHANGED <<registryVars, callVars, cancelled, thread, fault>>

(* Retry, Abort, Reconnect: the flag is set.                               *)
Post(i, kind) ==
  /\ Idle /\ Listed(i)
  /\ kind \in Calls
  /\ posts < MaxPosts /\ posts' = posts + 1
  /\ flag' = [flag EXCEPT ![i] = @ \cup {kind}]
  /\ owed' = [owed EXCEPT ![i] = @ \cup {kind}]
  /\ asked' = [asked EXCEPT ![i][kind] = @ + 1]
  /\ UNCHANGED <<registryVars, made, answerVars, cancelled, thread, main,
                 request, fault>>

-----------------------------------------------------------------------------
(* The update thread: UpdateQwfs                                           *)

(* IsCancellationRequested; on the way out the token is disposed.          *)
Check(i) ==
  /\ Alive /\ thread[i].at = "check"
  /\ Goes(i, IF cancelled[i] THEN Stopped("ended") ELSE Stopped("flag"))
  /\ UNCHANGED <<registryVars, callVars, answerVars, cancelled, main, request,
                 fault>>

(* Mutant: the flag of Abort is never tested.                              *)
MutAfter(call) ==
  CASE call = "Retry"     -> Point("flag", "Reconnect", Nobody)
    [] call = "Reconnect" -> Point("enter", "Update", Nobody)
    [] OTHER              -> Stopped("check")

(* Where the thread goes after a native call, or a flag that is not set.   *)
After(call) ==
  CASE call = "Retry"     -> Point("flag", "Abort", Nobody)
    [] call = "Abort"     -> Point("flag", "Reconnect", Nobody)
    [] call = "Reconnect" -> Point("enter", "Update", Nobody)
    [] call = "Update"    -> Stopped("check")

(* Mutant: all flags are reset when one is read.                           *)
MutReset(flags, call) == {}

Reset(flags, call) == flags \ {call}

(* Interlocked.Exchange(ref flag, 0)                                       *)
Exchange(i) ==
  /\ Alive /\ thread[i].at = "flag"
  /\ LET call == thread[i].call
     IN  /\ Goes(i, IF call \in flag[i] THEN Point("enter", call, Nobody)
                    ELSE After(call))
         /\ flag' = [flag EXCEPT ![i] = Reset(@, call)]
  /\ UNCHANGED <<registryVars, owed, asked, made, posts, answerVars, cancelled,
                 main, request, fault>>

(* The lock is taken and the wrapper looks the connection up.  The calls   *)
(* that do not test the pointer to the manager dereference it.             *)
Enter(i) ==
  /\ Alive /\ thread[i].at = "enter"
  /\ LET call == thread[i].call
     IN  /\ manager \/ call \notin {"Retry", "Abort"}
         /\ Goes(i, Point("in", call, GetConnection(i)))
         /\ owed' = [owed EXCEPT ![i] = @ \ {call}]
  /\ UNCHANGED <<registryVars, flag, asked, made, posts, answerVars, cancelled,
                 main, request, fault>>

EnterWithoutManager(i) ==
  /\ Alive /\ thread[i].at = "enter"
  /\ ~manager /\ thread[i].call \in {"Retry", "Abort"}
  /\ Crash("manager")

(* A lookup while the main thread changes the map, for another host, may   *)
(* do anything: the model ends.                                            *)
EnterWhileChanging(i) ==
  /\ Alive /\ thread[i].at = "enter"
  /\ Changing
  /\ Crash("map")

Destroying(i) ==
  /\ thread[i].conn # Nobody
  /\ \A id \in Ids : connections[id] # thread[i].conn

(* The connection does its work, and the lock is released.  Update may     *)
(* have brought answers; Abort destroys all requests, or is ignored, as    *)
(* the state of the connection is.                                         *)
Leave(i) ==
  /\ Alive /\ thread[i].at = "in"
  /\ ~Destroying(i)
  /\ LET call == thread[i].call
         c    == thread[i].conn
     IN  /\ Goes(i, After(call))
         /\ \/ call = "Update" /\ c # Nobody
               /\ \E S \in SUBSET {r \in Requests : request[r].conn = c
                                                  /\ request[r].st = "waiting"} :
                    request' = [r \in Requests |->
                       IF r \in S THEN [request[r] EXCEPT !.st = "done"]
                       ELSE request[r]]
            \/ call = "Abort" /\ c # Nobody /\ request' = Dropped(c)
            \/ UNCHANGED request
         /\ made' = IF call = "Update" THEN made
                    ELSE [made EXCEPT ![i][call] = @ + 1]
  /\ UNCHANGED <<registryVars, flag, owed, asked, posts, answerVars, cancelled,
                 main, fault>>

LeaveDestroyed(i) ==
  /\ Alive /\ thread[i].at = "in"
  /\ Destroying(i)
  /\ Crash("connection")

-----------------------------------------------------------------------------
Lost == ~Alive /\ UNCHANGED vars

Library == Initialize \/ Initialized \/ Uninitialize \/ Uninitialized

Continue == Create \/ Created \/ Joined \/ Destroyed \/ IssueCallbacks

Application ==
  \E i \in Instances :
    \/ Destroy(i) \/ DestroyNext(i) \/ Update(i)
    \/ \E new \in SUBSET Requests \ {{}} : PublishRequest(i, new)
    \/ \E kind \in CallKinds : Post(i, kind)

UpdateThread(i) ==
  \/ Check(i) \/ Exchange(i) \/ Enter(i) \/ Leave(i)
  \/ EnterWithoutManager(i) \/ EnterWhileChanging(i) \/ LeaveDestroyed(i)

Next == \/ Library \/ Continue \/ Application
        \/ \E i \in Instances : UpdateThread(i)
        \/ Lost

Spec == Init /\ [][Next]_vars

(* Every thread goes on.  The main thread's Update, waiting for the lock,  *)
(* keeps no update thread from going on, so nothing is assumed of it.      *)
Fairness ==
  /\ \A i \in Instances : WF_vars(UpdateThread(i))
  /\ WF_vars(\/ Initialized \/ Uninitialized \/ Created \/ Joined \/ Destroyed
             \/ \E i \in Instances : DestroyNext(i))

FairSpec == Spec /\ Fairness
=============================================================================
