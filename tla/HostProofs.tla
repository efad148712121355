------------------------------ MODULE HostProofs ------------------------------
(***************************************************************************)
(* Theorems about the C# layer, for any number of hosts, requests, ids and *)
(* calls.                                                                  *)
(***************************************************************************)
EXTENDS HostProperties, TLAPS

(* What the main thread is doing, and what it has seen before it began.    *)
MainInv ==
  /\ main.op \in {"creating", "joining", "destroying", "updating"}
       => main.of \in Instances
  /\ main.op \in {"idle", "initializing", "uninitializing"} => main.of = Nobody
  /\ main.op \in {"idle", "creating", "updating", "initializing"} => ~main.all
  /\ main.op = "creating" => manager /\ nextId < MaxIds /\ hostId[main.of] = NoId
  /\ main.op \in {"joining", "destroying", "updating"} => Listed(main.of)
  /\ main.op \in {"joining", "destroying"} => cancelled[main.of]
  /\ main.op = "destroying" => thread[main.of].at = "ended"
  /\ main.op = "updating" => responses[hostId[main.of]] = {}

(* The thread of a host runs while the host is in the list; a host that is *)
(* cancelled and still in the list is being destroyed, or is one of all.   *)
HostInv(i) ==
  /\ hostId[i] = NoId => thread[i].at = "none" /\ ~cancelled[i]
  /\ Running(i) => Listed(i)
  /\ \A id \in Ids : implList[id] = i => hostId[i] = id
  /\ Listed(i) /\ cancelled[i]
       => (main.op \in {"joining", "destroying"} /\ main.of = i) \/ main.all
  /\ Listed(i) /\ cancelled[i] /\ thread[i].at # "ended"
       => main.op = "joining" /\ main.of = i

ControlInv == TypeOK /\ MainInv /\ \A i \in Instances : HostInv(i)

LEMMA NoIdIsNone == NoId \notin Ids
BY HostAssumption DEF NoId, Ids

LEMMA RequestMoves ==
  ASSUME NEW q \in RequestRecords,
         NEW x \in {"new", "waiting", "done", "out", "dropped"}
  PROVE  [q EXCEPT !.st = x] \in RequestRecords
BY DEF RequestRecords

(* Every step keeps the variables in their ranges.                         *)
LEMMA TypeStep ==
  ASSUME TypeOK, MainInv, \A i \in Instances : HostInv(i), [Next]_vars
  PROVE  TypeOK'
<1> USE DEF TypeOK
<1>p. /\ \A p \in {"none", "check", "flag", "enter", "in", "ended"},
            call \in NativeCalls, c \in Instances \cup {Nobody} :
           Point(p, call, c) \in Threads
      /\ \A i \in Instances : thread[i].call \in NativeCalls
      /\ \A i \in Instances : thread[i].conn \in Instances \cup {Nobody}
      /\ CallKinds \subseteq NativeCalls /\ "Retry" \in CallKinds
      /\ "Update" \in NativeCalls
  BY DEF Point, Threads, NativeCalls, CallKinds
<1>s. \A p \in {"none", "check", "flag", "enter", "in", "ended"} :
        Stopped(p) \in Threads
  BY <1>p DEF Stopped
<1>a. \A call \in NativeCalls : After(call) \in Threads
  BY <1>p, <1>s DEF After, NativeCalls, CallKinds
<1>m. \A op \in {"idle", "creating", "joining", "destroying", "updating",
                 "initializing", "uninitializing"},
         i \in Instances \cup {Nobody}, all \in BOOLEAN :
        [op |-> op, of |-> i, all |-> all] \in Mains
  BY DEF Mains
<1>d. \A c : Dropped(c) \in [Requests -> RequestRecords]
  BY DEF Dropped, RequestRecords
<1>g. \A i \in Instances : GetConnection(i) \in Instances \cup {Nobody} \/ hostId[i] = NoId
  BY DEF GetConnection
<1>c. \A i \in Instances : Listed(i) => hostId[i] \in Ids
  BY DEF Listed
<1> USE DEF registryVars, nativeVars, listVars, callVars, answerVars, Doing, Rest,
            Goes, Alive, Idle
<1>1. CASE Initialize
  <2>1. request' \in [Requests -> RequestRecords] BY <1>1, <1>d DEF Initialize, Dropped
  <2>2. inits' \in 0 .. MaxInits BY <1>1, HostAssumption DEF Initialize
  <2> QED BY <1>1, <1>m, <2>1, <2>2 DEF Initialize
<1>2. CASE Initialized
  <2>1. 0 \in 0 .. MaxIds BY HostAssumption
  <2>2. main' \in Mains BY <1>2, <1>m DEF Initialized
  <2> QED BY <1>2, <2>1, <2>2 DEF Initialized
<1>3. CASE Uninitialize
  BY <1>3, <1>m DEF Uninitialize
<1>4. CASE Uninitialized
  <2>1. request' \in [Requests -> RequestRecords] BY <1>4, <1>d DEF Uninitialized, Dropped
  <2> QED BY <1>4, <1>m, <2>1 DEF Uninitialized
<1>5. CASE Create
  <2>1. (CHOOSE i \in Fresh : TRUE) \in Instances BY <1>5 DEF Create, Fresh
  <2> QED BY <1>5, <1>m, <2>1 DEF Create
<1>6. CASE Created
  <2>1. main.of \in Instances /\ nextId \in Ids /\ nextId + 1 \in 0 .. MaxIds
    BY <1>6, HostAssumption DEF Created, MainInv, Ids
  <2>2. thread' \in [Instances -> Threads] BY <1>6, <1>s DEF Created
  <2> QED BY <1>6, <1>m, <2>1, <2>2 DEF Created, NewId
<1>7. CASE Joined
  <2>1. [main EXCEPT !.op = "destroying"] \in Mains BY DEF Mains
  <2> QED BY <1>7, <2>1 DEF Joined
<1>8. CASE Destroyed
  <2>1. request' \in [Requests -> RequestRecords] BY <1>8, <1>d DEF Destroyed
  <2>2. main' \in Mains BY <1>8, <1>m DEF Destroyed
  <2> QED BY <1>8, <2>1, <2>2 DEF Destroyed
<1>9. CASE IssueCallbacks
  <2> DEFINE new == {r \in Requests : /\ GetConnection(main.of) # Nobody
                                      /\ request[r].conn = GetConnection(main.of)
                                      /\ request[r].st = "done"}
  <2>1. request' \in [Requests -> RequestRecords]
    <3>1. request' = [r \in Requests |-> IF r \in new
                        THEN [request[r] EXCEPT !.st = "out"] ELSE request[r]]
      BY <1>9 DEF IssueCallbacks
    <3>2. \A r \in Requests : [request[r] EXCEPT !.st = "out"] \in RequestRecords
      BY RequestMoves
    <3> QED BY <3>1, <3>2
  <2>2. responses' \in [Ids -> SUBSET Requests]
    BY <1>9 DEF IssueCallbacks
  <2>3. got' \in [Instances -> [Requests -> Nat]]
    <3>1. main.of \in Instances BY <1>9 DEF IssueCallbacks, MainInv
    <3> DEFINE back == Returned(hostId[main.of], new)
               once == [r \in Requests |-> IF r \in back THEN got[main.of][r] + 1
                                           ELSE got[main.of][r]]
    <3>2. got' = [got EXCEPT ![main.of] = once]
      BY <1>9, <3>1 DEF IssueCallbacks
    <3>3. once \in [Requests -> Nat]
      <4> HIDE DEF back
      <4> QED BY <3>1
    <3> HIDE DEF once
    <3> QED BY <3>2, <3>3
  <2> QED BY <1>9, <1>m, <2>1, <2>2, <2>3 DEF IssueCallbacks
<1>10. ASSUME NEW i \in Instances, Destroy(i) PROVE TypeOK'
  BY <1>10, <1>m DEF Destroy, Cancel
<1>11. ASSUME NEW i \in Instances, DestroyNext(i) PROVE TypeOK'
  BY <1>11, <1>m DEF DestroyNext, Cancel
<1>12. ASSUME NEW i \in Instances, Update(i) PROVE TypeOK'
  BY <1>12, <1>m, <1>c DEF Update
<1>13. ASSUME NEW i \in Instances, NEW new \in SUBSET Requests, PublishRequest(i, new)
       PROVE  TypeOK'
  <2>1. GetConnection(i) \in Instances \cup {Nobody}
    BY <1>13, <1>g, <1>c, NoIdIsNone DEF PublishRequest
  <2> HIDE DEF TypeOK
  <2>2. request \in [Requests -> RequestRecords] BY DEF TypeOK
  <2>3. request' \in [Requests -> RequestRecords]
    BY <1>13, <2>1, <2>2 DEF PublishRequest, RequestRecords
  <2> QED BY <1>13, <2>3 DEF PublishRequest, TypeOK
<1>14. ASSUME NEW i \in Instances, NEW kind \in CallKinds, Post(i, kind) PROVE TypeOK'
  <2>1. posts' \in 0 .. MaxPosts BY <1>14, HostAssumption DEF Post
  <2>2. asked' \in [Instances -> [CallKinds -> Nat]] BY <1>14 DEF Post
  <2>3. flag' \in [Instances -> SUBSET CallKinds] /\ owed' \in [Instances -> SUBSET CallKinds]
    BY <1>14 DEF Post
  <2> QED BY <1>14, <2>1, <2>2, <2>3 DEF Post
<1>15. ASSUME NEW i \in Instances, Check(i) PROVE TypeOK'
  <2>1. thread' \in [Instances -> Threads] BY <1>15, <1>s DEF Check
  <2> QED BY <1>15, <2>1 DEF Check
<1>16. ASSUME NEW i \in Instances, Exchange(i) PROVE TypeOK'
  <2>1. thread' \in [Instances -> Threads] BY <1>16, <1>p, <1>a DEF Exchange
  <2>2. flag' \in [Instances -> SUBSET CallKinds] BY <1>16 DEF Exchange, Reset
  <2> QED BY <1>16, <2>1, <2>2 DEF Exchange
<1>17. ASSUME NEW i \in Instances, hostId[i] # NoId, Enter(i) PROVE TypeOK'
  <2>1. Point("in", thread[i].call, GetConnection(i)) \in Threads
    BY <1>17, <1>p, <1>g
  <2>2. thread' \in [Instances -> Threads] BY <1>17, <2>1 DEF Enter
  <2>3. owed' \in [Instances -> SUBSET CallKinds] BY <1>17 DEF Enter
  <2> QED BY <1>17, <2>2, <2>3 DEF Enter
<1>18. ASSUME NEW i \in Instances, Leave(i) PROVE TypeOK'
  <2>1. thread' \in [Instances -> Threads] BY <1>18, <1>p, <1>a DEF Leave
  <2>2. request' \in [Requests -> RequestRecords]
    <3>1. \A r \in Requests : [request[r] EXCEPT !.st = "done"] \in RequestRecords
      BY RequestMoves
    <3> QED BY <1>18, <1>d, <3>1 DEF Leave
  <2>3. made' \in [Instances -> [CallKinds -> Nat]]
    <3>1. CASE thread[i].call = "Update" BY <1>18, <3>1 DEF Leave
    <3>2. CASE thread[i].call # "Update"
      <4>1. thread[i].call \in CallKinds BY <1>p, <3>2 DEF NativeCalls
      <4>2. made' = [made EXCEPT ![i][thread[i].call] = @ + 1]
        BY <1>18, <3>2 DEF Leave
      <4> QED BY <4>1, <4>2
    <3> QED BY <3>1, <3>2
  <2> QED BY <1>18, <2>1, <2>2, <2>3 DEF Leave
<1>19. ASSUME NEW i \in Instances,
              EnterWithoutManager(i) \/ EnterWhileChanging(i) \/ LeaveDestroyed(i)
       PROVE  TypeOK'
  BY <1>19 DEF EnterWithoutManager, EnterWhileChanging, LeaveDestroyed, Crash
<1>20. CASE Lost \/ UNCHANGED vars
  BY <1>20 DEF Lost, vars
<1> HIDE DEF TypeOK
<1>21. \A i \in Instances : Enter(i) => hostId[i] # NoId
  BY NoIdIsNone DEF Enter, HostInv, Running
<1> QED
  BY <1>1, <1>2, <1>3, <1>4, <1>5, <1>6, <1>7, <1>8, <1>9, <1>10, <1>11, <1>12,
     <1>13, <1>14, <1>15, <1>16, <1>17, <1>18, <1>19, <1>20, <1>21
  DEF Next, Library, Continue, Application, UpdateThread

-----------------------------------------------------------------------------
(* The control of the main thread and of the update threads                *)

controlVars == <<manager, nextId, hostId, implList, responses, cancelled,
                 thread, main>>

LEMMA ControlStays ==
  ASSUME ControlInv, UNCHANGED controlVars
  PROVE  MainInv' /\ \A i \in Instances : HostInv(i)'
BY DEF ControlInv, controlVars, MainInv, HostInv, Listed, Running

(* An update thread that runs goes on, or ends.                            *)
LEMMA ThreadMoves ==
  ASSUME ControlInv, NEW i \in Instances, Running(i), NEW p \in Threads,
         p.at # "none", Goes(i, p),
         UNCHANGED <<manager, nextId, hostId, implList, responses, cancelled, main>>
  PROVE  MainInv' /\ \A j \in Instances : HostInv(j)'
<1>1. /\ \A j \in Instances : j # i => thread'[j] = thread[j]
      /\ thread'[i] = p
      /\ thread[i].at \notin {"none", "ended"}
  BY DEF ControlInv, TypeOK, Goes, Running
<1>2. MainInv'
  BY <1>1 DEF ControlInv, MainInv, Listed
<1>3. ASSUME NEW j \in Instances PROVE HostInv(j)'
  <2>1. CASE j = i
    BY <1>1, <2>1 DEF ControlInv, HostInv, Listed, Running
  <2>2. CASE j # i
    BY <1>1, <2>2 DEF ControlInv, HostInv, Listed, Running
  <2> QED BY <2>1, <2>2
<1> QED BY <1>2, <1>3

(* What the main thread does to the list, to the tokens and to itself.     *)
LEMMA MainMoves ==
  ASSUME ControlInv, Next,
         NEW i \in Instances,
         \/ Initialize \/ Initialized \/ Uninitialize \/ Create \/ Joined
         \/ IssueCallbacks \/ Destroy(i) \/ DestroyNext(i) \/ Update(i)
  PROVE  MainInv' /\ \A j \in Instances : HostInv(j)'
<1> USE DEF ControlInv, registryVars, nativeVars, listVars, Doing, Rest, Alive, Idle
<1>t. /\ main = [op |-> main.op, of |-> main.of, all |-> main.all]
      /\ implList \in [Ids -> Instances \cup {Nobody}]
      /\ hostId \in [Instances -> Ids \cup {NoId}]
      /\ responses \in [Ids -> SUBSET Requests]
      /\ cancelled \in [Instances -> BOOLEAN]
  BY DEF TypeOK, Mains
<1>1. CASE Initialize \/ Initialized \/ Uninitialize
  BY <1>1, <1>t DEF Initialize, Initialized, Uninitialize, MainInv, HostInv,
                    Listed, Running
<1>2. CASE Create
  <2>1. (CHOOSE k \in Fresh : TRUE) \in Fresh BY <1>2 DEF Create
  <2> DEFINE new == CHOOSE k \in Fresh : TRUE
  <2>2. new \in Instances /\ hostId[new] = NoId BY <2>1 DEF Fresh
  <2>3. /\ main.op = "idle" /\ manager /\ nextId < MaxIds
        /\ main' = [op |-> "creating", of |-> new, all |-> FALSE]
        /\ UNCHANGED <<manager, nextId, hostId, implList, responses, cancelled, thread>>
    BY <1>2 DEF Create, answerVars
  <2> HIDE DEF new
  <2> QED BY <2>2, <2>3 DEF MainInv, HostInv, Listed, Running
<1>3. CASE Joined
  BY <1>3, <1>t DEF Joined, HasEnded, answerVars, MainInv, HostInv, Listed, Running
<1>4. CASE IssueCallbacks
  <2>1. /\ main.op = "updating"
        /\ main' = [op |-> "idle", of |-> Nobody, all |-> FALSE]
        /\ UNCHANGED <<manager, nextId, hostId, implList, cancelled, thread>>
    BY <1>4 DEF IssueCallbacks
  <2> QED BY <2>1 DEF MainInv, HostInv, Listed, Running
<1>5. CASE Destroy(i) \/ DestroyNext(i)
  <2>1. /\ main.op \in {"idle", "uninitializing"} /\ Listed(i)
        /\ main' = [op |-> "joining", of |-> i, all |-> main.op = "uninitializing"]
        /\ cancelled' = [cancelled EXCEPT ![i] = TRUE]
        /\ UNCHANGED <<manager, nextId, hostId, implList, responses, thread>>
    BY <1>5 DEF Destroy, DestroyNext, Cancel, ToDestroy, answerVars
  <2>2. hostId[i] # NoId BY <2>1, NoIdIsNone DEF Listed
  <2>3. MainInv' BY <2>1, <1>t DEF MainInv, Listed
  <2>4. ASSUME NEW j \in Instances PROVE HostInv(j)'
    BY <2>1, <2>2, <1>t DEF MainInv, HostInv, Listed, Running
  <2> QED BY <2>3, <2>4
<1>6. CASE Update(i)
  <2>1. /\ main.op = "idle" /\ Listed(i)
        /\ main' = [op |-> "updating", of |-> i, all |-> FALSE]
        /\ responses' = [responses EXCEPT ![hostId[i]] = {}]
        /\ UNCHANGED <<manager, nextId, hostId, implList, cancelled, thread>>
    BY <1>6 DEF Update
  <2>2. hostId[i] \in Ids BY <2>1 DEF Listed
  <2> QED BY <2>1, <2>2, <1>t DEF MainInv, HostInv, Listed, Running
<1> QED BY <1>1, <1>2, <1>3, <1>4, <1>5, <1>6

LEMMA CreatedKeeps ==
  ASSUME ControlInv, Created
  PROVE  MainInv' /\ \A j \in Instances : HostInv(j)'
<1> USE DEF ControlInv, Rest, Doing
<1> DEFINE i == main.of
<1>1. /\ main.op = "creating" /\ i \in Instances /\ hostId[i] = NoId
      /\ nextId \in Ids
  BY HostAssumption DEF Created, MainInv, TypeOK, Ids
<1>2. /\ main' = [op |-> "idle", of |-> Nobody, all |-> FALSE]
      /\ hostId' = [hostId EXCEPT ![i] = nextId]
      /\ UNCHANGED cancelled
  BY DEF Created, NewId
<1>3. /\ hostId'[i] = nextId
      /\ \A j \in Instances : j # i => hostId'[j] = hostId[j]
  BY <1>1, <1>2 DEF TypeOK
<1>4. thread[i].at = "none" /\ ~cancelled[i] /\ \A id \in Ids : implList[id] # i
  BY <1>1, NoIdIsNone DEF HostInv
<1>5. \/ /\ implList[nextId] = Nobody
         /\ implList' = [implList EXCEPT ![nextId] = i]
         /\ thread' = [thread EXCEPT ![i] = Stopped("check")]
      \/ UNCHANGED <<implList, thread>>
  BY DEF Created, MayAdd, Goes
<1>6. MainInv' BY <1>2 DEF MainInv
<1>7. ASSUME NEW j \in Instances PROVE HostInv(j)'
  <2>n. nextId # NoId BY <1>1, NoIdIsNone
  <2>1. CASE j = i
    <3>1. CASE UNCHANGED <<implList, thread>>
      BY <1>1, <1>2, <1>3, <1>4, <2>1, <3>1, <2>n DEF HostInv, Listed, Running
    <3>2. CASE /\ implList' = [implList EXCEPT ![nextId] = i]
               /\ thread' = [thread EXCEPT ![i] = Stopped("check")]
      <4>1. implList'[nextId] = i /\ \A id \in Ids : id # nextId => implList'[id] # i
        BY <1>1, <1>4, <3>2 DEF TypeOK
      <4> QED BY <1>1, <1>2, <1>3, <1>4, <2>1, <4>1, <2>n DEF HostInv, Listed, Running
    <3> QED BY <1>5, <3>1, <3>2
  <2>2. CASE j # i
    <3>1. thread'[j] = thread[j] BY <1>5, <2>2 DEF TypeOK
    <3>2. \A id \in Ids : implList'[id] = j <=> implList[id] = j
      BY <1>1, <1>5, <2>2, HostAssumption DEF TypeOK
    <3>3. Listed(j)' <=> Listed(j) BY <1>3, <2>2, <3>2 DEF Listed
    <3>4. ~main.all /\ main.of # j /\ main.op = "creating" BY <1>1, <2>2 DEF MainInv
    <3> QED BY <1>2, <1>3, <2>2, <3>1, <3>2, <3>3, <3>4 DEF HostInv, Running
  <2> QED BY <2>1, <2>2
<1> QED BY <1>6, <1>7

LEMMA DestroyedKeeps ==
  ASSUME ControlInv, Destroyed
  PROVE  MainInv' /\ \A j \in Instances : HostInv(j)'
<1> USE DEF ControlInv, Rest, Doing
<1> DEFINE i == main.of
<1>1. /\ main.op = "destroying" /\ i \in Instances /\ thread[i].at = "ended"
      /\ hostId[i] \in Ids /\ implList[hostId[i]] = i
  BY DEF Destroyed, MainInv, Listed
<1>2. /\ UNCHANGED <<hostId, cancelled, thread>>
      /\ \/ main.all /\ UNCHANGED implList
            /\ main' = [op |-> "uninitializing", of |-> Nobody, all |-> TRUE]
         \/ ~main.all /\ implList' = [implList EXCEPT ![hostId[i]] = Nobody]
            /\ main' = [op |-> "idle", of |-> Nobody, all |-> FALSE]
  BY DEF Destroyed
<1>3. MainInv' BY <1>2 DEF MainInv
<1>4. ASSUME NEW j \in Instances PROVE HostInv(j)'
  <2>1. CASE main.all
    BY <1>1, <1>2, <2>1 DEF HostInv, Listed, Running
  <2>2. CASE ~main.all
    <3>1. \A id \in Ids : implList'[id] = j <=> implList[id] = j /\ id # hostId[i]
      BY <1>1, <1>2, <2>2, HostAssumption DEF TypeOK
    <3>2. Listed(j)' <=> Listed(j) /\ j # i
      BY <1>1, <1>2, <3>1 DEF Listed, HostInv
    <3> QED BY <1>1, <1>2, <2>2, <3>1, <3>2 DEF HostInv, Running
  <2> QED BY <2>1, <2>2
<1> QED BY <1>3, <1>4

LEMMA UninitializedKeeps ==
  ASSUME ControlInv, Uninitialized
  PROVE  MainInv' /\ \A j \in Instances : HostInv(j)'
<1> USE DEF ControlInv, Rest, Doing
<1>1. /\ main.op = "uninitializing" /\ ToDestroy = {}
      /\ main' = [op |-> "idle", of |-> Nobody, all |-> FALSE]
      /\ \A id \in Ids : implList'[id] = Nobody
      /\ UNCHANGED <<hostId, cancelled, thread>>
  BY DEF Uninitialized
<1>2. \A j \in Instances : ~Listed(j)'
  BY <1>1, HostAssumption DEF Listed
<1>3. \A j \in Instances : ~Running(j)
  BY <1>1 DEF HostInv, ToDestroy, Running
<1> QED BY <1>1, <1>2, <1>3, HostAssumption DEF MainInv, HostInv, Running

LEMMA ControlStep ==
  ASSUME ControlInv, [Next]_vars
  PROVE  ControlInv'
<1> USE DEF registryVars, nativeVars, listVars, answerVars
<1>1. TypeOK' BY TypeStep DEF ControlInv
<1>2. MainInv' /\ \A j \in Instances : HostInv(j)'
  <2>1. CASE Created BY <2>1, CreatedKeeps
  <2>2. CASE Destroyed BY <2>2, DestroyedKeeps
  <2>3. CASE Uninitialized BY <2>3, UninitializedKeeps
  <2>4. CASE Initialize \/ Initialized \/ Uninitialize \/ Create \/ Joined \/ IssueCallbacks
    <3>1. CASE Instances = {}
      BY <2>4, <3>1, HostAssumption DEF ControlInv, MainInv, Create, Fresh, Joined, IssueCallbacks,
         Initialize, Initialized, Uninitialize, Doing, Rest
    <3>2. CASE Instances # {}
      <4>1. PICK i \in Instances : TRUE BY <3>2
      <4>2. Next BY <2>4 DEF Next, Library, Continue
      <4> QED BY <2>4, <4>1, <4>2, MainMoves
    <3> QED BY <3>1, <3>2
  <2>5. ASSUME NEW i \in Instances, Destroy(i) \/ DestroyNext(i) \/ Update(i)
        PROVE  MainInv' /\ \A j \in Instances : HostInv(j)'
    <3>1. Next BY <2>5 DEF Next, Application
    <3> QED BY <2>5, <3>1, MainMoves
  <2>6. ASSUME NEW i \in Instances, Check(i) \/ Exchange(i) \/ Enter(i) \/ Leave(i)
        PROVE  MainInv' /\ \A j \in Instances : HostInv(j)'
    <3>1. Running(i) BY <2>6 DEF Check, Exchange, Enter, Leave, Running
    <3>2. UNCHANGED <<manager, nextId, hostId, implList, responses, cancelled, main>>
      BY <2>6 DEF Check, Exchange, Enter, Leave
    <3>3. \E p : p.at # "none" /\ Goes(i, p)
      <4>1. thread[i].call \in NativeCalls BY DEF ControlInv, TypeOK, Threads
      <4>2. After(thread[i].call).at # "none"
        BY <4>1 DEF After, NativeCalls, CallKinds, Stopped, Point
      <4>3. CASE Check(i) BY <4>3 DEF Check, Stopped, Point
      <4>4. CASE Exchange(i) BY <4>2, <4>4 DEF Exchange, Point
      <4>5. CASE Enter(i) BY <4>5 DEF Enter, Point
      <4>6. CASE Leave(i) BY <4>2, <4>6 DEF Leave
      <4> QED BY <2>6, <4>3, <4>4, <4>5, <4>6
    <3>4. PICK p : p.at # "none" /\ Goes(i, p) BY <3>3
    <3>5. p \in Threads
      <4>1. thread'[i] = p BY <3>4 DEF ControlInv, TypeOK, Goes
      <4> QED BY <1>1, <4>1 DEF TypeOK
    <3> QED BY <3>1, <3>2, <3>4, <3>5, ThreadMoves
  <2>7. ASSUME NEW i \in Instances,
               \/ \E new \in SUBSET Requests : PublishRequest(i, new)
               \/ \E kind \in CallKinds : Post(i, kind)
               \/ EnterWithoutManager(i) \/ EnterWhileChanging(i) \/ LeaveDestroyed(i)
        PROVE  UNCHANGED controlVars
    BY <2>7 DEF PublishRequest, Post, EnterWithoutManager, EnterWhileChanging,
       LeaveDestroyed, Crash, controlVars
  <2>8. CASE Lost \/ UNCHANGED vars
    <3>1. UNCHANGED controlVars BY <2>8 DEF Lost, vars, controlVars
    <3> QED BY <3>1, ControlStays
  <2> QED
    BY <2>1, <2>2, <2>3, <2>4, <2>5, <2>6, <2>7, <2>8, ControlStays
    DEF Next, Library, Continue, Application, UpdateThread
<1> QED BY <1>1, <1>2 DEF ControlInv

LEMMA ControlInit == Init => ControlInv
<1> SUFFICES ASSUME Init PROVE ControlInv
  OBVIOUS
<1>1. TypeOK
  <2>1. \A i \in Instances : thread[i] = [at |-> "none", call |-> "Retry", conn |-> Nobody]
    BY DEF Init, Stopped, Point
  <2>2. thread \in [Instances -> Threads]
    BY DEF Init, Stopped, Point, Threads, NativeCalls, CallKinds
  <2>3. main \in Mains BY DEF Init, Mains
  <2>4. request \in [Requests -> RequestRecords] BY DEF Init, RequestRecords
  <2>5. /\ asked \in [Instances -> [CallKinds -> Nat]]
        /\ made \in [Instances -> [CallKinds -> Nat]]
        /\ got \in [Instances -> [Requests -> Nat]]
    BY DEF Init
  <2>6. nextId \in 0 .. MaxIds /\ posts \in 0 .. MaxPosts /\ inits \in 0 .. MaxInits
    BY HostAssumption DEF Init
  <2> QED BY <2>2, <2>3, <2>4, <2>5, <2>6 DEF Init, TypeOK
<1>2. MainInv BY DEF Init, MainInv
<1>3. ASSUME NEW i \in Instances PROVE HostInv(i)
  BY HostAssumption, NoIdIsNone DEF Init, HostInv, Listed, Running, Stopped, Point
<1> QED BY <1>1, <1>2, <1>3 DEF ControlInv

LEMMA ControlHolds == Spec => []ControlInv
BY ControlInit, ControlStep, PTL DEF Spec

(* The variables stay in their ranges.                                     *)
THEOREM HostTypeCorrect == Spec => []TypeOK
<1>1. ControlInv => TypeOK BY DEF ControlInv
<1> QED BY <1>1, ControlHolds, PTL

(* Each id is driven by one update thread at most: the list has one        *)
(* instance for each id, and an update thread runs for listed ones only.   *)
THEOREM OneThread == Spec => []OneThreadPerId
<1>1. ControlInv => OneThreadPerId
  BY DEF ControlInv, HostInv, OneThreadPerId, Listed
<1> QED BY <1>1, ControlHolds, PTL

-----------------------------------------------------------------------------
(* The flags                                                               *)

(* A call made was asked for: it has a request of its own in asked.        *)
Flagged(i, k) == IF k \in flag[i] THEN 1 ELSE 0
Calling(i, k) ==
  IF thread[i].at \in {"enter", "in"} /\ thread[i].call = k THEN 1 ELSE 0
CountInv ==
  \A i \in Instances : \A k \in CallKinds :
    made[i][k] + Flagged(i, k) + Calling(i, k) <= asked[i][k]

FlagInv == NoCallLost /\ CountInv

flagVars == <<flag, owed, asked, made, thread>>

LEMMA FlagStays ==
  ASSUME FlagInv, UNCHANGED flagVars
  PROVE  FlagInv'
BY DEF FlagInv, NoCallLost, CountInv, Flagged, Calling, flagVars

(* The thread of i moves, and the flags of other instances are not touched.*)
LEMMA FlagMoves ==
  ASSUME ControlInv, FlagInv, NEW i \in Instances, NEW p, Goes(i, p),
         UNCHANGED <<asked, made>>,
         \A j \in Instances : j # i => flag'[j] = flag[j] /\ owed'[j] = owed[j],
         \A k \in owed'[i] : k \in flag'[i] \/ (p.at = "enter" /\ p.call = k),
         \A k \in CallKinds :
           Flagged(i, k)' + Calling(i, k)' <= Flagged(i, k) + Calling(i, k)
  PROVE  FlagInv'
<1>1. /\ thread'[i] = p
      /\ \A j \in Instances : j # i => thread'[j] = thread[j]
  BY DEF ControlInv, TypeOK, Goes
<1>2. NoCallLost' BY <1>1 DEF FlagInv, NoCallLost
<1>3. ASSUME NEW j \in Instances, NEW k \in CallKinds
      PROVE  (made[j][k] + Flagged(j, k) + Calling(j, k) <= asked[j][k])'
  <2>1. /\ made[j][k] \in Nat /\ asked[j][k] \in Nat
        /\ Calling(j, k) \in {0, 1} /\ Calling(j, k)' \in {0, 1}
        /\ Flagged(j, k) \in {0, 1} /\ Flagged(j, k)' \in {0, 1}
        /\ made[j][k] + Flagged(j, k) + Calling(j, k) <= asked[j][k]
    BY DEF ControlInv, TypeOK, FlagInv, CountInv, Calling, Flagged
  <2>2. CASE j # i
    <3>1. Flagged(j, k)' = Flagged(j, k) /\ Calling(j, k)' = Calling(j, k)
      BY <1>1, <2>2 DEF Flagged, Calling
    <3> QED BY <2>1, <3>1
  <2>3. CASE j = i BY <2>1, <2>3
  <2> QED BY <2>2, <2>3
<1>4. CountInv' BY <1>3 DEF CountInv
<1> QED BY <1>2, <1>4 DEF FlagInv

LEMMA FlagStep ==
  ASSUME ControlInv, FlagInv, [Next]_vars
  PROVE  FlagInv'
<1> USE DEF callVars
<1>0. /\ TypeOK /\ TypeOK' /\ MainInv /\ \A i \in Instances : HostInv(i)
  BY TypeStep DEF ControlInv
<1>1. CASE \/ Initialize \/ Initialized \/ Uninitialize \/ Uninitialized
           \/ Create \/ Joined \/ Destroyed \/ IssueCallbacks
           \/ \E i \in Instances :
                \/ Destroy(i) \/ DestroyNext(i) \/ Update(i)
                \/ \E new \in SUBSET Requests : PublishRequest(i, new)
                \/ EnterWithoutManager(i) \/ EnterWhileChanging(i) \/ LeaveDestroyed(i)
           \/ Lost \/ UNCHANGED vars
  <2>1. UNCHANGED flagVars
    BY <1>1 DEF Initialize, Initialized, Uninitialize, Uninitialized, Create,
       Joined, Destroyed, IssueCallbacks, Destroy, DestroyNext, Update,
       PublishRequest, EnterWithoutManager, EnterWhileChanging, LeaveDestroyed,
       Crash, Lost, vars, flagVars
  <2> QED BY <2>1, FlagStays
<1>2. CASE Created
  <2>1. PICK i \in Instances : i = main.of /\ thread[i].at = "none"
    BY <1>0, <1>2 DEF Created, MainInv, HostInv
  <2>2. UNCHANGED callVars BY <1>2 DEF Created
  <2>3. CASE UNCHANGED thread
    BY <2>2, <2>3, FlagStays DEF flagVars
  <2>4. CASE Goes(i, Stopped("check"))
    <3>1. thread'[i].at = "check" BY <1>0, <2>4 DEF TypeOK, Goes, Stopped, Point
    <3>2. \A k \in CallKinds : Calling(i, k) = 0 /\ Calling(i, k)' = 0
      BY <2>1, <3>1 DEF Calling
    <3>3. \A k \in CallKinds : Flagged(i, k)' = Flagged(i, k)
      BY <2>2 DEF Flagged
    <3>4. \A k \in CallKinds : Flagged(i, k) \in {0, 1} BY DEF Flagged
    <3>5. \A k \in owed[i] : k \in flag[i]
      BY <2>1 DEF FlagInv, NoCallLost
    <3> QED BY <2>2, <2>4, <3>2, <3>3, <3>4, <3>5, FlagMoves
  <2> QED BY <1>2, <2>1, <2>3, <2>4 DEF Created
<1>3. ASSUME NEW i \in Instances, NEW kind \in CallKinds, Post(i, kind)
      PROVE  FlagInv'
  <2>1. /\ flag' = [flag EXCEPT ![i] = @ \cup {kind}]
        /\ owed' = [owed EXCEPT ![i] = @ \cup {kind}]
        /\ asked' = [asked EXCEPT ![i][kind] = @ + 1]
        /\ UNCHANGED <<made, thread>>
    BY <1>3 DEF Post
  <2>2. NoCallLost' BY <1>0, <2>1 DEF TypeOK, FlagInv, NoCallLost
  <2>3. ASSUME NEW j \in Instances, NEW k \in CallKinds
        PROVE  (made[j][k] + Flagged(j, k) + Calling(j, k) <= asked[j][k])'
    <3>1. /\ made[j][k] \in Nat /\ asked[j][k] \in Nat
          /\ Calling(j, k) \in {0, 1} /\ Calling(j, k)' = Calling(j, k)
          /\ Flagged(j, k) \in {0, 1} /\ Flagged(j, k)' \in {0, 1}
          /\ made[j][k] + Flagged(j, k) + Calling(j, k) <= asked[j][k]
      BY <1>0, <2>1 DEF TypeOK, FlagInv, CountInv, Calling, Flagged
    <3>2. CASE j = i /\ k = kind
      <4>1. asked'[j][k] = asked[j][k] + 1 BY <1>0, <2>1, <3>2 DEF TypeOK
      <4> QED BY <2>1, <3>1, <4>1
    <3>3. CASE ~(j = i /\ k = kind)
      <4>1. asked'[j][k] = asked[j][k] BY <1>0, <2>1, <3>3 DEF TypeOK
      <4>2. k \in flag'[j] <=> k \in flag[j] BY <1>0, <2>1, <3>3 DEF TypeOK
      <4> QED BY <2>1, <3>1, <4>1, <4>2 DEF Flagged
    <3> QED BY <3>2, <3>3
  <2> QED BY <2>2, <2>3 DEF FlagInv, CountInv
<1>4. ASSUME NEW i \in Instances, NEW p, Goes(i, p) PROVE p \in Threads /\ thread'[i] = p
  BY <1>0, <1>4 DEF TypeOK, Goes
<1>5. ASSUME NEW i \in Instances
      PROVE  /\ thread[i].call \in NativeCalls
             /\ \A k \in CallKinds : Flagged(i, k) \in {0, 1} /\ Calling(i, k) \in {0, 1}
  BY <1>0 DEF TypeOK, Threads, Flagged, Calling
<1>6. ASSUME NEW i \in Instances, Check(i) PROVE FlagInv'
  <2> DEFINE p == IF cancelled[i] THEN Stopped("ended") ELSE Stopped("flag")
  <2>1. Goes(i, p) /\ UNCHANGED callVars /\ thread[i].at = "check"
    BY <1>6 DEF Check
  <2>2. p.at \in {"ended", "flag"} BY DEF Stopped, Point
  <2> HIDE DEF p
  <2>3. \A k \in CallKinds : Flagged(i, k)' = Flagged(i, k) /\ Calling(i, k)' = 0 /\ Calling(i, k) = 0
    BY <1>4, <2>1, <2>2 DEF Flagged, Calling
  <2>4. \A k \in owed[i] : k \in flag[i] BY <2>1 DEF FlagInv, NoCallLost
  <2> QED BY <1>5, <2>1, <2>3, <2>4, FlagMoves
<1>7. ASSUME NEW i \in Instances, Exchange(i) PROVE FlagInv'
  <2> DEFINE call == thread[i].call
             p == IF call \in flag[i] THEN Point("enter", call, Nobody) ELSE After(call)
             flags == flag[i] \ {call}
  <2>1. /\ Goes(i, p) /\ UNCHANGED <<owed, asked, made>> /\ thread[i].at = "flag"
        /\ flag' = [flag EXCEPT ![i] = flags]
    BY <1>7 DEF Exchange, Reset
  <2>2. call \in NativeCalls BY <1>5
  <2>3. \/ call \in flag[i] /\ p.at = "enter" /\ p.call = call
        \/ call \notin flag[i] /\ (p.at \in {"enter", "in"} => p.call = "Update")
    <3>1. After(call).at \in {"enter", "in"} => After(call).call = "Update"
      BY <2>2 DEF After, NativeCalls, CallKinds, Point, Stopped
    <3> QED BY <3>1 DEF Point
  <2>4. /\ flag'[i] = flags
        /\ \A j \in Instances : j # i => flag'[j] = flag[j]
    BY <1>0, <2>1 DEF TypeOK
  <2>5. thread'[i] = p /\ p \in Threads BY <1>4, <2>1
  <2>6. \A k \in owed[i] : k \in flag[i] BY <2>1 DEF FlagInv, NoCallLost
  <2>7. "Update" \notin CallKinds BY DEF CallKinds
  <2> HIDE DEF p
  <2>8. \A k \in CallKinds :
          Flagged(i, k)' + Calling(i, k)' <= Flagged(i, k) + Calling(i, k)
    BY <2>1, <2>3, <2>4, <2>5, <2>7 DEF Flagged, Calling
  <2>9. \A k \in owed'[i] : k \in flag'[i] \/ (p.at = "enter" /\ p.call = k)
    BY <2>1, <2>3, <2>4, <2>6
  <2> QED BY <2>1, <2>4, <2>8, <2>9, FlagMoves
<1>8. ASSUME NEW i \in Instances, Enter(i) PROVE FlagInv'
  <2> DEFINE call == thread[i].call
             p == Point("in", call, GetConnection(i))
             owes == owed[i] \ {call}
  <2>1. /\ Goes(i, p) /\ UNCHANGED <<flag, asked, made>> /\ thread[i].at = "enter"
        /\ owed' = [owed EXCEPT ![i] = owes]
    BY <1>8 DEF Enter
  <2>2. p.at = "in" /\ p.call = call BY DEF Point
  <2>3. thread'[i] = p /\ p \in Threads BY <1>4, <2>1
  <2> HIDE DEF p
  <2>4. \A k \in CallKinds : Flagged(i, k)' = Flagged(i, k) /\ Calling(i, k)' = Calling(i, k)
    BY <2>1, <2>2, <2>3 DEF Flagged, Calling
  <2>5. /\ owed'[i] = owes
        /\ \A j \in Instances : j # i => owed'[j] = owed[j]
    BY <1>0, <2>1 DEF TypeOK
  <2>6. \A k \in owes : k \in flag[i] BY <2>1 DEF FlagInv, NoCallLost
  <2> QED BY <1>5, <2>1, <2>4, <2>5, <2>6, FlagMoves
<1>9. ASSUME NEW i \in Instances, Leave(i) PROVE FlagInv'
  <2> DEFINE call == thread[i].call
             p == After(call)
  <2>1. /\ Goes(i, p) /\ UNCHANGED <<flag, owed, asked>> /\ thread[i].at = "in"
        /\ made' = IF call = "Update" THEN made ELSE [made EXCEPT ![i][call] = @ + 1]
    BY <1>9 DEF Leave
  <2>2. call \in NativeCalls BY <1>5
  <2>3. p.at \in {"enter", "in"} => p.call = "Update"
    BY <2>2 DEF After, NativeCalls, CallKinds, Point, Stopped
  <2>4. thread'[i] = p BY <1>4, <2>1
  <2>5. "Update" \notin CallKinds BY DEF CallKinds
  <2> HIDE DEF p
  <2>6. NoCallLost'
    <3>1. \A j \in Instances : j # i => thread'[j] = thread[j]
      BY <1>0, <2>1 DEF TypeOK, Goes
    <3> QED BY <2>1, <2>4, <3>1 DEF FlagInv, NoCallLost
  <2>7. ASSUME NEW j \in Instances, NEW k \in CallKinds
        PROVE  (made[j][k] + Flagged(j, k) + Calling(j, k) <= asked[j][k])'
    <3>1. /\ made[j][k] \in Nat /\ asked[j][k] \in Nat
          /\ Calling(j, k) \in {0, 1} /\ Flagged(j, k) \in {0, 1}
          /\ Flagged(j, k)' = Flagged(j, k)
          /\ made[j][k] + Flagged(j, k) + Calling(j, k) <= asked[j][k]
      BY <1>0, <2>1 DEF TypeOK, FlagInv, CountInv, Calling, Flagged
    <3>2. CASE j = i /\ k = call
      <4>1. made'[j][k] = made[j][k] + 1 BY <1>0, <2>1, <2>5, <3>2 DEF TypeOK
      <4>2. Calling(j, k) = 1 /\ Calling(j, k)' = 0
        BY <2>1, <2>3, <2>4, <2>5, <3>2 DEF Calling
      <4> QED BY <2>1, <3>1, <4>1, <4>2
    <3>3. CASE j = i /\ k # call
      <4>1. made'[j][k] = made[j][k] BY <1>0, <2>1, <2>2, <3>3 DEF TypeOK, NativeCalls
      <4>2. Calling(j, k)' = 0 BY <2>3, <2>4, <2>5, <3>3 DEF Calling
      <4> QED BY <2>1, <3>1, <4>1, <4>2
    <3>4. CASE j # i
      <4>1. made'[j][k] = made[j][k] BY <1>0, <2>1, <2>2, <3>4 DEF TypeOK, NativeCalls
      <4>2. thread'[j] = thread[j] BY <1>0, <2>1, <3>4 DEF TypeOK, Goes
      <4> QED BY <2>1, <3>1, <4>1, <4>2 DEF Calling
    <3> QED BY <3>2, <3>3, <3>4
  <2> QED BY <2>6, <2>7 DEF FlagInv, CountInv
<1> QED
  BY <1>1, <1>2, <1>3, <1>6, <1>7, <1>8, <1>9
  DEF Next, Library, Continue, Application, UpdateThread

LEMMA FlagInit == Init => FlagInv
BY DEF Init, FlagInv, NoCallLost, CountInv, Flagged, Calling, Stopped, Point

(* No call is lost between the flags and the update thread.                *)
THEOREM CallsKept == Spec => []NoCallLost
<1>1. Init => FlagInv BY FlagInit
<1>2. ControlInv /\ FlagInv /\ [Next]_vars => FlagInv' BY FlagStep
<1>3. FlagInv => NoCallLost BY DEF FlagInv
<1> QED BY <1>1, <1>2, <1>3, ControlHolds, PTL DEF Spec

-----------------------------------------------------------------------------
(* The registry of connections                                             *)

(* While the library is not initialized over hosts in the list, a listed   *)
(* host that is not destroyed natively has its connection in the map, and  *)
(* the update thread works in that one.                                    *)
Kept(i) == Listed(i) /\ (~cancelled[i] \/ main.of = i)

RegistryInv ==
  /\ fault \notin {"connection", "manager"}
  /\ main.op = "initializing" => \A i \in Instances : ~Listed(i)
  /\ \A i \in Instances :
       /\ Listed(i) => hostId[i] < nextId
       /\ Kept(i) => manager /\ connections[hostId[i]] = i
       /\ thread[i].at = "in" => thread[i].conn = i

SafeInv == orphaned \/ RegistryInv

(* An update thread runs for a host that is kept.                          *)
LEMMA RunningIsKept ==
  ASSUME ControlInv, NEW i \in Instances, Running(i)
  PROVE  Kept(i)
BY DEF ControlInv, HostInv, Running, Kept

(* While the main thread is between two calls, a listed host is not        *)
(* cancelled.                                                              *)
LEMMA IdleNotCancelled ==
  ASSUME ControlInv, main.op = "idle", NEW i \in Instances, Listed(i)
  PROVE  ~cancelled[i]
BY HostAssumption DEF ControlInv, MainInv, HostInv

registryPart == <<manager, nextId, connections, hostId, implList, cancelled,
                  main, orphaned>>

LEMMA RegistryStays ==
  ASSUME RegistryInv, UNCHANGED registryPart, UNCHANGED <<thread, fault>>
  PROVE  RegistryInv'
BY DEF RegistryInv, Kept, Listed, registryPart

(* The thread of i moves.                                                  *)
LEMMA RegistryMoves ==
  ASSUME ControlInv, RegistryInv, NEW i \in Instances, NEW p, Goes(i, p),
         p.at = "in" => p.conn = i,
         UNCHANGED registryPart, UNCHANGED fault
  PROVE  RegistryInv'
<1>1. /\ thread'[i] = p
      /\ \A j \in Instances : j # i => thread'[j] = thread[j]
  BY DEF ControlInv, TypeOK, Goes
<1> QED BY <1>1 DEF RegistryInv, Kept, Listed, registryPart

LEMMA OrphanedStays ==
  ASSUME TypeOK, [Next]_vars, orphaned
  PROVE  orphaned'
BY DEF TypeOK, Next, Library, Continue, Application, UpdateThread, Initialize,
   Initialized, Uninitialize, Uninitialized, Create, Created, Joined, Destroyed,
   IssueCallbacks, Destroy, DestroyNext, Update, PublishRequest, Post, Check,
   Exchange, Enter, Leave, EnterWithoutManager, EnterWhileChanging,
   LeaveDestroyed, Crash, Lost, vars, registryVars, listVars

LEMMA RegistryStep ==
  ASSUME ControlInv, SafeInv, [Next]_vars
  PROVE  SafeInv'
<1> USE DEF registryVars, nativeVars, listVars, Doing, Rest, Alive, Idle
<1>0. /\ TypeOK /\ TypeOK' /\ MainInv /\ \A i \in Instances : HostInv(i)
  BY TypeStep DEF ControlInv
<1>o. orphaned => orphaned' BY <1>0, OrphanedStays
<1> SUFFICES ASSUME ~orphaned' PROVE RegistryInv'
  BY DEF SafeInv
<1>r. ~orphaned /\ RegistryInv BY <1>o DEF SafeInv
<1>1. CASE Initialize
  <2>1. \A i \in Instances : ~Listed(i) BY <1>1 DEF Initialize
  <2>2. \A i \in Instances : ~Listed(i)' BY <1>1, <2>1 DEF Initialize, Listed
  <2> QED BY <1>1, <1>r, <2>2 DEF Initialize, RegistryInv, Kept
<1>2. CASE Initialized
  <2>1. \A i \in Instances : ~Listed(i)'
    BY <1>2, <1>r DEF Initialized, RegistryInv, Listed
  <2> QED BY <1>2, <1>r, <2>1 DEF Initialized, RegistryInv, Kept
<1>3. CASE Uninitialize
  <2>1. \A i \in Instances : Listed(i) => ~cancelled[i]
    BY <1>3, IdleNotCancelled DEF Uninitialize
  <2> QED BY <1>3, <1>r, <2>1, HostAssumption DEF Uninitialize, RegistryInv, Kept, Listed
<1>4. CASE Uninitialized
  <2>1. \A i \in Instances : ~Listed(i)'
    BY <1>4, HostAssumption DEF Uninitialized, Listed
  <2> QED BY <1>4, <1>r, <2>1 DEF Uninitialized, RegistryInv, Kept
<1>5. CASE Create
  <2>1. \A i \in Instances : Listed(i) => ~cancelled[i]
    BY <1>5, IdleNotCancelled DEF Create
  <2> QED BY <1>5, <1>r, <2>1 DEF Create, RegistryInv, Kept, Listed
<1>6. CASE Created
  <2>1. PICK i \in Instances :
          /\ i = main.of /\ hostId[i] = NoId /\ manager /\ nextId \in Ids
          /\ main.op = "creating"
    BY <1>0, <1>6, HostAssumption DEF Created, MainInv, TypeOK, Ids
  <2>2. /\ hostId'[i] = nextId
        /\ \A j \in Instances : j # i => hostId'[j] = hostId[j]
        /\ connections'[nextId] = i
        /\ \A id \in Ids : id # nextId => connections'[id] = connections[id]
        /\ nextId' = nextId + 1
        /\ main'.op = "idle" /\ main'.of = Nobody
        /\ UNCHANGED <<manager, cancelled, fault>>
    BY <1>0, <1>6, <2>1 DEF Created, NewId, TypeOK
  <2>3. \A j \in Instances : j # i => (Listed(j)' <=> Listed(j))
    <3>1. \/ UNCHANGED implList
          \/ implList' = [implList EXCEPT ![nextId] = i] /\ implList[nextId] = Nobody
      BY <1>6, <2>1 DEF Created, MayAdd
    <3>2. ASSUME NEW j \in Instances, j # i, NEW id \in Ids
          PROVE  implList'[id] = j <=> implList[id] = j
      BY <1>0, <2>1, <3>1, <3>2, HostAssumption DEF TypeOK
    <3> QED BY <2>2, <3>2 DEF Listed
  <2>4. \A j \in Instances : thread'[j].at = "in" => thread'[j] = thread[j]
    BY <1>0, <1>6, <2>1 DEF Created, Goes, Stopped, Point, TypeOK
  <2>5. ASSUME NEW j \in Instances
        PROVE  /\ Listed(j)' => hostId'[j] < nextId'
               /\ Kept(j)' => manager' /\ connections'[hostId'[j]] = j
    <3>1. CASE j = i BY <2>1, <2>2, <3>1 DEF Ids
    <3>2. CASE j # i
      <4>1. Kept(j)' => Kept(j) BY <2>2, <2>3, <3>2, HostAssumption DEF Kept
      <4>2. Kept(j) => Listed(j) BY DEF Kept
      <4>3. Listed(j) => hostId[j] \in Ids /\ hostId[j] < nextId
        BY <1>r DEF RegistryInv, Listed
      <4> QED BY <1>r, <2>1, <2>2, <2>3, <3>2, <4>1, <4>2, <4>3 DEF RegistryInv, Ids
    <3> QED BY <3>1, <3>2
  <2> QED BY <1>r, <2>2, <2>4, <2>5 DEF RegistryInv
<1>7. CASE Joined
  <2>1. main'.of = main.of /\ main'.op = "destroying"
    BY <1>0, <1>7 DEF Joined, TypeOK, Mains
  <2> QED BY <1>7, <1>r, <2>1 DEF Joined, RegistryInv, Kept, Listed
<1>8. CASE Destroyed
  <2>1. PICK i \in Instances :
          /\ i = main.of /\ hostId[i] \in Ids /\ implList[hostId[i]] = i
          /\ cancelled[i]
    BY <1>0, <1>8 DEF Destroyed, MainInv, Listed
  <2>2. /\ \A id \in Ids : id # hostId[i] => connections'[id] = connections[id]
        /\ main'.op # "initializing" /\ main'.of = Nobody
        /\ UNCHANGED <<manager, nextId, hostId, cancelled, thread, fault>>
        /\ \/ UNCHANGED implList
           \/ implList' = [implList EXCEPT ![hostId[i]] = Nobody]
    BY <1>0, <1>8, <2>1 DEF Destroyed, TypeOK
  <2>3. \A j \in Instances : Listed(j)' => Listed(j)
    BY <1>0, <2>1, <2>2, HostAssumption DEF Listed, TypeOK
  <2>4. ASSUME NEW j \in Instances, Kept(j)'
        PROVE  Kept(j) /\ hostId[j] # hostId[i]
    <3>1. Listed(j) /\ ~cancelled[j] BY <2>2, <2>3, <2>4, HostAssumption DEF Kept
    <3>2. j # i BY <2>1, <3>1
    <3> QED BY <2>1, <3>1, <3>2 DEF Kept, Listed
  <2> QED BY <1>r, <2>1, <2>2, <2>3, <2>4 DEF RegistryInv, Listed, Kept
<1>9. CASE IssueCallbacks
  <2>1. main'.op = "idle" /\ main'.of = Nobody BY <1>9 DEF IssueCallbacks
  <2>2. \A j \in Instances : Kept(j)' => Kept(j)
    BY <1>9, <2>1, HostAssumption DEF IssueCallbacks, Kept, Listed
  <2> QED BY <1>9, <1>r, <2>1, <2>2 DEF IssueCallbacks, RegistryInv, Listed
<1>10. ASSUME NEW i \in Instances, Destroy(i) \/ DestroyNext(i) PROVE RegistryInv'
  <2>1. /\ Listed(i) /\ ~cancelled[i]
        /\ main'.op = "joining" /\ main'.of = i
        /\ cancelled' = [cancelled EXCEPT ![i] = TRUE]
        /\ UNCHANGED <<manager, nextId, connections, hostId, implList, thread, fault>>
    BY <1>10, IdleNotCancelled DEF Destroy, DestroyNext, Cancel, ToDestroy
  <2>2. \A j \in Instances : Kept(j)' => Kept(j)
    BY <1>0, <2>1 DEF Kept, Listed, TypeOK
  <2> QED BY <1>r, <2>1, <2>2 DEF RegistryInv, Listed
<1>11. ASSUME NEW i \in Instances, Update(i) PROVE RegistryInv'
  <2>1. Listed(i) /\ ~cancelled[i] BY <1>11, IdleNotCancelled DEF Update
  <2>2. \A j \in Instances : Kept(j)' => Kept(j)
    BY <1>11, <2>1 DEF Update, Kept, Listed
  <2>3. main'.op = "updating" BY <1>11 DEF Update
  <2> QED BY <1>11, <1>r, <2>2, <2>3 DEF Update, RegistryInv, Listed
<1>12. ASSUME NEW i \in Instances,
              \/ \E new \in SUBSET Requests : PublishRequest(i, new)
              \/ \E kind \in CallKinds : Post(i, kind)
       PROVE  RegistryInv'
  <2>1. UNCHANGED registryPart /\ UNCHANGED <<thread, fault>>
    BY <1>12 DEF PublishRequest, Post, registryPart
  <2> QED BY <1>r, <2>1, RegistryStays
<1>13. ASSUME NEW i \in Instances, Check(i) \/ Exchange(i) \/ Leave(i)
       PROVE  RegistryInv'
  <2>1. UNCHANGED registryPart /\ UNCHANGED fault
    BY <1>13 DEF Check, Exchange, Leave, registryPart
  <2>2. \E p : Goes(i, p) /\ p.at # "in"
    <3>1. thread[i].call \in NativeCalls BY <1>0 DEF TypeOK, Threads
    <3>2. After(thread[i].call).at # "in"
      BY <3>1 DEF After, NativeCalls, CallKinds, Stopped, Point
    <3>3. CASE Check(i) BY <3>3 DEF Check, Stopped, Point
    <3>4. CASE Exchange(i) BY <3>2, <3>4 DEF Exchange, Point
    <3>5. CASE Leave(i) BY <3>2, <3>5 DEF Leave
    <3> QED BY <1>13, <3>3, <3>4, <3>5
  <2> QED BY <1>r, <2>1, <2>2, RegistryMoves
<1>14. ASSUME NEW i \in Instances, Enter(i) PROVE RegistryInv'
  <2>1. Kept(i) BY <1>14, RunningIsKept DEF Enter, Running
  <2>2. GetConnection(i) = i BY <1>r, <2>1 DEF RegistryInv, GetConnection
  <2>3. Goes(i, Point("in", thread[i].call, i)) /\ Point("in", thread[i].call, i).conn = i
    BY <1>14, <2>2 DEF Enter, Point
  <2>4. UNCHANGED registryPart /\ UNCHANGED fault BY <1>14 DEF Enter, registryPart
  <2> QED BY <1>r, <2>3, <2>4, RegistryMoves
<1>15. ASSUME NEW i \in Instances, EnterWhileChanging(i) PROVE RegistryInv'
  <2>1. UNCHANGED registryPart /\ UNCHANGED thread /\ fault' = "map"
    BY <1>15 DEF EnterWhileChanging, Crash, registryPart
  <2> QED BY <1>r, <2>1 DEF RegistryInv, Kept, Listed, registryPart
<1>16. ASSUME NEW i \in Instances, EnterWithoutManager(i) \/ LeaveDestroyed(i)
       PROVE  FALSE
  <2>1. Kept(i)
    BY <1>16, RunningIsKept DEF EnterWithoutManager, LeaveDestroyed, Running
  <2>2. hostId[i] \in Ids BY <2>1 DEF Kept, Listed
  <2> QED
    BY <1>r, <1>16, <2>1, <2>2
    DEF RegistryInv, EnterWithoutManager, LeaveDestroyed, Destroying
<1>17. CASE Lost \/ UNCHANGED vars
  <2>1. UNCHANGED registryPart /\ UNCHANGED <<thread, fault>>
    BY <1>17 DEF Lost, vars, registryPart
  <2> QED BY <1>r, <2>1, RegistryStays
<1> QED
  BY <1>1, <1>2, <1>3, <1>4, <1>5, <1>6, <1>7, <1>8, <1>9, <1>10, <1>11, <1>12,
     <1>13, <1>14, <1>15, <1>16, <1>17
  DEF Next, Library, Continue, Application, UpdateThread

LEMMA SafeHolds == Spec => []SafeInv
<1>1. Init => SafeInv
  BY HostAssumption, NoIdIsNone DEF Init, SafeInv, RegistryInv, Kept, Listed, Stopped, Point
<1>2. ControlInv /\ SafeInv /\ [Next]_vars => SafeInv' BY RegistryStep
<1> QED BY <1>1, <1>2, ControlHolds, PTL DEF Spec

(* No native call works in a connection, or through a manager, that is     *)
(* destroyed, unless the library was initialized over living hosts.        *)
THEOREM NoUseAfterFree == Spec => []NoUseAfterDestroy
<1>1. SafeInv => NoUseAfterDestroy
  BY DEF SafeInv, RegistryInv, NoUseAfterDestroy
<1> QED BY <1>1, SafeHolds, PTL

-----------------------------------------------------------------------------
(* The requests and their answers                                          *)

(* The requests of i that its connection holds.                            *)
Held(i) == {r \in Requests : /\ request[r].by = i
                             /\ request[r].st \in {"waiting", "done"}}

RequestInv ==
  \A r \in Requests :
    /\ request[r].st \in {"waiting", "done"}
         => /\ request[r].by \in Instances /\ request[r].conn = request[r].by
            /\ Kept(request[r].by)
    /\ request[r].by \in Instances => hostId[request[r].by] \in Ids
    /\ \A i \in Instances : got[i][r] # 0 => request[r].st = "out"
    /\ \A id \in Ids : r \in responses[id] => request[r].st = "out"
    /\ \A i \in Instances :
         request[r].by = i /\ r \in responses[hostId[i]] => got[i][r] # 0

LiveInv == orphaned \/ RequestInv

(* A response in a list has been returned: what is not answered is held.   *)
LEMMA UnansweredIsHeld ==
  ASSUME RequestInv, NEW i \in Instances
  PROVE  Unanswered(i) = Held(i)
BY DEF RequestInv, Unanswered, Held

LEMMA DroppedRequests ==
  ASSUME TypeOK, NEW c, request' = Dropped(c), NEW r \in Requests
  PROVE  /\ request'[r].by = request[r].by /\ request'[r].conn = request[r].conn
         /\ IF request[r].conn = c /\ request[r].st \in {"waiting", "done"}
              THEN request'[r].st = "dropped" ELSE request'[r].st = request[r].st
BY DEF TypeOK, RequestRecords, Dropped

LEMMA KeptHasConnection ==
  ASSUME RegistryInv, NEW i \in Instances, Kept(i)
  PROVE  GetConnection(i) = i
BY DEF RegistryInv, GetConnection

(* Nothing happens to the requests, and who was kept is.                   *)
LEMMA RequestsStay ==
  ASSUME RequestInv, UNCHANGED <<request, got>>,
         \A id \in Ids : responses'[id] \subseteq responses[id],
         \A i \in Instances : hostId[i] \in Ids => hostId'[i] = hostId[i],
         \A i \in Instances : Kept(i) => Kept(i)'
  PROVE  RequestInv'
BY DEF RequestInv

(* Some held requests of i are answered, or discarded.                     *)
LEMMA RequestsMove ==
  ASSUME RequestInv, UNCHANGED <<got, hostId>>,
         \A id \in Ids : responses'[id] \subseteq responses[id],
         \A r \in Requests :
           \/ request'[r] = request[r]
           \/ /\ request'[r].by = request[r].by /\ request'[r].conn = request[r].conn
              /\ request[r].st \in {"waiting", "done"}
              /\ request'[r].st \in {"done", "dropped"},
         \A r \in Requests :
           request'[r].st \in {"waiting", "done"} /\ Kept(request[r].by)
             => Kept(request[r].by)'
  PROVE  RequestInv'
BY DEF RequestInv

LEMMA KeptStays ==
  ASSUME ControlInv, RegistryInv, ~orphaned', NEW i \in Instances, Kept(i), Next,
         \/ Uninitialize \/ Create \/ Created \/ Joined
         \/ \E j \in Instances :
              \/ Destroy(j) \/ DestroyNext(j) \/ Update(j)
              \/ \E new \in SUBSET Requests : PublishRequest(j, new)
              \/ \E kind \in CallKinds : Post(j, kind)
              \/ UpdateThread(j)
         \/ IssueCallbacks \/ Lost
  PROVE  Kept(i)' /\ hostId'[i] = hostId[i]
<1> USE DEF registryVars, nativeVars, listVars, Doing, Rest, Alive, Idle
<1>0. TypeOK /\ MainInv /\ \A j \in Instances : HostInv(j)
  BY DEF ControlInv
<1>1. Listed(i) /\ hostId[i] \in Ids BY DEF Kept, Listed
<1>2. main.op \in {"idle", "uninitializing", "updating"} => ~cancelled[i]
  BY <1>0, <1>1, HostAssumption DEF MainInv, HostInv, Kept
<1>3. CASE Uninitialize \/ Create \/ IssueCallbacks
  BY <1>1, <1>2, <1>3 DEF Uninitialize, Create, IssueCallbacks, Kept, Listed
<1>4. CASE Created
  <2>1. PICK k \in Instances :
          /\ k = main.of /\ hostId[k] = NoId /\ nextId \in Ids /\ main.op = "creating"
    BY <1>0, <1>4, HostAssumption DEF Created, MainInv, TypeOK, Ids
  <2>2. k # i BY <1>1, <2>1, NoIdIsNone
  <2>3. hostId'[i] = hostId[i] /\ UNCHANGED cancelled
    BY <1>0, <1>4, <2>1, <2>2 DEF Created, TypeOK
  <2>4. hostId[i] # nextId BY <1>1, HostAssumption DEF RegistryInv, Ids
  <2>5. implList'[hostId[i]] = implList[hostId[i]]
    BY <1>0, <1>1, <1>4, <2>4 DEF Created, TypeOK
  <2>6. ~cancelled[i] BY <2>1, <2>2 DEF Kept
  <2> QED BY <1>1, <2>3, <2>5, <2>6 DEF Kept, Listed
<1>5. CASE Joined
  <2>1. main'.of = main.of BY <1>0, <1>5 DEF Joined, TypeOK, Mains
  <2> QED BY <1>1, <1>5, <2>1 DEF Joined, Kept, Listed
<1>6. ASSUME NEW j \in Instances, Destroy(j) \/ DestroyNext(j)
      PROVE  Kept(i)' /\ hostId'[i] = hostId[i]
  <2>1. /\ main.op \in {"idle", "uninitializing"}
        /\ main'.of = j /\ cancelled' = [cancelled EXCEPT ![j] = TRUE]
        /\ UNCHANGED <<hostId, implList>>
    BY <1>6 DEF Destroy, DestroyNext, Cancel
  <2> QED BY <1>0, <1>1, <1>2, <2>1 DEF Kept, Listed, TypeOK
<1>7. ASSUME NEW j \in Instances, Update(j)
      PROVE  Kept(i)' /\ hostId'[i] = hostId[i]
  BY <1>1, <1>2, <1>7 DEF Update, Kept, Listed
<1>8. ASSUME NEW j \in Instances,
             \/ \E new \in SUBSET Requests : PublishRequest(j, new)
             \/ \E kind \in CallKinds : Post(j, kind)
      PROVE  Kept(i)' /\ hostId'[i] = hostId[i]
  BY <1>8 DEF PublishRequest, Post, Kept, Listed
<1>9. ASSUME NEW j \in Instances, UpdateThread(j)
      PROVE  Kept(i)' /\ hostId'[i] = hostId[i]
  BY <1>9 DEF UpdateThread, Check, Exchange, Enter, Leave, EnterWithoutManager,
     EnterWhileChanging, LeaveDestroyed, Crash, Kept, Listed
<1>10. CASE Lost
  BY <1>10 DEF Lost, vars, Kept, Listed
<1> QED BY <1>3, <1>4, <1>5, <1>6, <1>7, <1>8, <1>9, <1>10

LEMMA NothingHeld ==
  ASSUME RequestInv, \A i \in Instances : ~Kept(i), NEW r \in Requests
  PROVE  request[r].st \notin {"waiting", "done"}
BY DEF RequestInv

(* What Leave does to the requests: some answers, or all discarded.        *)
LEMMA LeaveRequests ==
  ASSUME ControlInv, RegistryInv, RequestInv, NEW i \in Instances, Leave(i)
  PROVE  /\ \A r \in Requests :
              \/ request'[r] = request[r]
              \/ /\ request'[r].by = request[r].by /\ request'[r].conn = request[r].conn
                 /\ request[r].st \in {"waiting", "done"}
                 /\ request'[r].st \in {"done", "dropped"}
         /\ \/ \A r \in Requests : request'[r] = request[r]
            \/ thread[i].call = "Update"
                 /\ \A r \in Requests :
                      \/ request'[r] = request[r]
                      \/ /\ request'[r].by = request[r].by
                         /\ request[r].st = "waiting" /\ request'[r].st = "done"
            \/ thread[i].call = "Abort" /\ request' = Dropped(i)
<1>0. TypeOK BY DEF ControlInv
<1>1. thread[i].conn = i BY DEF Leave, RegistryInv
<1>2. CASE UNCHANGED request BY <1>2
<1>3. CASE thread[i].call = "Abort" /\ request' = Dropped(i)
  <2>1. \A r \in Requests :
          \/ request'[r] = request[r]
          \/ /\ request'[r].by = request[r].by /\ request'[r].conn = request[r].conn
             /\ request[r].st \in {"waiting", "done"} /\ request'[r].st = "dropped"
    BY <1>0, <1>3 DEF Dropped, TypeOK, RequestRecords
  <2> QED BY <1>3, <2>1
<1>4. ASSUME thread[i].call = "Update",
             NEW S \in SUBSET {r \in Requests : request[r].conn = i
                                              /\ request[r].st = "waiting"},
             request' = [r \in Requests |-> IF r \in S
                           THEN [request[r] EXCEPT !.st = "done"] ELSE request[r]]
      PROVE  \A r \in Requests :
               \/ request'[r] = request[r]
               \/ /\ request'[r].by = request[r].by /\ request'[r].conn = request[r].conn
                  /\ request[r].st = "waiting" /\ request'[r].st = "done"
  <2>1. SUFFICES ASSUME NEW r \in Requests, r \in S
                 PROVE  /\ request'[r].by = request[r].by
                        /\ request'[r].conn = request[r].conn
                        /\ request[r].st = "waiting" /\ request'[r].st = "done"
    BY <1>4
  <2>2. request'[r] = [request[r] EXCEPT !.st = "done"] BY <1>4, <2>1
  <2> QED BY <1>0, <2>1, <2>2 DEF TypeOK, RequestRecords
<1>5. \/ UNCHANGED request
      \/ thread[i].call = "Abort" /\ request' = Dropped(i)
      \/ thread[i].call = "Update"
           /\ \E S \in SUBSET {r \in Requests : request[r].conn = i
                                              /\ request[r].st = "waiting"} :
                request' = [r \in Requests |-> IF r \in S
                              THEN [request[r] EXCEPT !.st = "done"] ELSE request[r]]
  BY <1>1 DEF Leave
<1> QED BY <1>2, <1>3, <1>4, <1>5

(* Update returns the answers of the host it belongs to.                   *)
LEMMA ReturnedAnswers ==
  ASSUME ControlInv, RegistryInv, RequestInv, IssueCallbacks
  PROVE  \E i \in Instances, new \in SUBSET Requests :
           /\ i = main.of /\ Listed(i) /\ ~cancelled[i]
           /\ new = {r \in Requests : request[r].conn = i /\ request[r].st = "done"}
           /\ \A r \in new : request[r].by = i
           /\ responses[hostId[i]] = {}
           /\ responses' = [responses EXCEPT ![hostId[i]] = new]
           /\ \A r \in Requests : request'[r] =
                IF r \in new THEN [request[r] EXCEPT !.st = "out"] ELSE request[r]
           /\ got' = [got EXCEPT ![i] =
                        [r \in Requests |-> IF r \in new THEN 1 ELSE @[r]]]
<1>1. PICK i \in Instances :
        /\ i = main.of /\ main.op = "updating" /\ Listed(i)
        /\ responses[hostId[i]] = {} /\ ~main.all
  BY DEF ControlInv, MainInv, IssueCallbacks
<1>2. Kept(i) BY <1>1 DEF Kept
<1>3. ~cancelled[i] BY <1>1 DEF ControlInv, HostInv
<1>4. GetConnection(i) = i BY <1>2, KeptHasConnection
<1> DEFINE new == {r \in Requests : request[r].conn = i /\ request[r].st = "done"}
<1>5. \A r \in new : request[r].by = i BY DEF RequestInv
<1>6. /\ request' = [r \in Requests |->
            IF r \in new THEN [request[r] EXCEPT !.st = "out"] ELSE request[r]]
      /\ responses' = [responses EXCEPT ![hostId[i]] = responses[hostId[i]] \cup new]
      /\ got' = [got EXCEPT ![i] = [r \in Requests |->
            IF r \in responses[hostId[i]] \cup new THEN got[i][r] + 1 ELSE got[i][r]]]
  BY <1>1, <1>4, HostAssumption DEF IssueCallbacks, Returned
<1>7. \A r \in new : got[i][r] = 0 BY DEF RequestInv
<1>8. [r \in Requests |-> IF r \in responses[hostId[i]] \cup new
                            THEN got[i][r] + 1 ELSE got[i][r]]
      = [r \in Requests |-> IF r \in new THEN 1 ELSE got[i][r]]
  BY <1>1, <1>7
<1>9. responses[hostId[i]] \cup new = new BY <1>1
<1> HIDE DEF new
<1>10. \A r \in Requests : request'[r] =
         IF r \in new THEN [request[r] EXCEPT !.st = "out"] ELSE request[r]
  BY <1>6
<1>11. got' = [got EXCEPT ![i] = [r \in Requests |-> IF r \in new THEN 1 ELSE got[i][r]]]
  BY <1>6, <1>8
<1>12. responses' = [responses EXCEPT ![hostId[i]] = new] BY <1>6, <1>9
<1>13. new \in SUBSET Requests
       /\ new = {r \in Requests : request[r].conn = i /\ request[r].st = "done"}
  BY DEF new
<1> QED BY <1>1, <1>3, <1>5, <1>10, <1>11, <1>12, <1>13

LEMMA PublishedRequests ==
  ASSUME ControlInv, RegistryInv, NEW i \in Instances, NEW new \in SUBSET Requests,
         PublishRequest(i, new)
  PROVE  /\ Kept(i) /\ ~cancelled[i]
         /\ \A r \in new : request[r].st = "new"
         /\ \A r \in Requests : request'[r] =
              IF r \in new THEN [by |-> i, conn |-> i, st |-> "waiting"] ELSE request[r]
<1>1. Kept(i) /\ ~cancelled[i]
  BY IdleNotCancelled DEF PublishRequest, Idle, Kept
<1>2. GetConnection(i) = i BY <1>1, KeptHasConnection
<1> QED BY <1>1, <1>2, HostAssumption DEF PublishRequest

(* Destroy discards the requests of its own host, and keeps the others.    *)
LEMMA DestroyedRequests ==
  ASSUME ControlInv, RegistryInv, Destroyed
  PROVE  \E i \in Instances :
           /\ i = main.of /\ cancelled[i] /\ request' = Dropped(i)
           /\ \A j \in Instances : j # i /\ Kept(j) => Kept(j)'
           /\ UNCHANGED <<hostId, cancelled>> /\ main'.of = Nobody
           /\ \A id \in Ids : responses'[id] \subseteq responses[id]
<1>1. PICK i \in Instances :
        /\ i = main.of /\ cancelled[i] /\ Listed(i) /\ hostId[i] \in Ids
  BY DEF ControlInv, MainInv, Destroyed, Listed
<1>2. Kept(i) BY <1>1 DEF Kept
<1>3. GetConnection(i) = i BY <1>2, KeptHasConnection
<1>4. request' = Dropped(i) BY <1>1, <1>3, HostAssumption DEF Destroyed
<1>5. /\ UNCHANGED <<hostId, cancelled>> /\ main'.of = Nobody
      /\ \A id \in Ids : id # hostId[i] => implList'[id] = implList[id]
      /\ \A id \in Ids : responses'[id] \subseteq responses[id]
  BY <1>1 DEF Destroyed, Doing, Rest, ControlInv, TypeOK
<1>6. ASSUME NEW j \in Instances, j # i, Kept(j) PROVE Kept(j)'
  <2>1. Listed(j) /\ ~cancelled[j] BY <1>1, <1>6 DEF Kept
  <2>2. hostId[j] \in Ids /\ hostId[j] # hostId[i] BY <1>1, <1>6, <2>1 DEF Listed
  <2> QED BY <1>5, <2>1, <2>2 DEF Kept, Listed
<1> QED BY <1>1, <1>4, <1>5, <1>6

LEMMA RequestStep ==
  ASSUME ControlInv, RegistryInv, RequestInv, [Next]_vars, ~orphaned'
  PROVE  RequestInv'
<1> USE DEF registryVars, nativeVars, listVars, answerVars
<1>0. TypeOK BY DEF ControlInv
<1>1. CASE Initialize \/ Uninitialized
  <2>1. \A i \in Instances : ~Kept(i)
    BY <1>1, HostAssumption DEF Initialize, Uninitialized, Kept, ToDestroy, ControlInv, MainInv
  <2>2. \A r \in Requests : request'[r] = request[r]
    BY <1>1, <2>1, NothingHeld DEF Initialize, Uninitialized, Dropped
  <2>3. \A id \in Ids : responses'[id] \subseteq responses[id]
    BY <1>1 DEF Initialize, Uninitialized
  <2>4. UNCHANGED <<got, hostId>> BY <1>1 DEF Initialize, Uninitialized
  <2>5. \A r \in Requests : request'[r].st \notin {"waiting", "done"}
    BY <2>1, <2>2, NothingHeld
  <2> QED BY <2>2, <2>3, <2>4, <2>5, RequestsMove
<1>2. CASE Initialized
  <2>1. \A i \in Instances : ~Kept(i) BY <1>2 DEF Initialized, RegistryInv, Kept
  <2> QED BY <1>2, <2>1, RequestsStay DEF Initialized
<1>3. CASE Destroyed
  <2>1. PICK i \in Instances :
           /\ i = main.of /\ cancelled[i] /\ request' = Dropped(i)
           /\ \A j \in Instances : j # i /\ Kept(j) => Kept(j)'
           /\ UNCHANGED <<hostId, cancelled>> /\ main'.of = Nobody
           /\ \A id \in Ids : responses'[id] \subseteq responses[id]
    BY <1>3, DestroyedRequests
  <2>2. ASSUME NEW r \in Requests
        PROVE  \/ request'[r] = request[r]
               \/ /\ request'[r].by = request[r].by /\ request'[r].conn = request[r].conn
                  /\ request[r].st \in {"waiting", "done"}
                  /\ request'[r].st \in {"done", "dropped"}
    <3>1. \/ request'[r] = request[r]
          \/ request[r].st \in {"waiting", "done"} /\ request'[r].st = "dropped"
      BY <1>0, <2>1 DEF Dropped, TypeOK, RequestRecords
    <3> QED BY <1>0, <2>1, <3>1, DroppedRequests
  <2>3. ASSUME NEW r \in Requests, request'[r].st \in {"waiting", "done"},
               Kept(request[r].by)
        PROVE  Kept(request[r].by)'
    <3>1. request[r].st \in {"waiting", "done"} /\ request[r].conn # i
      BY <1>0, <2>1, <2>3, DroppedRequests
    <3>2. request[r].by \in Instances /\ request[r].by # i
      BY <3>1 DEF RequestInv
    <3>3. PICK j \in Instances : j = request[r].by BY <3>2
    <3>4. request'[r].by = request[r].by BY <1>0, <2>1, DroppedRequests
    <3>5. Kept(j)' BY <2>1, <2>3, <3>2, <3>3
    <3>6. request'[r].by = j BY <3>3, <3>4
    <3> QED BY <3>5, <3>6
  <2>4. UNCHANGED got BY <1>3 DEF Destroyed
  <2> QED BY <2>1, <2>2, <2>3, <2>4, RequestsMove
<1>4. CASE IssueCallbacks
  <2>1. PICK i \in Instances, new \in SUBSET Requests :
           /\ i = main.of /\ Listed(i) /\ ~cancelled[i]
           /\ new = {r \in Requests : request[r].conn = i /\ request[r].st = "done"}
           /\ \A r \in new : request[r].by = i
           /\ responses[hostId[i]] = {}
           /\ responses' = [responses EXCEPT ![hostId[i]] = new]
           /\ \A r \in Requests : request'[r] =
                IF r \in new THEN [request[r] EXCEPT !.st = "out"] ELSE request[r]
           /\ got' = [got EXCEPT ![i] =
                        [r \in Requests |-> IF r \in new THEN 1 ELSE @[r]]]
    BY <1>4, ReturnedAnswers
  <2>2. hostId' = hostId /\ hostId[i] \in Ids BY <1>4, <2>1 DEF IssueCallbacks, Listed
  <2>3. \A j \in Instances : Kept(j) => Kept(j)'
    <3>1. Next BY <1>4 DEF Next, Continue
    <3> QED BY <1>4, <3>1, KeptStays
  <2>4. /\ \A j \in Instances, r \in Requests :
             got'[j][r] = IF j = i /\ r \in new THEN 1 ELSE got[j][r]
        /\ \A id \in Ids : responses'[id] = IF id = hostId[i] THEN new ELSE responses[id]
    BY <1>0, <2>1, <2>2 DEF TypeOK
  <2>5. ASSUME NEW r \in Requests
        PROVE  /\ request'[r].by = request[r].by /\ request'[r].conn = request[r].conn
               /\ request'[r].st = IF r \in new THEN "out" ELSE request[r].st
    BY <1>0, <2>1 DEF TypeOK, RequestRecords
  <2>6. ASSUME NEW r \in Requests
        PROVE  /\ request'[r].st \in {"waiting", "done"}
                    => /\ request'[r].by \in Instances /\ request'[r].conn = request'[r].by
                       /\ Kept(request[r].by)'
               /\ request'[r].by \in Instances => hostId'[request'[r].by] \in Ids
    <3>1. r \in new => request'[r].st = "out" BY <2>5
    <3>2. r \notin new => request'[r] = request[r] BY <2>1
    <3>3. CASE r \in new BY <2>2, <2>5, <3>1, <3>3 DEF RequestInv
    <3>4. CASE r \notin new
      <4>1. request'[r].st \in {"waiting", "done"}
              => request[r].by \in Instances /\ request'[r].conn = request'[r].by
                 /\ Kept(request[r].by)
        BY <3>2, <3>4 DEF RequestInv
      <4>2. ASSUME request[r].by \in Instances, Kept(request[r].by)
            PROVE  Kept(request[r].by)'
        <5>1. PICK j \in Instances : j = request[r].by BY <4>2
        <5>2. Kept(j)' BY <2>3, <4>2, <5>1
        <5>3. request'[r].by = j BY <2>5, <5>1
        <5> QED BY <5>2, <5>3
      <4> QED BY <2>2, <2>5, <4>1, <4>2 DEF RequestInv
    <3> QED BY <3>3, <3>4
  <2>7. ASSUME NEW r \in Requests
        PROVE  /\ \A j \in Instances : got'[j][r] # 0 => request'[r].st = "out"
               /\ \A id \in Ids : r \in responses'[id] => request'[r].st = "out"
    BY <2>1, <2>2, <2>4, <2>5 DEF RequestInv
  <2>8. ASSUME NEW r \in Requests, NEW j \in Instances, request'[r].by = j,
               r \in responses'[hostId'[j]]
        PROVE  got'[j][r] # 0
    <3>1. request[r].by = j /\ hostId[j] \in Ids BY <2>5, <2>8 DEF RequestInv
    <3>2. CASE hostId[j] = hostId[i] BY <2>1, <2>2, <2>4, <2>8, <3>1, <3>2
    <3>3. CASE hostId[j] # hostId[i] BY <2>2, <2>4, <2>8, <3>1, <3>3 DEF RequestInv
    <3> QED BY <3>2, <3>3
  <2> QED BY <2>6, <2>7, <2>8 DEF RequestInv
<1>5. ASSUME NEW i \in Instances, NEW new \in SUBSET Requests, PublishRequest(i, new)
      PROVE  RequestInv'
  <2>1. /\ Kept(i) /\ ~cancelled[i]
        /\ \A r \in new : request[r].st = "new"
        /\ \A r \in Requests : request'[r] =
             IF r \in new THEN [by |-> i, conn |-> i, st |-> "waiting"] ELSE request[r]
    BY <1>5, PublishedRequests
  <2>2. UNCHANGED <<hostId, implList, cancelled, main, got, responses>>
    BY <1>5 DEF PublishRequest
  <2>3. \A j : Kept(j)' <=> Kept(j) BY <2>2 DEF Kept, Listed
  <2>4. hostId[i] \in Ids BY <2>1 DEF Kept, Listed
  <2>5. ASSUME NEW r \in Requests, r \in new
        PROVE  /\ request'[r].by = i /\ request'[r].conn = i
               /\ request'[r].st = "waiting" /\ request[r].st = "new"
    BY <2>1, <2>5
  <2>6. \A r \in Requests : r \notin new => request'[r] = request[r] BY <2>1
  <2> QED BY <2>1, <2>2, <2>3, <2>4, <2>5, <2>6 DEF RequestInv
<1>6. ASSUME NEW i \in Instances, Leave(i) PROVE RequestInv'
  <2>1. \A r \in Requests :
          \/ request'[r] = request[r]
          \/ /\ request'[r].by = request[r].by /\ request'[r].conn = request[r].conn
             /\ request[r].st \in {"waiting", "done"}
             /\ request'[r].st \in {"done", "dropped"}
    BY <1>6, LeaveRequests
  <2>2. UNCHANGED <<hostId, implList, cancelled, main, got, responses>>
    BY <1>6 DEF Leave
  <2>3. \A j : Kept(j)' <=> Kept(j) BY <2>2 DEF Kept, Listed
  <2>4. \A r \in Requests : request'[r].by = request[r].by BY <2>1
  <2> QED BY <2>1, <2>2, <2>3, <2>4, RequestsMove
<1>7. CASE \/ Uninitialize \/ Create \/ Created \/ Joined
           \/ \E i \in Instances :
                \/ Destroy(i) \/ DestroyNext(i) \/ Update(i)
                \/ \E kind \in CallKinds : Post(i, kind)
                \/ Check(i) \/ Exchange(i) \/ Enter(i)
                \/ EnterWithoutManager(i) \/ EnterWhileChanging(i) \/ LeaveDestroyed(i)
           \/ Lost
  <2>1. Next
    BY <1>7 DEF Next, Library, Continue, Application, UpdateThread
  <2>2. \A i \in Instances : Kept(i) => Kept(i)'
    BY <1>7, <2>1, KeptStays DEF UpdateThread
  <2>3. UNCHANGED <<request, got>>
    BY <1>7 DEF Uninitialize, Create, Created, Joined, Destroy, DestroyNext, Update,
       Post, Check, Exchange, Enter, EnterWithoutManager, EnterWhileChanging,
       LeaveDestroyed, Crash, Lost, vars
  <2>4. \A id \in Ids : responses'[id] \subseteq responses[id]
    BY <1>0, <1>7 DEF TypeOK, Uninitialize, Create, Created, Joined, Destroy, DestroyNext, Update,
       Post, Check, Exchange, Enter, EnterWithoutManager, EnterWhileChanging,
       LeaveDestroyed, Crash, Lost, vars
  <2>5. \A i \in Instances : hostId[i] \in Ids => hostId'[i] = hostId[i]
    <3>1. CASE Created
      <4>1. hostId[main.of] = NoId /\ hostId' = [hostId EXCEPT ![main.of] = nextId]
        BY <3>1 DEF ControlInv, MainInv, Created, NewId
      <4> QED BY <1>0, <4>1, NoIdIsNone DEF TypeOK
    <3>2. CASE ~Created
      <4>1. hostId' = hostId
        BY <1>7, <3>2 DEF Uninitialize, Create, Joined, Destroy, DestroyNext, Update,
           Post, Check, Exchange, Enter, EnterWithoutManager, EnterWhileChanging,
           LeaveDestroyed, Crash, Lost, vars
      <4> QED BY <4>1
    <3> QED BY <3>1, <3>2
  <2> QED BY <2>2, <2>3, <2>4, <2>5, RequestsStay
<1>8. CASE UNCHANGED vars
  BY <1>8, RequestsStay DEF vars, Kept, Listed
<1> QED
  BY <1>1, <1>2, <1>3, <1>4, <1>5, <1>6, <1>7, <1>8
  DEF Next, Library, Continue, Application, UpdateThread

-----------------------------------------------------------------------------
(* The contract                                                            *)

pendings == [i \in Instances |-> Unanswered(i)]

LEMMA PendingChanges ==
  ASSUME RequestInv, RequestInv', NEW i \in Instances, NEW S, Held(i)' = S,
         \A j \in Instances : j # i => Held(j)' = Held(j)
  PROVE  pendings' = [pendings EXCEPT ![i] = S]
<1>1. \A j \in Instances : Unanswered(j) = Held(j) BY UnansweredIsHeld
<1>2. \A j \in Instances : Unanswered(j)' = Held(j)'
  BY DEF RequestInv, Unanswered, Held
<1> QED BY <1>1, <1>2 DEF pendings

LEMMA PendingStays ==
  ASSUME RequestInv, RequestInv', \A j \in Instances : Held(j)' = Held(j)
  PROVE  pendings' = pendings
<1>1. \A j \in Instances : Unanswered(j) = Held(j) BY UnansweredIsHeld
<1>2. \A j \in Instances : Unanswered(j)' = Held(j)'
  BY DEF RequestInv, Unanswered, Held
<1> QED BY <1>1, <1>2 DEF pendings

(* What a running or listed host can be asked for is not ended.            *)
LEMMA KeptNotEnded ==
  ASSUME NEW i \in Instances, Kept(i)
  PROVE  i \notin Ended
BY DEF Kept, Ended

LEMMA PublishMaps ==
  ASSUME ControlInv, RegistryInv, RequestInv, RequestInv', NEW i \in Instances,
         NEW new \in SUBSET Requests, PublishRequest(i, new)
  PROVE  Contract!Publish(i, new)
<1>1. /\ Kept(i)
      /\ \A r \in new : request[r].st = "new"
      /\ \A r \in Requests : request'[r] =
           IF r \in new THEN [by |-> i, conn |-> i, st |-> "waiting"] ELSE request[r]
  BY PublishedRequests
<1>2. i \notin Ended BY <1>1, KeptNotEnded
<1>3. UNCHANGED <<got, asked, made>> /\ Ended' = Ended
  BY DEF PublishRequest, answerVars, callVars, Ended
<1>4. ASSUME NEW r \in new, NEW j \in Instances
      PROVE  r \notin Held(j) /\ got[j][r] = 0
  BY <1>1 DEF Held, RequestInv
<1>5. \A j \in Instances : Unanswered(j) = Held(j) BY UnansweredIsHeld
<1>6. \A r \in new : Contract!Fresh(r) BY <1>4, <1>5 DEF Contract!Fresh
<1>7. /\ Held(i)' = Unanswered(i) \cup new
      /\ \A j \in Instances : j # i => Held(j)' = Held(j)
  <2>1. \A r \in new : request'[r].by = i /\ request'[r].st = "waiting" BY <1>1
  <2>2. \A r \in Requests : r \notin new => request'[r] = request[r] BY <1>1
  <2>3. \A j \in Instances : \A r \in new : r \notin Held(j) BY <1>4
  <2> QED BY <1>5, <2>1, <2>2, <2>3 DEF Held
<1>8. pendings' = [pendings EXCEPT ![i] = Unanswered(i) \cup new]
  BY <1>7, PendingChanges
<1> QED BY <1>2, <1>3, <1>6, <1>8 DEF Contract!Publish, pendings

LEMMA ReturnMaps ==
  ASSUME ControlInv, RegistryInv, RequestInv, RequestInv', IssueCallbacks
  PROVE  \E i \in Instances, new \in SUBSET Requests : Contract!Return(i, new)
<1>1. PICK i \in Instances, new \in SUBSET Requests :
         /\ i = main.of /\ Listed(i) /\ ~cancelled[i]
         /\ new = {r \in Requests : request[r].conn = i /\ request[r].st = "done"}
         /\ \A r \in new : request[r].by = i
         /\ responses[hostId[i]] = {}
         /\ responses' = [responses EXCEPT ![hostId[i]] = new]
         /\ \A r \in Requests : request'[r] =
              IF r \in new THEN [request[r] EXCEPT !.st = "out"] ELSE request[r]
         /\ got' = [got EXCEPT ![i] =
                      [r \in Requests |-> IF r \in new THEN 1 ELSE @[r]]]
  BY ReturnedAnswers
<1>2. \A j \in Instances : Unanswered(j) = Held(j) BY UnansweredIsHeld
<1>3. new \subseteq Held(i) BY <1>1 DEF Held
<1>4. /\ Held(i)' = Unanswered(i) \ new
      /\ \A j \in Instances : j # i => Held(j)' = Held(j)
  <2>1. \A r \in new : request'[r].st = "out" /\ request'[r].by = i
    BY <1>1 DEF ControlInv, TypeOK, RequestRecords
  <2>2. \A r \in Requests : r \notin new => request'[r] = request[r] BY <1>1
  <2>3. \A r \in new : request[r].by = i BY <1>1
  <2> QED BY <1>2, <2>1, <2>2, <2>3 DEF Held
<1>5. pendings' = [pendings EXCEPT ![i] = Unanswered(i) \ new]
  BY <1>4, PendingChanges
<1>6. Ended' = Ended
  <2>1. UNCHANGED cancelled /\ main'.of = Nobody BY DEF IssueCallbacks, Rest, Doing
  <2> QED BY <1>1, <2>1, HostAssumption DEF Ended
<1>7. UNCHANGED <<asked, made>> BY DEF IssueCallbacks, callVars
<1>8. Contract!Return(i, new)
  BY <1>1, <1>2, <1>3, <1>5, <1>6, <1>7 DEF Contract!Return, pendings
<1> QED BY <1>8

LEMMA LeaveMaps ==
  ASSUME ControlInv, FlagInv, RegistryInv, RequestInv, RequestInv',
         NEW i \in Instances, Leave(i)
  PROVE  \/ \E k \in CallKinds : Contract!Make(i, k)
         \/ UNCHANGED <<pendings, got, asked, made, Ended>>
<1>1. i \notin Ended
  BY RunningIsKept, KeptNotEnded DEF Leave, Running
<1>2. UNCHANGED <<got, asked>> /\ Ended' = Ended
  BY DEF Leave, answerVars, Ended
<1>3. \A j \in Instances : Unanswered(j) = Held(j) BY UnansweredIsHeld
<1>4. thread[i].call \in CallKinds \cup {"Update"}
  BY DEF ControlInv, TypeOK, Threads, NativeCalls
<1>5. CASE thread[i].call = "Update"
  <2>1. made' = made BY <1>5 DEF Leave
  <2>2. \A r \in Requests :
          \/ request'[r] = request[r]
          \/ /\ request'[r].by = request[r].by
             /\ request[r].st = "waiting" /\ request'[r].st = "done"
    BY <1>5, LeaveRequests
  <2>3. \A j \in Instances : Held(j)' = Held(j) BY <2>2 DEF Held
  <2> QED BY <1>2, <2>1, <2>3, PendingStays
<1>6. CASE thread[i].call \in CallKinds
  <2> DEFINE k == thread[i].call
  <2>1. k # "Update" BY <1>6 DEF CallKinds
  <2>2. made' = [made EXCEPT ![i][k] = @ + 1] BY <2>1 DEF Leave
  <2>3. made[i][k] < asked[i][k]
    <3>1. made[i][k] \in Nat /\ asked[i][k] \in Nat BY <1>6 DEF ControlInv, TypeOK
    <3>2. Calling(i, k) = 1 BY DEF Leave, Calling
    <3>3. Flagged(i, k) \in {0, 1} BY DEF Flagged
    <3>4. made[i][k] + Flagged(i, k) + Calling(i, k) <= asked[i][k]
      BY <1>6 DEF FlagInv, CountInv
    <3> QED BY <3>1, <3>2, <3>3, <3>4
  <2>4. CASE \A r \in Requests : request'[r] = request[r]
    <3>1. \A j \in Instances : Held(j)' = Held(j) BY <2>4 DEF Held
    <3>2. pendings' = pendings BY <3>1, PendingStays
    <3>3. Contract!Make(i, k)
      BY <1>1, <1>2, <2>2, <2>3, <3>2 DEF Contract!Make, pendings
    <3> QED BY <1>6, <3>3
  <2>5. CASE k = "Abort" /\ request' = Dropped(i)
    <3>1. \A r \in Requests : request[r].st \in {"waiting", "done"}
                                => request[r].conn = request[r].by
      BY DEF RequestInv
    <3>2. Held(i)' = {} /\ \A j \in Instances : j # i => Held(j)' = Held(j)
      <4>1. TypeOK BY DEF ControlInv
      <4>2. \A r \in Requests :
              /\ request'[r].by = request[r].by
              /\ IF request[r].conn = i /\ request[r].st \in {"waiting", "done"}
                   THEN request'[r].st = "dropped" ELSE request'[r].st = request[r].st
        BY <2>5, <4>1, DroppedRequests
      <4> QED BY <3>1, <4>2 DEF Held
    <3>3. pendings' = [pendings EXCEPT ![i] = {}] BY <3>2, PendingChanges
    <3>4. Contract!Make(i, k)
      BY <1>1, <1>2, <2>2, <2>3, <2>5, <3>3 DEF Contract!Make, pendings
    <3> QED BY <1>6, <3>4
  <2> QED BY <2>1, <2>4, <2>5, LeaveRequests
<1> QED BY <1>4, <1>5, <1>6

LEMMA EndMaps ==
  ASSUME ControlInv, RegistryInv, RequestInv, RequestInv', Destroyed
  PROVE  \E i \in Instances : Contract!End(i)
<1>1. PICK i \in Instances :
         /\ i = main.of /\ cancelled[i] /\ request' = Dropped(i)
         /\ \A j \in Instances : j # i /\ Kept(j) => Kept(j)'
         /\ UNCHANGED <<hostId, cancelled>> /\ main'.of = Nobody
         /\ \A id \in Ids : responses'[id] \subseteq responses[id]
  BY DestroyedRequests
<1>2. i \notin Ended /\ Ended' = Ended \cup {i} BY <1>1, HostAssumption DEF Ended
<1>3. UNCHANGED <<got, asked, made>> BY DEF Destroyed, callVars
<1>4. Held(i)' = {} /\ \A j \in Instances : j # i => Held(j)' = Held(j)
  <2>1. TypeOK BY DEF ControlInv
  <2>2. \A r \in Requests : request[r].st \in {"waiting", "done"}
                              => request[r].conn = request[r].by
    BY DEF RequestInv
  <2>3. \A r \in Requests :
          /\ request'[r].by = request[r].by
          /\ IF request[r].conn = i /\ request[r].st \in {"waiting", "done"}
               THEN request'[r].st = "dropped" ELSE request'[r].st = request[r].st
    BY <1>1, <2>1, DroppedRequests
  <2> QED BY <2>2, <2>3 DEF Held
<1>5. pendings' = [pendings EXCEPT ![i] = {}] BY <1>4, PendingChanges
<1> QED BY <1>2, <1>3, <1>5 DEF Contract!End, pendings

LEMMA AskMaps ==
  ASSUME ControlInv, RequestInv, RequestInv', NEW i \in Instances,
         NEW kind \in CallKinds, Post(i, kind)
  PROVE  Contract!Ask(i, kind)
<1>1. i \notin Ended BY IdleNotCancelled DEF Post, Idle, Ended
<1>2. UNCHANGED <<request, got, made, cancelled, main>> BY DEF Post, answerVars
<1>3. \A j \in Instances : Held(j)' = Held(j) BY <1>2 DEF Held
<1>4. pendings' = pendings BY <1>3, PendingStays
<1>5. Ended' = Ended BY <1>2 DEF Ended
<1> QED BY <1>1, <1>2, <1>4, <1>5 DEF Post, Contract!Ask, pendings

LEMMA OthersMap ==
  ASSUME ControlInv, RegistryInv, RequestInv, RequestInv', ~orphaned',
         \/ Initialize \/ Initialized \/ Uninitialize \/ Uninitialized
         \/ Create \/ Created \/ Joined
         \/ \E i \in Instances :
              \/ Destroy(i) \/ DestroyNext(i) \/ Update(i)
              \/ Check(i) \/ Exchange(i) \/ Enter(i)
              \/ EnterWithoutManager(i) \/ EnterWhileChanging(i) \/ LeaveDestroyed(i)
         \/ Lost
  PROVE  UNCHANGED <<pendings, got, asked, made, Ended>>
<1> USE DEF registryVars, nativeVars, listVars, callVars, answerVars, Doing, Rest,
            Alive, Idle
<1>0. TypeOK /\ MainInv /\ \A i \in Instances : HostInv(i) BY DEF ControlInv
<1>1. UNCHANGED <<got, asked, made>>
  BY DEF Initialize, Initialized, Uninitialize, Uninitialized, Create, Created,
     Joined, Destroy, DestroyNext, Update, Check, Exchange, Enter,
     EnterWithoutManager, EnterWhileChanging, LeaveDestroyed, Crash, Lost, vars
<1>2. \A r \in Requests : request'[r] = request[r]
  <2>1. CASE Initialize \/ Uninitialized
    <3>1. \A i \in Instances : ~Kept(i)
      BY <1>0, <2>1, HostAssumption DEF Initialize, Uninitialized, Kept, ToDestroy, MainInv
    <3> QED BY <2>1, <3>1, NothingHeld DEF Initialize, Uninitialized, Dropped
  <2>2. CASE ~Initialize /\ ~Uninitialized
    BY <2>2 DEF Initialized, Uninitialize, Create, Created, Joined, Destroy,
       DestroyNext, Update, Check, Exchange, Enter, EnterWithoutManager,
       EnterWhileChanging, LeaveDestroyed, Crash, Lost, vars
  <2> QED BY <2>1, <2>2
<1>3. \A j \in Instances : Held(j)' = Held(j) BY <1>2 DEF Held
<1>4. pendings' = pendings BY <1>3, PendingStays
<1>5. Ended' = Ended
  <2>1. CASE Initialize \/ Initialized \/ Uninitialize \/ Uninitialized
    <3>1. main.of = Nobody /\ main'.of = Nobody /\ UNCHANGED cancelled
      BY <1>0, <2>1 DEF Initialize, Initialized, Uninitialize, Uninitialized, MainInv
    <3> QED BY <3>1 DEF Ended
  <2>2. CASE Create
    <3>1. (CHOOSE i \in Fresh : TRUE) \in Fresh BY <2>2 DEF Create
    <3> DEFINE new == CHOOSE i \in Fresh : TRUE
    <3>2. new \in Instances /\ ~cancelled[new] BY <1>0, <3>1 DEF Fresh, HostInv
    <3>3. main.of = Nobody /\ main'.of = new /\ UNCHANGED cancelled
      BY <1>0, <2>2 DEF Create, MainInv
    <3> HIDE DEF new
    <3> QED BY <3>2, <3>3, HostAssumption DEF Ended
  <2>3. CASE Created
    <3>1. PICK i \in Instances : i = main.of /\ ~cancelled[i]
      BY <1>0, <2>3 DEF Created, MainInv, HostInv
    <3>2. main'.of = Nobody /\ UNCHANGED cancelled BY <2>3 DEF Created
    <3> QED BY <3>1, <3>2, HostAssumption DEF Ended
  <2>4. CASE Joined
    <3>1. main'.of = main.of /\ UNCHANGED cancelled
      BY <1>0, <2>4 DEF Joined, TypeOK, Mains
    <3> QED BY <3>1 DEF Ended
  <2>5. ASSUME NEW i \in Instances, Destroy(i) \/ DestroyNext(i) PROVE Ended' = Ended
    <3>1. /\ main.of = Nobody /\ main'.of = i
          /\ cancelled' = [cancelled EXCEPT ![i] = TRUE]
      BY <1>0, <2>5 DEF Destroy, DestroyNext, Cancel, MainInv
    <3>2. ~cancelled[i]
      BY <2>5, IdleNotCancelled DEF Destroy, DestroyNext, ToDestroy
    <3> QED BY <1>0, <3>1, <3>2, HostAssumption DEF Ended, TypeOK
  <2>6. ASSUME NEW i \in Instances, Update(i) PROVE Ended' = Ended
    <3>1. main.of = Nobody /\ main'.of = i /\ UNCHANGED cancelled /\ ~cancelled[i]
      BY <1>0, <2>6, IdleNotCancelled DEF Update, MainInv
    <3> QED BY <3>1, HostAssumption DEF Ended
  <2>7. CASE \/ \E i \in Instances :
                  \/ Check(i) \/ Exchange(i) \/ Enter(i) \/ EnterWithoutManager(i)
                  \/ EnterWhileChanging(i) \/ LeaveDestroyed(i)
             \/ Lost
    <3>1. UNCHANGED <<cancelled, main>>
      BY <2>7 DEF Check, Exchange, Enter, EnterWithoutManager, EnterWhileChanging,
         LeaveDestroyed, Crash, Lost, vars
    <3> QED BY <3>1 DEF Ended
  <2> QED BY <2>1, <2>2, <2>3, <2>4, <2>5, <2>6, <2>7
<1> QED BY <1>1, <1>4, <1>5

ContractInv == ControlInv /\ FlagInv /\ SafeInv /\ LiveInv

LEMMA ContractInvHolds == Spec => []ContractInv
<1>1. Init => ContractInv
  <2>1. Init => LiveInv
    BY HostAssumption DEF Init, LiveInv, RequestInv
  <2>2. Init => SafeInv
    BY HostAssumption, NoIdIsNone
    DEF Init, SafeInv, RegistryInv, Kept, Listed, Stopped, Point
  <2> QED BY <2>1, <2>2, ControlInit, FlagInit DEF ContractInv
<1>2. ContractInv /\ [Next]_vars => ContractInv'
  <2> SUFFICES ASSUME ContractInv, [Next]_vars PROVE ContractInv'
    OBVIOUS
  <2>1. ControlInv' /\ FlagInv' /\ SafeInv'
    BY ControlStep, FlagStep, RegistryStep DEF ContractInv
  <2>2. LiveInv'
    <3>1. SUFFICES ASSUME ~orphaned' PROVE RequestInv' BY DEF LiveInv
    <3>2. ~orphaned
      BY <3>1, OrphanedStays DEF ContractInv, ControlInv
    <3> QED BY <3>1, <3>2, RequestStep DEF ContractInv, SafeInv, LiveInv
  <2> QED BY <2>1, <2>2 DEF ContractInv
<1> QED BY <1>1, <1>2, PTL DEF Spec

(* The C# layer implements the contract of each host.                      *)
THEOREM HostsImplementContract == Spec => ImplementsContract
<1>1. Init => Contract!Init
  <2> SUFFICES ASSUME Init PROVE Contract!Init
    OBVIOUS
  <2>1. \A i \in Instances : Unanswered(i) = {}
    BY HostAssumption DEF Init, Unanswered
  <2>2. Ended = {} BY DEF Init, Ended
  <2> QED BY <2>1, <2>2 DEF Init, Contract!Init
<1>2. ContractInv /\ ContractInv' /\ [Next]_vars
        => [Contract!Next \/ orphaned']_(Contract!contract)
  <2> SUFFICES ASSUME ContractInv, ContractInv', [Next]_vars, ~orphaned'
               PROVE  Contract!Next \/ UNCHANGED Contract!contract
    OBVIOUS
  <2>1. ~orphaned
    BY OrphanedStays DEF ContractInv, ControlInv
  <2>2. ControlInv /\ FlagInv /\ RegistryInv /\ RequestInv /\ RequestInv'
    BY <2>1 DEF ContractInv, SafeInv, LiveInv
  <2>3. UNCHANGED <<pendings, got, asked, made, Ended>> => UNCHANGED Contract!contract
    BY DEF Contract!contract, pendings
  <2>4. ASSUME NEW i \in Instances, NEW new \in SUBSET Requests, PublishRequest(i, new)
        PROVE  Contract!Next
    BY <2>2, <2>4, PublishMaps DEF Contract!Next
  <2>5. CASE IssueCallbacks
    BY <2>2, <2>5, ReturnMaps DEF Contract!Next
  <2>6. ASSUME NEW i \in Instances, Leave(i)
        PROVE  Contract!Next \/ UNCHANGED Contract!contract
    BY <2>2, <2>3, <2>6, LeaveMaps DEF Contract!Next
  <2>7. CASE Destroyed
    BY <2>2, <2>7, EndMaps DEF Contract!Next
  <2>8. ASSUME NEW i \in Instances, NEW kind \in CallKinds, Post(i, kind)
        PROVE  Contract!Next
    BY <2>2, <2>8, AskMaps DEF Contract!Next
  <2>9. CASE UNCHANGED vars
    <3>1. \A j \in Instances : Held(j)' = Held(j) BY <2>9 DEF vars, Held
    <3>2. pendings' = pendings BY <2>2, <3>1, PendingStays
    <3>3. Ended' = Ended BY <2>9 DEF vars, Ended
    <3> QED BY <2>3, <2>9, <3>2, <3>3 DEF vars, callVars, answerVars
  <2>10. CASE \/ Initialize \/ Initialized \/ Uninitialize \/ Uninitialized
              \/ Create \/ Created \/ Joined
              \/ \E i \in Instances :
                   \/ Destroy(i) \/ DestroyNext(i) \/ Update(i)
                   \/ Check(i) \/ Exchange(i) \/ Enter(i)
                   \/ EnterWithoutManager(i) \/ EnterWhileChanging(i) \/ LeaveDestroyed(i)
              \/ Lost
    BY <2>2, <2>3, <2>10, OthersMap
  <2> QED
    BY <2>4, <2>5, <2>6, <2>7, <2>8, <2>9, <2>10
    DEF Next, Library, Continue, Application, UpdateThread
<1> QED BY <1>1, <1>2, ContractInvHolds, PTL DEF Spec, ImplementsContract
=============================================================================
