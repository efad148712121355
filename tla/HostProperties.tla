---------------------------- MODULE HostProperties ----------------------------
(***************************************************************************)
(* What the C# layer and the registry of connections promise.              *)
(***************************************************************************)
EXTENDS Host

(* A native call works in a connection that exists, of a manager that      *)
(* exists.  Destroy frees both without the lock and without a look at the  *)
(* update thread but for the wait before it.  The exception is the second  *)
(* Initialize, which deletes connections that update threads are using.    *)
NoUseAfterDestroy == fault \in {"connection", "manager"} => orphaned

(* Each id is driven by one update thread at most, even after a second     *)
(* Initialize, which starts the ids again while the threads of the first   *)
(* go on: two threads with two locks would be inside one connection.       *)
OneThreadPerId ==
  \A i, j \in Instances :
    Running(i) /\ Running(j) /\ hostId[i] = hostId[j] => i = j

(* A call of Retry, Abort or Reconnect is not lost between the main thread *)
(* that sets a flag and the update thread that resets it: as long as no    *)
(* native call has begun since, the flag is set or the call is next.       *)
NoCallLost ==
  \A i \in Instances : \A k \in owed[i] :
    \/ k \in flag[i]
    \/ thread[i].at = "enter" /\ thread[i].call = k

(* The requests published by i that are held for it: by a connection, or   *)
(* in a list of responses no Update has returned yet.                      *)
Unanswered(i) ==
  {r \in Requests : /\ request[r].by = i
                    /\ \/ request[r].st \in {"waiting", "done"}
                       \/ r \in responses[hostId[i]] /\ got[i][r] = 0}

Ended == {i \in Instances : cancelled[i] /\ main.of # i}

Contract == INSTANCE HostContract WITH Hosts <- Instances,
              pending <- [i \in Instances |-> Unanswered(i)], ended <- Ended

(* The hosts implement the contract: responses are returned once, by the   *)
(* host they belong to, and nothing is discarded unasked, as long as the   *)
(* library is not initialized over hosts that are alive.                   *)
ImplementsContract ==
  /\ Contract!Init
  /\ [][Contract!Next \/ orphaned']_(Contract!contract)

(* A call of Retry, Abort or Reconnect reaches the connection, unless the  *)
(* host is destroyed first.                                                *)
CallsArrive ==
  \A i \in Instances, k \in Calls :
    (k \in owed[i]) ~> (k \notin owed[i] \/ cancelled[i] \/ ~Alive)

(* Destroy and Uninitialize return: the update thread, wherever it is,     *)
(* comes to the check of its token.                                        *)
DestroyEnds == (main.op \in {"joining", "uninitializing"})
                 ~> (main.op = "idle" \/ ~Alive)
=============================================================================
