----------------------------- MODULE HostContract -----------------------------
(***************************************************************************)
(* What the C# layer promises for each host, whatever its update thread    *)
(* and the other hosts do: Update of the host that published a request     *)
(* returns its response, once, unless the request was discarded before: by *)
(* an Abort the application asked for, or with the host.  Retry, Abort and *)
(* Reconnect are made at most as often as they were asked for.             *)
(***************************************************************************)
EXTENDS Naturals
CONSTANTS Hosts, Requests, CallKinds
VARIABLES
  pending,      \* requests published and without a fate, by host
  got,          \* how often Update returned a response, by host
  asked, made,  \* calls asked for and made, by host and kind
  ended         \* the hosts that are destroyed

contract == <<pending, got, asked, made, ended>>

Init ==
  /\ pending = [h \in Hosts |-> {}]
  /\ got = [h \in Hosts |-> [r \in Requests |-> 0]]
  /\ asked = [h \in Hosts |-> [k \in CallKinds |-> 0]]
  /\ made = asked
  /\ ended = {}

(* A request is published once, to one host.                               *)
Fresh(r) == \A h \in Hosts : r \notin pending[h] /\ got[h][r] = 0

Publish(h, new) ==
  /\ h \notin ended
  /\ \A r \in new : Fresh(r)
  /\ pending' = [pending EXCEPT ![h] = @ \cup new]
  /\ UNCHANGED <<got, asked, made, ended>>

Return(h, answered) ==
  /\ answered \subseteq pending[h]
  /\ pending' = [pending EXCEPT ![h] = @ \ answered]
  /\ got' = [got EXCEPT ![h] =
               [r \in Requests |-> IF r \in answered THEN 1 ELSE @[r]]]
  /\ UNCHANGED <<asked, made, ended>>

Ask(h, k) ==
  /\ h \notin ended
  /\ asked' = [asked EXCEPT ![h][k] = @ + 1]
  /\ UNCHANGED <<pending, got, made, ended>>

(* An Abort discards what is pending, or is ignored.                       *)
Make(h, k) ==
  /\ h \notin ended
  /\ made[h][k] < asked[h][k]
  /\ made' = [made EXCEPT ![h][k] = @ + 1]
  /\ \/ k = "Abort" /\ pending' = [pending EXCEPT ![h] = {}]
     \/ UNCHANGED pending
  /\ UNCHANGED <<got, asked, ended>>

End(h) ==
  /\ h \notin ended
  /\ ended' = ended \cup {h}
  /\ pending' = [pending EXCEPT ![h] = {}]
  /\ UNCHANGED <<got, asked, made>>

Next ==
  \E h \in Hosts :
    \/ \E rs \in SUBSET Requests : Publish(h, rs) \/ Return(h, rs)
    \/ \E k \in CallKinds : Ask(h, k) \/ Make(h, k)
    \/ End(h)

Spec == Init /\ [][Next]_contract
=============================================================================
