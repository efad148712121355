--------------------------- MODULE RequestContract ---------------------------
(***************************************************************************)
(* What an application may rely on, whatever the network does: a request   *)
(* it publishes is pending until it is either delivered, once, or          *)
(* discarded by Abort; Abort discards all pending requests together; and   *)
(* nothing else, no error, shutdown, retry, reconnection or migration, has *)
(* a pending request disappear or a settled one come back.                 *)
(***************************************************************************)
CONSTANT Requests
VARIABLES pending, delivered, aborted

contract == <<pending, delivered, aborted>>

Known == pending \cup delivered \cup aborted

Init == pending = {} /\ delivered = {} /\ aborted = {}

Publish(r) ==
  /\ r \notin Known
  /\ pending' = pending \cup {r}
  /\ UNCHANGED <<delivered, aborted>>

Deliver(r) ==
  /\ r \in pending
  /\ pending' = pending \ {r}
  /\ delivered' = delivered \cup {r}
  /\ UNCHANGED aborted

DiscardAll ==
  /\ pending' = {}
  /\ aborted' = aborted \cup pending
  /\ UNCHANGED delivered

Next == DiscardAll \/ \E r \in Requests : Publish(r) \/ Deliver(r)

Spec == Init /\ [][Next]_contract
=============================================================================
