-------------------------- MODULE TransferProperties --------------------------
(***************************************************************************)
(* What a connection and its host promise about the bytes of a response.   *)
(***************************************************************************)
EXTENDS Transfer

TransferTypeOK == TypeOK /\ BytesOK

(* The Stream holds data of one sending of its request only.               *)
SentOnce(r) == stream[r].body \in {"empty", "part"}

(* What is written into a buffer fits it, with and without a content-      *)
(* length, for a server that keeps to what it announces and a request      *)
(* whose data is of one sending.  (After a Reconnect it is not.)           *)
BodyFits ==
  \A r \in Requests \ Saved :
    SentOnce(r) => bytes[r].write <= bytes[r].capacity

(* A response handed to the application has all the bytes the server had,  *)
(* in its file too, if its data is of one sending.                         *)
BodyComplete ==
  \A r \in Requests :
    outcome[r] = "delivered" /\ SentOnce(r) =>
      /\ bytes[r].write = Length[r]
      /\ r \in Saved => file[r] = Length[r]

(* When a response is finished its file holds it, and nothing else: other  *)
(* than a body in memory, also if a Reconnect came in the middle.          *)
FileFinished ==
  [][\A r \in Saved :
       stream[r].status # "Completed" /\ stream'[r].status = "Completed"
         => file[r] = Length[r]]_transferVars

(* The progress values an application has been given when it receives a    *)
(* response contain the whole of it: nothing is left in the counter of a   *)
(* Stream that a callback destroys.                                        *)
ReportedBeforeDelivered ==
  \A r \in Requests : outcome[r] = "delivered" => told[r] = bytes[r].write

(* The total an application sees starts again from 0 only when no request  *)
(* is started.  The status Wait is taken for that, and set in several      *)
(* places; a new connection starts the total again too.  (A migration, or  *)
(* a Retry after a failed packet, sets the status over started requests.)  *)
TotalRestartsIdle ==
  [][total' < total => streams = <<>>]_transferVars
=============================================================================
