------------------------------ MODULE MCTransfer ------------------------------
EXTENDS TransferProperties

(* Bodies of one or two chunks. *)
CONSTANTS r1, r2
MCLength == (r1 :> 2) @@ (r2 :> 2)
=============================================================================
