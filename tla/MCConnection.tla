---------------------------- MODULE MCConnection ----------------------------
EXTENDS ConnectionProperties

(* Requests differ in nothing but their names. *)
Symmetric == Permutations(Requests)

=============================================================================
