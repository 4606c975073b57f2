------------------------- MODULE MCRequestOperations -------------------------
(* Small instances of RequestOperations for TLC.                           *)
EXTENDS RequestOperations, TLC

(* Requests are interchangeable: nothing in the specification orders them. *)
Symmetry == Permutations(Requests)
=============================================================================
