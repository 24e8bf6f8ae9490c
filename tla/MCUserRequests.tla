-------------------------- MODULE MCUserRequests --------------------------
(* An instance of UserRequests for TLC. *)
EXTENDS UserRequests

Symmetry == Permutations(Requests)
=============================================================================
