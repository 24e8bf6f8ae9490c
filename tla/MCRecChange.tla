---------------------------- MODULE MCRecChange ----------------------------
(* Instances of RecChange for TLC. *)
EXTENDS RecChange, TLC

MCTopics == Types \X Codes
MCDays == 1..MaxDay

CodeSymmetry == Permutations(Codes)
=============================================================================
