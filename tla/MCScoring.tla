----------------------------- MODULE MCScoring ------------------------------
(* An instance of Scoring for TLC: a crash, a calm day and a rally. *)
EXTENDS Scoring, TLC

MCSentiments == {-1, 0, 1}
MCQuotes == {[change |-> -12, volume |-> 0], [change |-> 1, volume |-> 7], [change |-> 30, volume |-> 60]}
Symmetry == Permutations(Stocks)
=============================================================================
