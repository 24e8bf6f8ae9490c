------------------------- MODULE MCRecommendations -------------------------
(* Instances of Recommendations for TLC. *)
EXTENDS Recommendations, TLC

Query(n, s) == [limit |-> n, sector |-> None, sort |-> s, min_score |-> None]

(* The default query, and one that shares no key with it. *)
TwoQueries == {Query(10, "score"), Query(5, "score")}

ReaderSymmetry == Permutations(Readers)
=============================================================================
