------------------------ MODULE MCPortfolioReports --------------------------
(* An instance of PortfolioReports for TLC. *)
EXTENDS PortfolioReports, TLC

MCRows == {[krx_code |-> "a", quantity |-> 2, avg_buy_price |-> 1],
           [krx_code |-> "b", quantity |-> 1, avg_buy_price |-> 3]}
MCSectors == [c \in {"a", "b"} |-> IF c = "a" THEN "semiconductors" ELSE "cars"]
MCInfos == {[dps |-> 1, dividend_yield |-> 2, ex_month |-> 4],
            [dps |-> Nothing, dividend_yield |-> 5, ex_month |-> Nothing],
            [dps |-> Nothing, dividend_yield |-> Nothing, ex_month |-> 4]}
Symmetry == Permutations(Readers) \cup Permutations(Slots)
=============================================================================
