---------------------------- MODULE MCBacktests ----------------------------
(* Instances of Backtests for TLC: a universe of two stocks, four days, prices
   that halve or double, a window of two days. *)
EXTENDS Backtests

CONSTANTS s1, s2

MCPlace == [s \in Stocks |-> IF s = s1 THEN 1 ELSE 2]

(* The volume follows the price, and one series is too short for the window. *)
MCSeries == {[i \in 1..4 |-> [close |-> c[i], volume |-> c[i]]] : c \in [1..4 -> {1, 2}]}
            \cup {<<[close |-> 1, volume |-> 1]>>}
=============================================================================
