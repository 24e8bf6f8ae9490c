-------------------------- MODULE MCGeneralAlerts --------------------------
(* Instances of GeneralAlerts for TLC: one user, one stock. *)
EXTENDS GeneralAlerts, TLC

CONSTANTS u1, k1, a1, a2, c1, c2

MCOwnerOf == [a \in Alerts |-> u1]
MCCodeOf == [a \in Alerts |-> k1]
MCTopics == {TypeOf[a] : a \in Alerts} \X {k1}
MCDays == 1..MaxDay
MCUserDirections == {"none"}

(* Two alerts of one kind compete for one inbox key. *)
SameType == [a \in Alerts |-> "target_price"]
(* One alert of a kind the check implements and one of a kind it skips. *)
MixedTypes == [a \in Alerts |-> IF a = a1 THEN "surge_drop" ELSE "ex_dividend"]

Quote(price, rate) ==
  [close_price |-> price, change_rate |-> rate, avg_volume |-> 1, today_volume |-> price]
OneQuote == {Quote(2, 2)}
TwoQuotes == {Quote(1, -2), Quote(2, 1)}

(* Sound with SameType: neither the alerts nor the checkers differ. *)
CheckerAndAlertSymmetry == Permutations(Checkers) \cup Permutations(Alerts)
=============================================================================
