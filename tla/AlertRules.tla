----------------------------- MODULE AlertRules -----------------------------
(***************************************************************************)
(* The decisions of the alert jobs as operators: when a price, a change    *)
(* rate or a volume satisfies an alert, and when the market is open.        *)
(*                                                                         *)
(* An alert is any record with condition_value and condition_direction; a  *)
(* quote is a record of market data, or NoQuote when the lookup failed.     *)
(* Floats are abstracted to integers: only their order matters here.        *)
(***************************************************************************)
EXTENDS Integers

CONSTANT NoQuote   \* the None every failed market data lookup returns

(* condition_direction, where a missing one is stored as "none". *)
Directions == {"above", "below", "either", "none"}

Abs(x) == IF x < 0 THEN -x ELSE x

(* check_target_price: a missing direction means "above"; "either" matches
   neither branch and never fires. *)
CheckTargetPrice(alert, quote) ==
  /\ quote # NoQuote
  /\ \/ /\ alert.condition_direction \in {"above", "none"}
        /\ quote.close_price >= alert.condition_value
     \/ /\ alert.condition_direction = "below"
        /\ quote.close_price =< alert.condition_value

(* check_surge_drop: a missing direction means "either". *)
CheckSurgeDrop(alert, quote) ==
  /\ quote # NoQuote
  /\ \/ /\ alert.condition_direction = "above"
        /\ quote.change_rate >= alert.condition_value
     \/ /\ alert.condition_direction = "below"
        /\ quote.change_rate =< -alert.condition_value
     \/ /\ alert.condition_direction \in {"either", "none"}
        /\ Abs(quote.change_rate) >= alert.condition_value

(* check_volume_spike: today's volume is at least condition_value times the
   30-day average; an average that is not positive never fires. *)
CheckVolumeSpike(alert, quote) ==
  /\ quote # NoQuote
  /\ quote.avg_volume > 0
  /\ quote.today_volume >= alert.condition_value * quote.avg_volume

(* The branch on alert_type in check_and_trigger_all_alerts; ex_dividend is
   accepted at creation and skipped by the check. *)
AlertTypes == {"target_price", "surge_drop", "volume_spike", "ex_dividend"}

Fires(type, alert, quote) ==
  \/ type = "target_price" /\ CheckTargetPrice(alert, quote)
  \/ type = "surge_drop"   /\ CheckSurgeDrop(alert, quote)
  \/ type = "volume_spike" /\ CheckVolumeSpike(alert, quote)

(* evaluate_alert and the comparison inlined in evaluate_alerts, for the price
   alerts of the watch list, whose direction is "above" or "below". *)
EvaluateAlert(direction, target_price, price) ==
  \/ direction = "above" /\ price >= target_price
  \/ direction = "below" /\ price =< target_price
=============================================================================
