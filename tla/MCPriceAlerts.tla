--------------------------- MODULE MCPriceAlerts ---------------------------
(* An instance of PriceAlerts for TLC: one user, one stock, alerts that share
   the inbox key of a day. *)
EXTENDS PriceAlerts

CONSTANTS u1, k1

MCOwnerOf == [a \in Alerts |-> u1]
MCCodeOf == [a \in Alerts |-> k1]
MCDays == 1..MaxDay
=============================================================================
