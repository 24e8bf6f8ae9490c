------------------------------- MODULE Advice -------------------------------
(***************************************************************************)
(* Investment advice: each route first looks for today's advice of its     *)
(* user and type, otherwise has one made and inserts it under the unique   *)
(* constraint (user, type, date).                                          *)
(***************************************************************************)
EXTENDS Requests

CONSTANTS
  AdviceKeys,     \* values of (user_id, advice_type, ref_date)
  NeedsHoldings,  \* those of types rebalance and risk_profile
  Advices         \* what the generators may return, {"error": ...} included

ASSUME AdviceAssumption == NeedsHoldings \subseteq AdviceKeys /\ Nothing \notin Advices

VARIABLES
  advice,    \* the table ai_advice
  watching,  \* whether the user has anything on the watch list
  shown      \* the advices the answers of each key have shown

adviceVars == <<advice, watching, shown>>

AdviceInit ==
  /\ advice = [k \in AdviceKeys |-> Nothing]
  /\ watching \in BOOLEAN
  /\ shown = [k \in AdviceKeys |-> {}]

(* _get_existing_advice: today's advice, or nothing, and the request goes on. *)
FindAdvice(r, k) ==
  /\ \/ advice[k] # Nothing /\ AnswerAtOnce(r) /\ shown' = [shown EXCEPT ![k] = @ \cup {advice[k]}]
     \/ advice[k] = Nothing /\ Begin(r, "advice", k, Nothing) /\ UNCHANGED shown
  /\ UNCHANGED <<advice, watching>>

(* _get_holdings reads the watch list, whose items have neither a price nor a
   quantity: build_holdings_summary raises unless the list is empty, which ends
   a request that needs holdings with a message.  So only the briefing of a user
   who watches nothing is ever made; its failure is an advice like another. *)
GenerateAdvice(r) ==
  /\ req[r].op = "advice"
  /\ req[r].seen = Nothing
  /\ IF watching \/ req[r].key \in NeedsHoldings THEN Answer(r) ELSE \E a \in Advices : Read(r, a)
  /\ UNCHANGED adviceVars

(* Mutant: a request that lost the race answers with what it has made. *)
SaveAdviceIgnoresConflict(r) ==
  /\ req[r].op = "advice"
  /\ req[r].seen # Nothing
  /\ LET k == req[r].key IN
     /\ advice' = [advice EXCEPT ![k] = IF @ = Nothing THEN req[r].seen ELSE @]
     /\ shown' = [shown EXCEPT ![k] = @ \cup {req[r].seen}]
  /\ Answer(r)
  /\ UNCHANGED watching

(* _save_advice: the second of two inserts breaks the constraint, a 500. *)
SaveAdvice(r) ==
  /\ req[r].op = "advice"
  /\ req[r].seen # Nothing
  /\ LET k == req[r].key IN
     IF advice[k] = Nothing
     THEN /\ advice' = [advice EXCEPT ![k] = req[r].seen]
          /\ shown' = [shown EXCEPT ![k] = @ \cup {req[r].seen}]
     ELSE UNCHANGED <<advice, shown>>
  /\ Answer(r)
  /\ UNCHANGED watching

(* add_to_watchlist and remove_from_watchlist. *)
ChangeWatchlist ==
  /\ watching' = ~watching
  /\ UNCHANGED <<advice, shown, reqVars>>

AdviceNext ==
  \/ \E r \in Requests : GenerateAdvice(r) \/ SaveAdvice(r) \/ \E k \in AdviceKeys : FindAdvice(r, k)
  \/ ChangeWatchlist

(***************************************************************************)
(* All answers of one user, type and day show one advice, the stored one,  *)
(* however many requests find none and have one made (REQ-MB-001).         *)
(***************************************************************************)
OneAdviceADay == \A k \in AdviceKeys : shown[k] \subseteq {advice[k]}
=============================================================================
