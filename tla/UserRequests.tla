---------------------------- MODULE UserRequests ----------------------------
(***************************************************************************)
(* The routes of a user's own data together: any of their requests may be  *)
(* in flight with any other, and a restart ends them all.                  *)
(***************************************************************************)
EXTENDS Advice, Portfolios, UserSettings

vars == <<reqVars, adviceVars, portfolioVars, settingsVars>>

Init == RequestsInit /\ AdviceInit /\ PortfoliosInit /\ SettingsInit

(* What was read and not yet written is gone; a mail request that was lost may
   have had its effect or not. *)
Restart ==
  /\ \E r \in Requests : req[r].op # "none"
  /\ req' = [r \in Requests |-> Free]
  /\ wishes' = IF MailInFlight = {} THEN wishes ELSE {}
  /\ UNCHANGED <<starts, adviceVars, holdings, optimized, had, presets, creating, mail, prefs>>
  /\ Remember

Next == \/ AdviceNext /\ UNCHANGED <<portfolioVars, settingsVars>>
        \/ PortfoliosNext /\ UNCHANGED <<adviceVars, settingsVars>>
        \/ SettingsNext /\ UNCHANGED <<adviceVars, portfolioVars>>
        \/ Restart

Spec == Init /\ [][Next]_vars
=============================================================================
