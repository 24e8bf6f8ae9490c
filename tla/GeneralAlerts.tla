--------------------------- MODULE GeneralAlerts ---------------------------
(***************************************************************************)
(* The general alerts (target price, surge/drop, volume spike): the user's *)
(* CRUD on the `alerts` table, and check_and_trigger_all_alerts, which the *)
(* check_alerts job runs every ten minutes and which POST /alerts/check    *)
(* runs on demand.  Each execution of the check is a checker; it holds a   *)
(* database session of its own and yields to everything else at every      *)
(* await: after the SELECT, at each market data lookup, at each commit and *)
(* before each message it sends.                                           *)
(*                                                                         *)
(* One alert id stands for one row for ever: its owner, type and code are  *)
(* columns no update changes, and an id is not used again after a delete.   *)
(***************************************************************************)
EXTENDS NotificationInbox, AlertRules

CONSTANTS
  Alerts,        \* alert ids
  Checkers,      \* executions of the check that may overlap
  Codes,         \* krx codes
  OwnerOf,       \* [Alerts -> Users]
  TypeOf,        \* [Alerts -> AlertTypes]
  CodeOf,        \* [Alerts -> Codes]
  Values,        \* condition values a user may set
  UserDirections,\* condition directions a user may set
  Quotes,        \* market data records a lookup may return
  NoAlert,       \* "no alert in hand"
  MaxDay,        \* bound on the calendar
  MaxChurn,      \* bound on edits, preference changes and market moves
  MaxFailures    \* bound on database failures and process crashes

ASSUME AlertsAssumption ==
  /\ OwnerOf \in [Alerts -> Users]
  /\ TypeOf \in [Alerts -> AlertTypes]
  /\ CodeOf \in [Alerts -> Codes]
  /\ \A a \in Alerts : <<TypeOf[a], CodeOf[a]>> \in Topics
  /\ MaxDay \in Nat \ {0} /\ Days = 1..MaxDay
  /\ MaxChurn \in Nat /\ MaxFailures \in Nat
  /\ NoAlert \notin Alerts
  /\ NoQuote \notin Quotes
  /\ Values \subseteq Nat
  /\ UserDirections \subseteq Directions /\ "none" \in UserDirections

VARIABLES
  alerts,    \* the `alerts` table
  market,    \* what a market data lookup returns now, per code
  open,      \* is it between 09:00 and 15:30 in Seoul?
  today,     \* the date
  muted,     \* <<user, type, channel>> switched off in the preferences
  run,       \* what each checker holds
  sent,      \* messages handed to the e-mail and telegram senders so far
  churn, failures   \* bounds

vars == <<inbox, alerts, market, open, today, muted, run, sent, churn, failures>>

Channels == {"email", "telegram"}

Row == [status : {"unborn", "live", "deleted"}, is_active : BOOLEAN,
        is_triggered : BOOLEAN, triggered_on : 0..MaxDay,
        condition_value : Values \cup {0}, condition_direction : Directions]

Unborn == [status |-> "unborn", is_active |-> FALSE, is_triggered |-> FALSE,
           triggered_on |-> 0, condition_value |-> 0, condition_direction |-> "none"]

(* A checker: where it is, the selected alerts still to look at, the rows as
   its session loaded them, the alert in hand, the date it started on, and
   whether its transaction is in the failed state. *)
CheckerState ==
  [pc : {"idle", "loop", "write", "email", "telegram"}, todo : SUBSET Alerts,
   mem : [Alerts -> Row], cur : Alerts \cup {NoAlert}, now : Days, broken : BOOLEAN]

Idle == [pc |-> "idle", todo |-> {}, mem |-> [a \in Alerts |-> Unborn],
         cur |-> NoAlert, now |-> 1, broken |-> FALSE]

Live(a) == alerts[a].status = "live"

(* The key of the inbox row an alert that triggers on day d is entitled to. *)
InboxKey(a, d) == <<OwnerOf[a], <<TypeOf[a], CodeOf[a]>>, d>>

Init ==
  /\ InboxInit
  /\ alerts = [a \in Alerts |-> Unborn]
  /\ market \in [Codes -> Quotes \cup {NoQuote}]
  /\ open = TRUE
  /\ today = 1
  /\ muted = {}
  /\ run = [c \in Checkers |-> Idle]
  /\ sent = [a \in Alerts |-> [ch \in Channels |-> 0]]
  /\ churn = 0
  /\ failures = 0
-----------------------------------------------------------------------------
(***************************************************************************)
(* The user: alerts, preferences, inbox.                                   *)
(***************************************************************************)
Churn == churn < MaxChurn /\ churn' = churn + 1

(* create_alert: a surge_drop alert without a direction gets "either". *)
CreateAlert(a) ==
  /\ alerts[a].status = "unborn"
  /\ \E v \in Values, d \in UserDirections :
       alerts' = [alerts EXCEPT ![a] =
         [Unborn EXCEPT !.status = "live", !.is_active = TRUE, !.condition_value = v,
           !.condition_direction =
              IF TypeOf[a] = "surge_drop" /\ d = "none" THEN "either" ELSE d]]
  /\ UNCHANGED <<inbox, market, open, today, muted, run, sent, churn, failures>>

(* Mutant: an edit re-arms the alert. *)
UpdateAlertRearms(a) ==
  /\ Live(a)
  /\ Churn
  /\ \E v \in Values, act \in BOOLEAN :
       alerts' = [alerts EXCEPT ![a].is_active = act, ![a].condition_value = v,
                                ![a].is_triggered = FALSE]
  /\ UNCHANGED <<inbox, market, open, today, muted, run, sent, failures>>

(* update_alert sets the fields the request carries (a null field is left
   alone); is_triggered is not among them. *)
UpdateAlert(a) ==
  /\ Live(a)
  /\ Churn
  /\ \E v \in Values \cup {alerts[a].condition_value},
        d \in (UserDirections \ {"none"}) \cup {alerts[a].condition_direction},
        act \in BOOLEAN :
       alerts' = [alerts EXCEPT ![a].is_active = act, ![a].condition_value = v,
                                ![a].condition_direction = d]
  /\ UNCHANGED <<inbox, market, open, today, muted, run, sent, failures>>

(* Mutant: deleting the alert deletes the notifications it made. *)
DeleteAlertCascades(a) ==
  /\ Live(a)
  /\ Churn
  /\ alerts' = [alerts EXCEPT ![a] = [Unborn EXCEPT !.status = "deleted"]]
  /\ inbox' = [k \in Keys |-> IF \E d \in Days : k = InboxKey(a, d) THEN "absent" ELSE inbox[k]]
  /\ UNCHANGED <<market, open, today, muted, run, sent, failures>>

DeleteAlert(a) ==
  /\ Live(a)
  /\ Churn
  /\ alerts' = [alerts EXCEPT ![a] = [Unborn EXCEPT !.status = "deleted"]]
  /\ UNCHANGED <<inbox, market, open, today, muted, run, sent, failures>>

(* upsert_preferences for one (user, type): a channel is on unless a row says
   otherwise (is_channel_enabled_async). *)
SetPreference ==
  /\ Churn
  /\ \E u \in Users, t \in {TypeOf[a] : a \in Alerts}, ch \in Channels :
       muted' \in {muted \cup {<<u, t, ch>>}, muted \ {<<u, t, ch>>}}
  /\ UNCHANGED <<inbox, alerts, market, open, today, run, sent, failures>>

ReadInbox ==
  /\ \E u \in Users : MarkAsRead(u) \/ MarkAllRead(u)
  /\ UNCHANGED <<alerts, market, open, today, muted, run, sent, churn, failures>>

(***************************************************************************)
(* The environment: prices, trading hours, the calendar.                   *)
(***************************************************************************)
MarketMoves ==
  /\ Churn
  /\ \E k \in Codes, q \in Quotes \cup {NoQuote} : market' = [market EXCEPT ![k] = q]
  /\ UNCHANGED <<inbox, alerts, open, today, muted, run, sent, failures>>

MarketOpens ==
  /\ ~open
  /\ open' = TRUE
  /\ UNCHANGED <<inbox, alerts, market, today, muted, run, sent, churn, failures>>

MarketCloses ==
  /\ open
  /\ open' = FALSE
  /\ UNCHANGED <<inbox, alerts, market, today, muted, run, sent, churn, failures>>

NextDay ==
  /\ today < MaxDay
  /\ ~open
  /\ today' = today + 1
  /\ UNCHANGED <<inbox, alerts, market, open, muted, run, sent, churn, failures>>
-----------------------------------------------------------------------------
(* Mutant: the SELECT forgets is_triggered. *)
SelectedTwice == {a \in Alerts : Live(a) /\ alerts[a].is_active}

(***************************************************************************)
(* check_and_trigger_all_alerts.                                           *)
(***************************************************************************)
Selected == {a \in Alerts : Live(a) /\ alerts[a].is_active /\ ~alerts[a].is_triggered}

(* The gate, then the SELECT.  Outside trading hours the check returns 0 and
   changes nothing, so only the open case is a step. *)
StartCheck(c) ==
  /\ run[c].pc = "idle"
  /\ open
  /\ run' = [run EXCEPT ![c] =
       [pc |-> "loop", todo |-> Selected,
        mem |-> [a \in Alerts |-> IF a \in Selected THEN alerts[a] ELSE Unborn],
        cur |-> NoAlert, now |-> today, broken |-> FALSE]]
  /\ UNCHANGED <<inbox, alerts, market, open, today, muted, sent, churn, failures>>

(* Mutant: the messages go out without waiting for the write. *)
EvaluateSendsFirst(c) ==
  /\ run[c].pc = "loop"
  /\ \E a \in run[c].todo :
       LET fires == Fires(TypeOf[a], run[c].mem[a], market[CodeOf[a]])
       IN  run' = [run EXCEPT ![c].pc = IF fires THEN "email" ELSE "loop",
             ![c].todo = @ \ {a}, ![c].mem[a] = Unborn,
             ![c].cur = IF fires THEN a ELSE NoAlert]
  /\ UNCHANGED <<inbox, alerts, market, open, today, muted, sent, churn, failures>>

(* The next alert of the list (the SELECT states no order): await its market
   data and decide on the row as it was loaded.  A failed lookup or an
   unimplemented type goes on to the next alert. *)
Evaluate(c) ==
  /\ run[c].pc = "loop"
  /\ \E a \in run[c].todo :
       LET fires == Fires(TypeOf[a], run[c].mem[a], market[CodeOf[a]])
       IN  run' = [run EXCEPT ![c] =
             [pc |-> IF fires THEN "write" ELSE "loop", todo |-> run[c].todo \ {a},
              mem |-> [run[c].mem EXCEPT ![a] = Unborn],
              cur |-> IF fires THEN a ELSE NoAlert,
              now |-> run[c].now, broken |-> run[c].broken]]
  /\ UNCHANGED <<inbox, alerts, market, open, today, muted, sent, churn, failures>>

FinishCheck(c) ==
  /\ run[c].pc = "loop"
  /\ run[c].todo = {}
  /\ run' = [run EXCEPT ![c] = Idle]
  /\ UNCHANGED <<inbox, alerts, market, open, today, muted, sent, churn, failures>>

(* The committed transaction: UPDATE alerts ... WHERE id = a, which matches no
   row when the alert is gone and asks nothing else of the row, and the INSERT
   into the inbox.  Their effects become visible together. *)
Triggered(a, d) ==
  /\ alerts' = [alerts EXCEPT ![a] =
       IF @.status = "live" THEN [@ EXCEPT !.is_triggered = TRUE, !.triggered_on = d] ELSE @]
  /\ inbox' = WithRows(inbox, {InboxKey(a, d)})

Trigger(c) ==
  /\ run[c].pc = "write"
  /\ ~run[c].broken
  /\ Triggered(run[c].cur, run[c].now)
  /\ run' = [run EXCEPT ![c].pc = "email"]
  /\ UNCHANGED <<market, open, today, muted, sent, churn, failures>>

(* Mutants: UPDATE and INSERT in transactions of their own; no rollback, and
   the write is tried for ever on the failed transaction. *)
TriggerHalfDone(c) ==
  /\ run[c].pc = "write"
  /\ failures < MaxFailures
  /\ failures' = failures + 1
  /\ alerts' = [alerts EXCEPT ![run[c].cur].is_triggered = Live(run[c].cur),
                              ![run[c].cur].triggered_on = run[c].now]
  /\ run' = [run EXCEPT ![c] = Idle]
  /\ UNCHANGED <<inbox, market, open, today, muted, sent, churn>>

TriggerRetriesForEver(c) ==
  /\ run[c].pc = "write"
  /\ run[c].broken \/ failures < MaxFailures
  /\ failures' = IF run[c].broken THEN failures ELSE failures + 1
  /\ run' = [run EXCEPT ![c].broken = TRUE]
  /\ UNCHANGED <<inbox, alerts, market, open, today, muted, sent, churn>>

(* A statement or the commit of that transaction fails.  The handler rolls
   back; when it was the commit's answer that was lost the server may have
   committed.  The rollback expires every row the session loaded, so the loop's
   test of is_triggered on the next alert raises outside the try and ends the
   whole check; with no alert left it returns.  Both end the run. *)
TriggerFails(c) ==
  /\ run[c].pc = "write"
  /\ \/ run[c].broken /\ UNCHANGED <<alerts, inbox, failures>>
     \/ /\ ~run[c].broken
        /\ failures < MaxFailures
        /\ failures' = failures + 1
        /\ \/ UNCHANGED <<alerts, inbox>>
           \/ Triggered(run[c].cur, run[c].now)
  /\ run' = [run EXCEPT ![c] = Idle]
  /\ UNCHANGED <<market, open, today, muted, sent, churn>>

(* What c holds once it is done with a channel: on to telegram with the same
   alert, or back to the loop. *)
AfterChannel(c, ch, broken) ==
  LET last == ch = "telegram"
  IN  [run EXCEPT ![c] =
         [pc |-> IF last THEN "loop" ELSE "telegram", todo |-> run[c].todo,
          mem |-> run[c].mem, cur |-> IF last THEN NoAlert ELSE run[c].cur,
          now |-> run[c].now, broken |-> broken]]

(* _try_send_alert_email, then _try_send_telegram: the preference is read when
   the message is about to go out.  Whether the mail server or telegram takes
   it makes no difference to the check. *)
Send(c, ch) ==
  /\ run[c].pc = ch
  /\ ~run[c].broken
  /\ sent' = IF <<OwnerOf[run[c].cur], TypeOf[run[c].cur], ch>> \in muted
             THEN sent ELSE [sent EXCEPT ![run[c].cur][ch] = @ + 1]
  /\ run' = AfterChannel(c, ch, FALSE)
  /\ UNCHANGED <<inbox, alerts, market, open, today, muted, churn, failures>>

(* The subscription cannot be read: swallowed, nothing is sent, and the
   session's transaction stays failed for whatever comes next. *)
SendFails(c, ch) ==
  /\ run[c].pc = ch
  /\ \/ run[c].broken /\ UNCHANGED failures
     \/ ~run[c].broken /\ failures < MaxFailures /\ failures' = failures + 1
  /\ run' = AfterChannel(c, ch, TRUE)
  /\ UNCHANGED <<inbox, alerts, market, open, today, muted, sent, churn>>

(* The process that hosts the scheduler and the API stops and is restarted. *)
Crash ==
  /\ failures < MaxFailures
  /\ failures' = failures + 1
  /\ run' = [c \in Checkers |-> Idle]
  /\ UNCHANGED <<inbox, alerts, market, open, today, muted, sent, churn>>
-----------------------------------------------------------------------------
User == \/ \E a \in Alerts : CreateAlert(a) \/ UpdateAlert(a) \/ DeleteAlert(a)
        \/ SetPreference
        \/ ReadInbox

Environment == MarketMoves \/ MarketOpens \/ MarketCloses \/ NextDay \/ Crash

Checker(c) == \/ StartCheck(c) \/ Evaluate(c) \/ FinishCheck(c)
              \/ Trigger(c) \/ TriggerFails(c)
              \/ \E ch \in Channels : Send(c, ch) \/ SendFails(c, ch)

Next == User \/ Environment \/ (\E c \in Checkers : Checker(c))

Spec == Init /\ [][Next]_vars

(***************************************************************************)
(* A check that has started goes on, and trading days come.  The job fires *)
(* every ten minutes and a trading day lasts hours, so a start that is     *)
(* possible again and again happens: strong fairness.                      *)
(***************************************************************************)
Fairness ==
  /\ WF_vars(MarketOpens)
  /\ \A c \in Checkers :
       /\ SF_vars(StartCheck(c))
       /\ WF_vars(Evaluate(c)) /\ WF_vars(FinishCheck(c))
       /\ WF_vars(Trigger(c) \/ TriggerFails(c))
       /\ \A ch \in Channels : WF_vars(Send(c, ch) \/ SendFails(c, ch))

FairSpec == Spec /\ Fairness
-----------------------------------------------------------------------------
TypeOK ==
  /\ InboxTypeOK
  /\ alerts \in [Alerts -> Row]
  /\ market \in [Codes -> Quotes \cup {NoQuote}]
  /\ open \in BOOLEAN
  /\ today \in Days
  /\ muted \subseteq Users \X AlertTypes \X Channels
  /\ run \in [Checkers -> CheckerState]
  /\ sent \in [Alerts -> [Channels -> Nat]]
  /\ churn \in 0..MaxChurn
  /\ failures \in 0..MaxFailures

(***************************************************************************)
(* An alert that says it has triggered has its row in the owner's inbox,   *)
(* whatever the interleaving of checks, edits, crashes and half-answered   *)
(* commits: UPDATE and INSERT share the transaction of                     *)
(* check_and_trigger_all_alerts.                                           *)
(***************************************************************************)
TriggeredHasInbox ==
  \A a \in Alerts : alerts[a].is_triggered =>
    inbox[InboxKey(a, alerts[a].triggered_on)] # "absent"

(***************************************************************************)
(* Nobody is mailed or messaged about an alert their inbox knows nothing   *)
(* of: the send helpers run after the commit.                              *)
(***************************************************************************)
SendAfterCommit ==
  \A a \in Alerts, ch \in Channels : sent[a][ch] > 0 =>
    \E d \in Days : inbox[InboxKey(a, d)] # "absent"

(***************************************************************************)
(* An alert is mailed at most once and messaged at most once in its life.   *)
(* It holds while one check runs at a time; two overlapping checks break   *)
(* it, because the UPDATE does not ask whether the row is still untriggered.*)
(***************************************************************************)
AtMostOneSend == \A a \in Alerts, ch \in Channels : sent[a][ch] =< 1

(***************************************************************************)
(* is_triggered is a latch: no edit by the owner and no check, however     *)
(* stale its session, resets it while the alert exists.                    *)
(***************************************************************************)
TriggeredIsLatched ==
  [][\A a \in Alerts : alerts[a].is_triggered /\ alerts'[a].status = "live"
       => alerts'[a].is_triggered]_vars

(***************************************************************************)
(* An active alert whose condition stays met is triggered in the end,      *)
(* through aborted checks, lost transactions and restarts.                 *)
(***************************************************************************)
Due(a) == /\ Live(a) /\ alerts[a].is_active
          /\ Fires(TypeOf[a], alerts[a], market[CodeOf[a]])

EventuallyTriggers ==
  \A a \in Alerts : <>[]Due(a) => <>(alerts[a].is_triggered)
=============================================================================
