---------------------------- MODULE PriceAlerts ----------------------------
(***************************************************************************)
(* The price alerts of the watch list: their CRUD, which the API serves in *)
(* threads, and check_price_alerts, which the scheduler runs every five    *)
(* minutes on the event loop.                                              *)
(*                                                                         *)
(* The job never awaits, so no coroutine runs beside it, but threads do:   *)
(* between any two of its database and network calls an owner may add or   *)
(* delete an alert.  The job loads the active rows once and keeps them as  *)
(* ORM objects; each commit expires all of them, and an expired object is   *)
(* read again when an attribute of it is next asked for.                   *)
(***************************************************************************)
EXTENDS NotificationInbox, AlertRules

CONSTANTS
  Alerts,      \* ids of watchlist_alerts; an id is not used again
  NoAlert,     \* "no alert": a related_alert_id that is NULL, nothing in hand
  OwnerOf,     \* [Alerts -> Users]
  CodeOf,      \* [Alerts -> Topics]: here a topic is a krx code
  Prices,      \* prices a lookup may return
  Targets,     \* target prices an owner may set
  MaxDay,      \* bound on the calendar
  MaxChurn,    \* bound on deletes, subscriptions and market moves
  MaxFailures  \* bound on database failures and restarts

ASSUME PriceAlertsAssumption ==
  /\ OwnerOf \in [Alerts -> Users] /\ CodeOf \in [Alerts -> Topics]
  /\ NoAlert \notin Alerts /\ NoQuote \notin Prices
  /\ Prices \subseteq Nat /\ Targets \subseteq Nat
  /\ MaxChurn \in Nat /\ MaxFailures \in Nat
  /\ MaxDay \in Nat \ {0} /\ Days = 1..MaxDay

VARIABLES
  alerts,       \* the table watchlist_alerts
  related,      \* related_alert_id of the inbox rows
  subscribed,   \* <<user, channel>> with an active subscription
  price,        \* what get_current_price returns now, per code
  today,        \* utcnow().date()
  job,          \* the run of check_price_alerts, if any
  sent,         \* messages sent about each alert on each channel
  churn, failures   \* bounds

vars == <<inbox, alerts, related, subscribed, price, today, job, sent, churn, failures>>

Channels == {"telegram", "email"}

(* ref_date is history: the day of the inbox row that came with the firing, 0
   before.  The column triggered_at is a second look at the clock. *)
Row == [status : {"unborn", "active", "fired", "deleted"},
        direction : {"above", "below"}, target_price : Targets \cup {0}, ref_date : 0..MaxDay]

Unborn == [status |-> "unborn", direction |-> "above", target_price |-> 0, ref_date |-> 0]

(* The run: where it is, the alerts still to come, the alert in hand, and
   whether the rows are still as the SELECT loaded them (no commit since). *)
JobState == [pc : {"idle", "loop", "telegram", "email", "write"},
             todo : SUBSET Alerts, cur : Alerts \cup {NoAlert}, fresh : BOOLEAN]

Idle == [pc |-> "idle", todo |-> {}, cur |-> NoAlert, fresh |-> TRUE]

Exists(a) == alerts[a].status \in {"active", "fired"}

InboxKey(a, d) == <<OwnerOf[a], CodeOf[a], d>>

Init ==
  /\ InboxInit
  /\ alerts = [a \in Alerts |-> Unborn]
  /\ related = [k \in Keys |-> NoAlert]
  /\ subscribed \in SUBSET (Users \X Channels)
  /\ price \in [Topics -> Prices \cup {NoQuote}]
  /\ today = 1
  /\ job = Idle
  /\ sent = [a \in Alerts |-> [ch \in Channels |-> 0]]
  /\ churn = 0
  /\ failures = 0
-----------------------------------------------------------------------------
(***************************************************************************)
(* The owner, in a thread of the pool or through the other routers.        *)
(***************************************************************************)
Churn == churn < MaxChurn /\ churn' = churn + 1

(* create_alert; WatchlistAlertCreate admits two directions. *)
CreateAlert(a) ==
  /\ alerts[a].status = "unborn"
  /\ \E d \in {"above", "below"}, p \in Targets :
       alerts' = [alerts EXCEPT ![a] = [status |-> "active", direction |-> d, target_price |-> p,
                                        ref_date |-> 0]]
  /\ UNCHANGED <<inbox, related, subscribed, price, today, job, sent, churn, failures>>

(* Mutant: the foreign key does nothing on delete. *)
DeleteAlertDangles(a) ==
  /\ Exists(a)
  /\ Churn
  /\ alerts' = [alerts EXCEPT ![a].status = "deleted"]
  /\ UNCHANGED <<inbox, related, subscribed, price, today, job, sent, failures>>

(* delete_alert by the owner (404 and 403 otherwise); ON DELETE SET NULL
   clears the related_alert_id of the rows it made. *)
DeleteAlert(a) ==
  /\ Exists(a)
  /\ Churn
  /\ alerts' = [alerts EXCEPT ![a].status = "deleted"]
  /\ related' = [k \in Keys |-> IF related[k] = a THEN NoAlert ELSE related[k]]
  /\ UNCHANGED <<inbox, subscribed, price, today, job, sent, failures>>

ChangeSubscription ==
  /\ Churn
  /\ \E u \in Users, ch \in Channels :
       subscribed' = (subscribed \ {<<u, ch>>}) \cup ({<<u, ch>>} \ subscribed)
  /\ UNCHANGED <<inbox, alerts, related, price, today, job, sent, failures>>

(* The inbox routes are coroutines: they run when the job does not. *)
ReadInbox ==
  /\ job.pc = "idle"
  /\ \E u \in Users : MarkAsRead(u) \/ MarkAllRead(u)
  /\ UNCHANGED <<alerts, related, subscribed, price, today, job, sent, churn, failures>>

MarketMoves ==
  /\ Churn
  /\ \E k \in Topics, p \in Prices \cup {NoQuote} : price' = [price EXCEPT ![k] = p]
  /\ UNCHANGED <<inbox, alerts, related, subscribed, today, job, sent, failures>>

NextDay ==
  /\ today < MaxDay
  /\ today' = today + 1
  /\ UNCHANGED <<inbox, alerts, related, subscribed, price, job, sent, churn, failures>>
-----------------------------------------------------------------------------
(***************************************************************************)
(* check_price_alerts and _trigger_alert.                                  *)
(***************************************************************************)
(* Mutant: a run that failed is the last one. *)
StartJobUnlessFailed ==
  /\ job.pc = "idle"
  /\ failures = 0
  /\ job' = [pc |-> "loop", todo |-> {a \in Alerts : alerts[a].status = "active"},
             cur |-> NoAlert, fresh |-> TRUE]
  /\ UNCHANGED <<inbox, alerts, related, subscribed, price, today, sent, churn, failures>>

StartJob ==
  /\ job.pc = "idle"
  /\ job' = [pc |-> "loop", todo |-> {a \in Alerts : alerts[a].status = "active"},
             cur |-> NoAlert, fresh |-> TRUE]
  /\ UNCHANGED <<inbox, alerts, related, subscribed, price, today, sent, churn, failures>>

Due(a) == /\ price[CodeOf[a]] # NoQuote
          /\ EvaluateAlert(alerts[a].direction, alerts[a].target_price, price[CodeOf[a]])

(* The next alert of the list.  While no commit has expired it, the object is
   as the SELECT loaded it, whatever became of its row. *)
Evaluate ==
  /\ job.pc = "loop"
  /\ \E a \in job.todo :
       /\ job.fresh \/ Exists(a)
       /\ job' = [job EXCEPT !.todo = @ \ {a}, !.pc = IF Due(a) THEN "telegram" ELSE "loop",
                             !.cur = IF Due(a) THEN a ELSE NoAlert]
  /\ UNCHANGED <<inbox, alerts, related, subscribed, price, today, sent, churn, failures>>

(* An expired object whose row is gone: reading alert.krx_code raises, and so
   does alert.id in the handler that wants to log it, which ends the loop. *)
EvaluateDeleted ==
  /\ job.pc = "loop"
  /\ ~job.fresh
  /\ \E a \in job.todo : ~Exists(a)
  /\ job' = Idle
  /\ UNCHANGED <<inbox, alerts, related, subscribed, price, today, sent, churn, failures>>

FinishJob ==
  /\ job.pc = "loop"
  /\ job.todo = {}
  /\ job' = Idle
  /\ UNCHANGED <<inbox, alerts, related, subscribed, price, today, sent, churn, failures>>

(* The telegram message, then the e-mail, to an active subscription; neither
   failing matters to the job. *)
Send(ch) ==
  /\ job.pc = ch
  /\ job' = [job EXCEPT !.pc = IF ch = "telegram" THEN "email" ELSE "write"]
  /\ sent' = IF <<OwnerOf[job.cur], ch>> \in subscribed
             THEN [sent EXCEPT ![job.cur][ch] = @ + 1] ELSE sent
  /\ UNCHANGED <<inbox, alerts, related, subscribed, price, today, churn, failures>>

(* The transaction: INSERT ... ON CONFLICT DO NOTHING into the inbox and UPDATE
   of the alert. *)
Triggered(a) ==
  LET k == InboxKey(a, today) IN
  /\ inbox' = WithRows(inbox, {k})
  /\ related' = IF inbox[k] = "absent" THEN [related EXCEPT ![k] = a] ELSE related
  /\ alerts' = [alerts EXCEPT ![a].status = "fired", ![a].ref_date = today]

(* Mutant: the row is not deactivated. *)
TriggerStaysActive ==
  /\ job.pc = "write"
  /\ Exists(job.cur)
  /\ inbox' = WithRows(inbox, {InboxKey(job.cur, today)})
  /\ job' = [job EXCEPT !.pc = "loop", !.cur = NoAlert, !.fresh = FALSE]
  /\ UNCHANGED <<alerts, related, subscribed, price, today, sent, churn, failures>>

(* Mutant: the alert is deactivated where the inbox row could not be written. *)
TriggerWithoutRow ==
  /\ job.pc = "write"
  /\ Exists(job.cur)
  /\ \/ Triggered(job.cur)
     \/ /\ alerts' = [alerts EXCEPT ![job.cur].status = "fired", ![job.cur].ref_date = today]
        /\ UNCHANGED <<inbox, related>>
  /\ job' = [job EXCEPT !.pc = "loop", !.cur = NoAlert, !.fresh = FALSE]
  /\ UNCHANGED <<subscribed, price, today, sent, churn, failures>>

Trigger ==
  /\ job.pc = "write"
  /\ Exists(job.cur)
  /\ Triggered(job.cur)
  /\ job' = [job EXCEPT !.pc = "loop", !.cur = NoAlert, !.fresh = FALSE]
  /\ UNCHANGED <<subscribed, price, today, sent, churn, failures>>

(* The alert was deleted meanwhile: the INSERT breaks the foreign key, or the
   UPDATE matches no row.  Nothing is written, and as nobody rolls back, the
   session refuses whatever the rest of the loop asks of it. *)
TriggerDeleted ==
  /\ job.pc = "write"
  /\ ~Exists(job.cur)
  /\ job' = Idle
  /\ UNCHANGED <<inbox, alerts, related, subscribed, price, today, sent, churn, failures>>

(* A database call fails while an alert is being triggered: before its messages
   (the subscription cannot be read) or after them (the commit), and a commit
   whose answer was lost may have happened.  The session is of no use to the
   rest of the run.  A restart ends it anywhere. *)
JobFails ==
  /\ job.pc # "idle"
  /\ failures < MaxFailures
  /\ failures' = failures + 1
  /\ \/ UNCHANGED <<inbox, alerts, related>>
     \/ job.pc = "write" /\ Exists(job.cur) /\ Triggered(job.cur)
  /\ job' = Idle
  /\ UNCHANGED <<subscribed, price, today, sent, churn>>
-----------------------------------------------------------------------------
Owner == \/ \E a \in Alerts : CreateAlert(a) \/ DeleteAlert(a)
         \/ ChangeSubscription \/ ReadInbox

Job == \/ StartJob \/ Evaluate \/ EvaluateDeleted \/ FinishJob
       \/ \E ch \in Channels : Send(ch)
       \/ Trigger \/ TriggerDeleted \/ JobFails

Next == Owner \/ MarketMoves \/ NextDay \/ Job

Spec == Init /\ [][Next]_vars

(* The interval trigger keeps starting the job, and a started run goes on. *)
FairSpec == Spec /\ WF_vars(Job)
-----------------------------------------------------------------------------
TypeOK ==
  /\ InboxTypeOK
  /\ alerts \in [Alerts -> Row]
  /\ related \in [Keys -> Alerts \cup {NoAlert}]
  /\ subscribed \subseteq Users \X Channels
  /\ price \in [Topics -> Prices \cup {NoQuote}]
  /\ today \in Days
  /\ job \in JobState
  /\ sent \in [Alerts -> [Channels -> Nat]]
  /\ churn \in 0..MaxChurn
  /\ failures \in 0..MaxFailures

(***************************************************************************)
(* An alert deactivated as triggered has a row in the inbox for its owner,  *)
(* its stock and the day it fired, for _trigger_alert commits both or       *)
(* neither.  The row names the alert, unless a sibling of the same owner    *)
(* and stock fired on that day: then the INSERT of the later one conflicts  *)
(* and does nothing, and there is one row for two firings, although         *)
(* .moai/specs/SPEC-STOCK-013/spec.md:82 asks for one each.                 *)
(***************************************************************************)
SharesDay(a, b) == InboxKey(a, alerts[a].ref_date) = InboxKey(b, alerts[b].ref_date)

FiredHasInbox ==
  \A a \in Alerts : alerts[a].status = "fired" =>
    LET k == InboxKey(a, alerts[a].ref_date) IN
    /\ alerts[a].ref_date \in Days
    /\ inbox[k] # "absent"
    /\ related[k] = a \/ \E b \in Alerts \ {a} : SharesDay(a, b)

(***************************************************************************)
(* An inbox row that names an alert names one that exists, fired on the     *)
(* row's day and is of the row's user and stock, through deletes that race  *)
(* the job.                                                                 *)
(***************************************************************************)
RelatedIsFired ==
  \A k \in Keys : related[k] # NoAlert =>
    /\ alerts[related[k]].status = "fired"
    /\ k = InboxKey(related[k], alerts[related[k]].ref_date)
    /\ inbox[k] # "absent"

(***************************************************************************)
(* Nobody is told twice of one alert on one channel, unless a transaction  *)
(* or the process was lost in between: the messages precede the commit.    *)
(***************************************************************************)
RepeatedOnlyAfterFailure ==
  \A a \in Alerts, ch \in Channels : sent[a][ch] =< 1 + failures

(***************************************************************************)
(* An alert whose condition stays met fires in the end, although deleting  *)
(* any other alert may end a run before its turn.                          *)
(***************************************************************************)
EventuallyFires ==
  \A a \in Alerts : <>[](alerts[a].status = "active" /\ Due(a)) => <>(alerts[a].status = "fired")
=============================================================================
