-------------------------- MODULE PriceAlertsProofs --------------------------
(***************************************************************************)
(* Theorems about PriceAlerts for any users, alerts, prices and bounds:     *)
(* what the alerts and the inbox say of each other while owners delete      *)
(* alerts beside a running check, how often an alert is told, and that the  *)
(* check moves the inbox as its abstract specification allows.              *)
(***************************************************************************)
EXTENDS PriceAlerts, NotificationInboxProofs

(* What the run has in hand: nothing between two alerts, otherwise an alert that
   it has taken off its list; each of them was created and has not fired. *)
Hand ==
  /\ job.pc \in {"idle", "loop"} => job.cur = NoAlert
  /\ job.pc \in {"telegram", "email", "write"} => job.cur \in Alerts \ job.todo
  /\ \A a \in Alerts : a \in job.todo \/ a = job.cur => alerts[a].status \in {"active", "deleted"}

(* The message of a on ch has been sent by the run and not yet been settled. *)
Told(a, ch) ==
  a = job.cur /\ (job.pc = "write" \/ (job.pc = "email" /\ ch = "telegram"))

(* It may still be sent. *)
Unsent(a, ch) ==
  ~Told(a, ch) /\ (a \in job.todo \/ a = job.cur \/ alerts[a].status \in {"unborn", "active"})

(* What was sent of an alert that may still be sent was lost to a failure. *)
Sends ==
  \A a \in Alerts, ch \in Channels :
    /\ sent[a][ch] =< 1 + failures
    /\ Unsent(a, ch) => sent[a][ch] =< failures

(* Only an alert that fired bears a day, and every row is of such an alert. *)
Dated ==
  /\ \A a \in Alerts : alerts[a].status \in {"unborn", "active"} => alerts[a].ref_date = 0
  /\ \A k \in Keys : inbox[k] # "absent" => \E b \in Alerts : InboxKey(b, alerts[b].ref_date) = k

Inv == TypeOK /\ Hand /\ Dated /\ FiredHasInbox /\ RelatedIsFired /\ Sends

(***************************************************************************)
(* A notification of an alert has a key of the table, and the key of        *)
(* another day or alert is not taken for it.                                *)
(***************************************************************************)
LEMMA InboxKeyIsKey ==
  ASSUME NEW a \in Alerts, NEW d \in Days
  PROVE  InboxKey(a, d) \in Keys /\ InboxKey(a, d)[3] = d
  BY PriceAlertsAssumption DEF InboxKey, Keys

LEMMA KeyOfDay == ASSUME NEW a, NEW d PROVE InboxKey(a, d)[3] = d
  BY DEF InboxKey

LEMMA KeyHasDay == ASSUME NEW k \in Keys PROVE k[3] \in Days
  BY DEF Keys

(***************************************************************************)
(* The transaction of _trigger_alert: the alert has fired and has its inbox *)
(* row, no other alert and no row is lost, and what a row names has fired.  *)
(***************************************************************************)
LEMMA TriggeredEffect ==
  ASSUME Inv, NEW a \in Alerts, alerts[a].status = "active", Triggered(a)
  PROVE  /\ InboxTypeOK'
         /\ alerts' \in [Alerts -> Row]
         /\ related' \in [Keys -> Alerts \cup {NoAlert}]
         /\ alerts'[a].status = "fired"
         /\ \A b \in Alerts \ {a} : alerts'[b] = alerts[b]
         /\ Dated'
         /\ FiredHasInbox'
         /\ RelatedIsFired'
<1>1. /\ alerts \in [Alerts -> Row] /\ InboxTypeOK
      /\ related \in [Keys -> Alerts \cup {NoAlert}]
      /\ today \in Days
  BY DEF Inv, TypeOK
<1> DEFINE k == InboxKey(a, today)
<1>2. k \in Keys /\ k[3] = today
  BY <1>1, InboxKeyIsKey
<1>3. /\ inbox' \in [Keys -> RowStates]
      /\ \A l \in Keys : inbox[l] # "absent" => inbox'[l] # "absent"
      /\ inbox'[k] # "absent"
      /\ \A l \in Keys \ {k} : inbox'[l] = inbox[l]
  <2>1. inbox' = WithRows(inbox, {k})
    BY DEF Triggered
  <2>2. \A l \in Keys \ {k} : WithRows(inbox, {k})[l] = inbox[l]
    BY DEF WithRows
  <2> QED
    BY <1>1, <1>2, <2>1, <2>2, WithRowsInserts
<1>4. /\ alerts' \in [Alerts -> Row]
      /\ alerts'[a].status = "fired" /\ alerts'[a].ref_date = today
      /\ \A b \in Alerts \ {a} : alerts'[b] = alerts[b]
  <2>1. today \in 0..MaxDay
    BY <1>1, PriceAlertsAssumption
  <2> DEFINE row == [alerts[a] EXCEPT !.status = "fired", !.ref_date = today]
  <2>2. alerts[a] \in Row
    BY <1>1
  <2>3. row \in Row /\ row.status = "fired" /\ row.ref_date = today
    BY <2>1, <2>2 DEF Row
  <2>4. alerts' = [alerts EXCEPT ![a] = row]
    BY <1>1, <2>2 DEF Triggered
  <2> QED
    BY <1>1, <2>3, <2>4
<1>5. /\ related' \in [Keys -> Alerts \cup {NoAlert}]
      /\ \A l \in Keys : related'[l] = related[l] \/ (l = k /\ related'[l] = a)
      /\ inbox[k] = "absent" => related'[k] = a
      /\ inbox[k] # "absent" => related' = related
  BY <1>1, <1>2 DEF Triggered
<1>6. alerts[a].ref_date = 0 /\ 0 \notin Days
  BY PriceAlertsAssumption DEF Inv, Dated
<1>7. ASSUME NEW b \in Alerts, alerts[b].ref_date \in Days
      PROVE  b # a /\ InboxKey(b, alerts'[b].ref_date) = InboxKey(b, alerts[b].ref_date)
  BY <1>4, <1>6, <1>7
(* Whose key a row has keeps its day, and is not a, which had none. *)
<1>8. ASSUME NEW l \in Keys, NEW b \in Alerts, InboxKey(b, alerts[b].ref_date) = l
      PROVE  b # a /\ InboxKey(b, alerts'[b].ref_date) = l
  BY <1>7, <1>8, KeyOfDay, KeyHasDay
<1>9. Dated'
  <2>1. ASSUME NEW b \in Alerts, alerts'[b].status \in {"unborn", "active"} PROVE alerts'[b].ref_date = 0
    BY <1>4, <2>1 DEF Inv, Dated
  <2>2. ASSUME NEW l \in Keys, inbox'[l] # "absent"
        PROVE  \E b \in Alerts : InboxKey(b, alerts'[b].ref_date) = l
    <3>1. CASE l = k
      BY <3>1, <1>4
    <3>2. CASE l # k
      BY <2>2, <3>2, <1>3, <1>8 DEF Inv, Dated
    <3> QED
      BY <3>1, <3>2
  <2> QED
    BY <2>1, <2>2 DEF Dated, InboxKey
<1>10. FiredHasInbox'
  <2>1. SUFFICES ASSUME NEW b \in Alerts, alerts'[b].status = "fired"
                 PROVE  LET l == InboxKey(b, alerts'[b].ref_date) IN
                        /\ alerts'[b].ref_date \in Days
                        /\ inbox'[l] # "absent"
                        /\ related'[l] = b \/ \E c \in Alerts \ {b} : l = InboxKey(c, alerts'[c].ref_date)
    BY DEF FiredHasInbox, SharesDay, InboxKey
  <2>2. CASE b = a
    <3>1. related'[k] = a \/ \E c \in Alerts \ {a} : k = InboxKey(c, alerts'[c].ref_date)
      BY <1>2, <1>5, <1>8 DEF Inv, Dated
    <3> QED
      BY <2>2, <3>1, <1>1, <1>3, <1>4
  <2>3. CASE b # a
    <3> DEFINE l == InboxKey(b, alerts[b].ref_date)
    <3>1. /\ alerts'[b] = alerts[b] /\ alerts[b].ref_date \in Days
          /\ inbox[l] # "absent"
          /\ related[l] = b \/ \E c \in Alerts \ {b} : l = InboxKey(c, alerts[c].ref_date)
      BY <2>1, <2>3, <1>4 DEF Inv, FiredHasInbox, SharesDay
    <3>2. l \in Keys
      BY <3>1, InboxKeyIsKey
    <3>3. related'[l] = related[l]
      BY <3>1, <3>2, <1>5
    <3>4. \A c \in Alerts : l = InboxKey(c, alerts[c].ref_date) => l = InboxKey(c, alerts'[c].ref_date)
      BY <3>2, <1>8
    <3> QED
      BY <3>1, <3>2, <3>3, <3>4, <1>3
  <2> QED
    BY <2>2, <2>3
<1>11. RelatedIsFired'
  <2>1. SUFFICES ASSUME NEW l \in Keys, related'[l] # NoAlert
                 PROVE  /\ alerts'[related'[l]].status = "fired"
                        /\ l = InboxKey(related'[l], alerts'[related'[l]].ref_date)
                        /\ inbox'[l] # "absent"
    BY DEF RelatedIsFired, InboxKey
  <2>2. CASE l = k /\ related'[l] = a
    BY <2>2, <1>2, <1>3, <1>4
  <2>3. CASE related'[l] = related[l]
    <3>1. related[l] \in Alerts \ {a}
      BY <2>1, <2>3, <1>1 DEF Inv, RelatedIsFired
    <3> QED
      BY <2>1, <2>3, <3>1, <1>3, <1>4 DEF Inv, RelatedIsFired
  <2> QED
    BY <2>2, <2>3, <1>5
<1> QED
  BY <1>3, <1>4, <1>5, <1>9, <1>10, <1>11 DEF InboxTypeOK

(***************************************************************************)
(* Every step of the owner, the market, the calendar and the check keeps    *)
(* the invariant.                                                           *)
(***************************************************************************)
LEMMA Initially == Init => Inv
<1> SUFFICES ASSUME Init PROVE Inv
  OBVIOUS
<1>1. TypeOK
  BY PriceAlertsAssumption DEF Init, InboxInit, TypeOK, InboxTypeOK, RowStates, Unborn, Row, Idle, JobState
<1>2. Hand
  BY PriceAlertsAssumption DEF Init, Idle, Hand
<1>3. Dated /\ FiredHasInbox /\ RelatedIsFired
  BY DEF Init, InboxInit, Unborn, Dated, FiredHasInbox, RelatedIsFired
<1>4. Sends
  BY DEF Init, Sends
<1> QED
  BY <1>1, <1>2, <1>3, <1>4 DEF Inv

LEMMA OwnerStep == ASSUME Inv, Owner PROVE Inv'
<1>1. ASSUME NEW a \in Alerts, CreateAlert(a) PROVE Inv'
  <2>1. TypeOK'
    <3>1. PICK d \in {"above", "below"}, p \in Targets :
            alerts' = [alerts EXCEPT ![a] = [status |-> "active", direction |-> d, target_price |-> p,
                                             ref_date |-> 0]]
      BY <1>1 DEF CreateAlert
    <3>2. [status |-> "active", direction |-> d, target_price |-> p, ref_date |-> 0] \in Row
      BY PriceAlertsAssumption DEF Row
    <3>3. alerts' \in [Alerts -> Row]
      BY <3>1, <3>2 DEF Inv, TypeOK
    <3> QED
      BY <1>1, <3>3 DEF CreateAlert, Inv, TypeOK, InboxTypeOK
  <2>2. /\ alerts[a].status = "unborn" /\ alerts'[a].status = "active"
        /\ \A b \in Alerts \ {a} : alerts'[b] = alerts[b]
        /\ UNCHANGED <<inbox, related, job, sent, failures>>
    BY <1>1 DEF CreateAlert, Inv, TypeOK
  <2>3. Hand'
    BY <2>2 DEF Inv, Hand
  <2>4. alerts[a].ref_date = 0 /\ alerts'[a].ref_date = 0
    BY <1>1, <2>2 DEF CreateAlert, Inv, TypeOK, Dated
  <2>5. \A b \in Alerts : alerts'[b].ref_date = alerts[b].ref_date
    BY <2>2, <2>4
  <2>6. Dated' /\ FiredHasInbox'
    BY <2>2, <2>4, <2>5 DEF Inv, Dated, FiredHasInbox, SharesDay, InboxKey
  <2>7. RelatedIsFired'
    BY <2>2 DEF Inv, TypeOK, RelatedIsFired, InboxKey
  <2>8. Sends'
    BY <2>2 DEF Inv, Sends, Unsent, Told
  <2> QED
    BY <2>1, <2>3, <2>6, <2>7, <2>8 DEF Inv
<1>2. ASSUME NEW a \in Alerts, DeleteAlert(a) PROVE Inv'
  <2>1. TypeOK'
    <3>1. alerts' \in [Alerts -> Row]
      BY <1>2 DEF DeleteAlert, Inv, TypeOK, Row
    <3>2. related' \in [Keys -> Alerts \cup {NoAlert}]
      BY <1>2 DEF DeleteAlert, Inv, TypeOK
    <3>3. churn' \in 0..MaxChurn
      BY <1>2, PriceAlertsAssumption DEF DeleteAlert, Churn, Inv, TypeOK
    <3> QED
      BY <1>2, <3>1, <3>2, <3>3 DEF DeleteAlert, Inv, TypeOK, InboxTypeOK
  <2>2. /\ alerts'[a].status = "deleted"
        /\ \A b \in Alerts \ {a} : alerts'[b] = alerts[b]
        /\ UNCHANGED <<inbox, job, sent, failures>>
    BY <1>2 DEF DeleteAlert, Inv, TypeOK
  <2>3. Hand'
    BY <2>2 DEF Inv, Hand
  <2>4. Dated' /\ FiredHasInbox'
    <3>1. \A b \in Alerts : alerts'[b].ref_date = alerts[b].ref_date
      BY <1>2 DEF DeleteAlert, Inv, TypeOK
    <3>2. Dated'
      BY <2>2, <3>1 DEF Inv, Dated, InboxKey
    <3>3. ASSUME NEW b \in Alerts, alerts'[b].status = "fired", InboxKey(b, alerts[b].ref_date) \in Keys
          PROVE  related[InboxKey(b, alerts[b].ref_date)] = b => related'[InboxKey(b, alerts[b].ref_date)] = b
      BY <1>2, <2>2, <3>3 DEF DeleteAlert
    <3> QED
      BY <2>2, <3>1, <3>2, <3>3, InboxKeyIsKey DEF Inv, FiredHasInbox, SharesDay, InboxKey
  <2>5. RelatedIsFired'
    BY <1>2, <2>2 DEF DeleteAlert, Inv, TypeOK, RelatedIsFired, InboxKey
  <2>6. Sends'
    BY <2>2 DEF Inv, Sends, Unsent, Told
  <2> QED
    BY <2>1, <2>3, <2>4, <2>5, <2>6 DEF Inv
<1>3. CASE ChangeSubscription
  <2>1. TypeOK'
    <3>1. subscribed' \subseteq Users \X Channels
      BY <1>3 DEF ChangeSubscription, Inv, TypeOK
    <3>2. churn' \in 0..MaxChurn
      BY <1>3, PriceAlertsAssumption DEF ChangeSubscription, Churn, Inv, TypeOK
    <3> QED
      BY <1>3, <3>1, <3>2 DEF ChangeSubscription, Inv, TypeOK, InboxTypeOK
  <2> QED
    BY <1>3, <2>1 DEF ChangeSubscription, Inv, Hand, Dated, SharesDay, FiredHasInbox, RelatedIsFired, Sends, Unsent, Told, InboxKey
<1>4. CASE ReadInbox
  <2>1. /\ InboxTypeOK'
        /\ \A k \in Keys : inbox[k] # "absent" => inbox'[k] # "absent"
        /\ UNCHANGED <<alerts, related, subscribed, price, today, job, sent, churn, failures>>
    BY <1>4, InboxStep DEF ReadInbox, InboxNext, Inv, TypeOK
  <2>2. TypeOK' /\ Hand' /\ Sends'
    BY <2>1 DEF Inv, TypeOK, Hand, Sends, Unsent, Told
  <2>3. \A k \in Keys : inbox'[k] # "absent" => inbox[k] # "absent"
    BY <1>4 DEF ReadInbox, MarkAsRead, MarkAllRead, Inv, TypeOK, InboxTypeOK
  <2>4. Dated'
    BY <2>1, <2>3 DEF Inv, Dated, InboxKey
  <2>5. FiredHasInbox'
    BY <2>1, InboxKeyIsKey DEF Inv, FiredHasInbox, SharesDay, InboxKey
  <2>6. RelatedIsFired'
    BY <2>1 DEF Inv, RelatedIsFired, InboxKey
  <2> QED
    BY <2>2, <2>4, <2>5, <2>6 DEF Inv
<1> QED
  BY <1>1, <1>2, <1>3, <1>4 DEF Owner

LEMMA WorldStep == ASSUME Inv, MarketMoves \/ NextDay \/ UNCHANGED vars PROVE Inv'
<1> USE PriceAlertsAssumption
<1>0. TypeOK
  BY DEF Inv
<1>1. TypeOK'
  <2>1. CASE MarketMoves
    BY <1>0, <2>1 DEF MarketMoves, Churn, TypeOK, InboxTypeOK
  <2>2. CASE NextDay
    BY <1>0, <2>2 DEF NextDay, TypeOK, InboxTypeOK
  <2>3. CASE UNCHANGED vars
    BY <1>0, <2>3 DEF vars, TypeOK, InboxTypeOK
  <2> QED
    BY <2>1, <2>2, <2>3
<1>2. UNCHANGED <<inbox, alerts, related, job, sent, failures>>
  BY DEF MarketMoves, NextDay, vars
<1> QED
  BY <1>1, <1>2 DEF Inv, Hand, Dated, SharesDay, FiredHasInbox, RelatedIsFired, Sends, Unsent, Told, InboxKey

LEMMA JobStep == ASSUME Inv, Job PROVE Inv'
<1>0. /\ alerts \in [Alerts -> Row] /\ job \in JobState
      /\ sent \in [Alerts -> [Channels -> Nat]] /\ failures \in Nat
  BY PriceAlertsAssumption DEF Inv, TypeOK
(* Taking an alert off the list, finding one that is gone, and the ends of a run. *)
<1>1. ASSUME UNCHANGED <<inbox, alerts, related, subscribed, price, today, sent, churn>>,
             failures' \in 0..MaxFailures, failures' >= failures,
             job' \in JobState, Hand',
             \A a \in Alerts, ch \in Channels : Unsent(a, ch)' => sent[a][ch] =< failures'
      PROVE  Inv'
  <2>1. TypeOK' /\ Dated' /\ FiredHasInbox' /\ RelatedIsFired'
    BY <1>1 DEF Inv, TypeOK, InboxTypeOK, Dated, SharesDay, FiredHasInbox, RelatedIsFired, InboxKey
  <2>2. Sends'
    BY <1>0, <1>1 DEF Inv, TypeOK, Sends
  <2> QED
    BY <1>1, <2>1, <2>2 DEF Inv
<1>2. CASE StartJob
  <2>1. job' \in JobState
    BY <1>2 DEF StartJob, JobState
  <2>2. Hand'
    BY <1>2, PriceAlertsAssumption DEF StartJob, Hand
  <2>3. \A a \in Alerts, ch \in Channels : Unsent(a, ch)' => Unsent(a, ch)
    BY <1>2, PriceAlertsAssumption DEF StartJob, Unsent, Told, Inv, Hand
  <2> QED
    BY <1>0, <1>1, <1>2, <2>1, <2>2, <2>3 DEF StartJob, Inv, TypeOK, Sends
<1>3. CASE Evaluate
  <2>1. job' \in JobState
    BY <1>0, <1>3 DEF Evaluate, JobState
  <2>2. Hand'
    BY <1>0, <1>3 DEF Evaluate, JobState, Inv, Hand
  <2>3. \A a \in Alerts, ch \in Channels : Unsent(a, ch)' => Unsent(a, ch)
    BY <1>0, <1>3, PriceAlertsAssumption DEF Evaluate, JobState, Unsent, Told, Inv, Hand
  <2> QED
    BY <1>0, <1>1, <1>3, <2>1, <2>2, <2>3 DEF Evaluate, Inv, TypeOK, Sends
<1>4. CASE EvaluateDeleted \/ FinishJob
  <2>1. job' = Idle /\ job.pc = "loop"
    BY <1>4 DEF EvaluateDeleted, FinishJob
  <2>2. job' \in JobState /\ Hand'
    BY <2>1, PriceAlertsAssumption DEF Idle, JobState, Hand
  <2>3. \A a \in Alerts, ch \in Channels : Unsent(a, ch)' => Unsent(a, ch)
    BY <1>4, <2>1, PriceAlertsAssumption
    DEF EvaluateDeleted, FinishJob, Idle, Unsent, Told, Inv, Hand
  <2> QED
    BY <1>0, <1>1, <1>4, <2>2, <2>3 DEF EvaluateDeleted, FinishJob, Inv, TypeOK, Sends
<1>5. ASSUME NEW ch \in Channels, Send(ch) PROVE Inv'
  <2>1. job.cur \in Alerts \ job.todo
    BY <1>5 DEF Send, Channels, Inv, Hand
  <2>2. job' \in JobState
    BY <1>0, <1>5 DEF Send, JobState
  <2>3. sent' \in [Alerts -> [Channels -> Nat]]
    BY <1>0, <1>5, <2>1 DEF Send
  <2>4. TypeOK' /\ Dated' /\ FiredHasInbox' /\ RelatedIsFired'
    BY <1>5, <2>2, <2>3
    DEF Send, Inv, TypeOK, InboxTypeOK, Dated, SharesDay, FiredHasInbox, RelatedIsFired, InboxKey
  <2>5. /\ job'.cur = job.cur /\ job'.todo = job.todo
        /\ ch = "telegram" => job.pc = "telegram" /\ job'.pc = "email"
        /\ ch = "email" => job.pc = "email" /\ job'.pc = "write"
    BY <1>0, <1>5 DEF Send, JobState, Channels
  <2>6. Hand'
    BY <1>5, <2>1, <2>5 DEF Send, Inv, Hand, Channels
  <2>7. /\ \A a \in Alerts, c \in Channels : Unsent(a, c)' => Unsent(a, c) /\ ~(a = job.cur /\ c = ch)
        /\ Unsent(job.cur, ch)
    BY <1>5, <2>1, <2>5 DEF Send, Unsent, Told, Channels
  <2>8. \A a \in Alerts, c \in Channels :
          sent'[a][c] = sent[a][c] \/ (a = job.cur /\ c = ch /\ sent'[a][c] = sent[a][c] + 1)
    BY <1>0, <1>5, <2>1 DEF Send
  <2>9. sent[job.cur][ch] =< failures /\ failures' = failures
    BY <1>5, <2>1, <2>7 DEF Send, Inv, Sends
  <2>10. Sends'
    BY <1>0, <2>7, <2>8, <2>9 DEF Inv, Sends
  <2> QED
    BY <2>4, <2>6, <2>10 DEF Inv
<1>6. ASSUME job.cur \in Alerts, alerts[job.cur].status = "active", Triggered(job.cur),
             job'.cur = NoAlert, job'.todo \subseteq job.todo, job'.pc \in {"idle", "loop"},
             job.pc = "write", job' \in JobState,
             failures' \in 0..MaxFailures, failures' >= failures,
             UNCHANGED <<subscribed, price, today, sent, churn>>
      PROVE  Inv'
  <2>1. /\ InboxTypeOK'
        /\ alerts' \in [Alerts -> Row]
        /\ related' \in [Keys -> Alerts \cup {NoAlert}]
        /\ alerts'[job.cur].status = "fired"
        /\ \A b \in Alerts \ {job.cur} : alerts'[b] = alerts[b]
        /\ Dated' /\ FiredHasInbox' /\ RelatedIsFired'
    BY <1>6, TriggeredEffect
  <2>2. TypeOK'
    BY <1>6, <2>1 DEF Inv, TypeOK
  <2>3. Hand'
    BY <1>6, <2>1, PriceAlertsAssumption DEF Inv, Hand
  <2>4. \A a \in Alerts, ch \in Channels : Unsent(a, ch)' => Unsent(a, ch)
    <3>1. job.cur \notin job'.todo
      BY <1>6 DEF Inv, Hand
    <3> QED
      BY <1>6, <2>1, <3>1, PriceAlertsAssumption DEF Unsent, Told
  <2>5. Sends'
    BY <1>0, <1>6, <2>4 DEF Inv, TypeOK, Sends
  <2> QED
    BY <2>1, <2>2, <2>3, <2>5 DEF Inv
<1>7. CASE Trigger
  <2>1. job.cur \in Alerts /\ alerts[job.cur].status = "active"
    BY <1>7 DEF Trigger, Exists, Inv, Hand
  <2>2. /\ job'.cur = NoAlert /\ job'.todo = job.todo /\ job'.pc = "loop"
        /\ job' \in JobState
    BY <1>0, <1>7 DEF Trigger, JobState
  <2> QED
    BY <1>0, <1>6, <1>7, <2>1, <2>2 DEF Trigger, Inv, TypeOK
<1>8. CASE TriggerDeleted
  <2>1. job' \in JobState /\ Hand'
    BY <1>8, PriceAlertsAssumption DEF TriggerDeleted, Idle, JobState, Hand
  <2>2. job.cur \in Alerts /\ alerts[job.cur].status = "deleted"
    BY <1>0, <1>8 DEF TriggerDeleted, Exists, Row, Inv, Hand
  <2>3. \A a \in Alerts, ch \in Channels : Unsent(a, ch)' => Unsent(a, ch)
    BY <1>8, <2>2, PriceAlertsAssumption DEF TriggerDeleted, Idle, Unsent, Told
  <2> QED
    BY <1>0, <1>1, <1>8, <2>1, <2>3 DEF TriggerDeleted, Inv, TypeOK, Sends
<1>9. CASE JobFails
  <2>1. job' = Idle /\ job' \in JobState /\ Hand'
    BY <1>9, PriceAlertsAssumption DEF JobFails, Idle, JobState, Hand
  <2>2. failures' = failures + 1 /\ failures' \in 0..MaxFailures
    BY <1>0, <1>9, PriceAlertsAssumption DEF JobFails, Inv, TypeOK
  <2>3. CASE UNCHANGED <<inbox, alerts, related>>
    <3>1. \A a \in Alerts, ch \in Channels : sent[a][ch] =< failures'
      BY <1>0, <2>2 DEF Inv, Sends
    <3> QED
      BY <1>0, <1>1, <1>9, <2>1, <2>2, <2>3, <3>1 DEF JobFails
  <2>4. CASE job.pc = "write" /\ Exists(job.cur) /\ Triggered(job.cur)
    <3>1. job.cur \in Alerts /\ alerts[job.cur].status = "active"
      BY <2>4 DEF Exists, Inv, Hand
    <3>2. job'.cur = NoAlert /\ job'.todo \subseteq job.todo /\ job'.pc = "idle"
      BY <2>1 DEF Idle
    <3> QED
      BY <1>0, <1>6, <1>9, <2>1, <2>2, <2>4, <3>1, <3>2 DEF JobFails
  <2> QED
    BY <1>9, <2>3, <2>4 DEF JobFails
<1> QED
  BY <1>2, <1>3, <1>4, <1>5, <1>7, <1>8, <1>9 DEF Job

(***************************************************************************)
(* The invariant holds in every reachable state.                            *)
(***************************************************************************)
THEOREM InvHolds == Spec => []Inv
<1>1. Inv /\ [Next]_vars => Inv'
  BY OwnerStep, WorldStep, JobStep DEF Next
<1> QED
  BY <1>1, Initially, PTL DEF Spec

(***************************************************************************)
(* Whatever threads do beside the check: an alert deactivated as triggered  *)
(* has its row in the inbox, unless a sibling of the same owner and stock   *)
(* fired on the same day and has taken it.                                  *)
(***************************************************************************)
THEOREM InboxOfFired == Spec => []FiredHasInbox
<1>1. Inv => FiredHasInbox
  BY DEF Inv
<1> QED
  BY <1>1, InvHolds, PTL

(***************************************************************************)
(* A row names an alert only while that alert exists, has fired and is of   *)
(* the row's user and stock.                                                *)
(***************************************************************************)
THEOREM RelatedHasFired == Spec => []RelatedIsFired
<1>1. Inv => RelatedIsFired
  BY DEF Inv
<1> QED
  BY <1>1, InvHolds, PTL

(***************************************************************************)
(* Every message beyond the first of an alert was paid for by a failure.    *)
(***************************************************************************)
THEOREM OneMessagePerFailure == Spec => []RepeatedOnlyAfterFailure
<1>1. Inv => RepeatedOnlyAfterFailure
  BY DEF Inv, Sends, RepeatedOnlyAfterFailure
<1> QED
  BY <1>1, InvHolds, PTL

(***************************************************************************)
(* The price alerts implement the abstract inbox: their check inserts and   *)
(* their owners read, and no step does anything else to the table.          *)
(***************************************************************************)
THEOREM ImplementsInbox == Spec => InboxSpec
<1>1. Init => InboxInit
  BY DEF Init
<1>2. ASSUME Inv, [Next]_vars PROVE [InboxNext]_inbox
  <2>1. ASSUME NEW a \in Alerts, Triggered(a) PROVE InboxNext
    <3>1. InboxKey(a, today) \in Keys
      BY <1>2, InboxKeyIsKey DEF Inv, TypeOK
    <3> QED
      BY <2>1, <3>1 DEF Triggered, InboxNext
  <2>2. CASE ReadInbox
    BY <2>2 DEF ReadInbox, InboxNext
  <2>3. CASE Trigger \/ JobFails
    <3>1. job.pc = "write" => job.cur \in Alerts
      BY <1>2 DEF Inv, Hand
    <3> QED
      BY <2>1, <2>3, <3>1 DEF Trigger, JobFails
  <2>4. CASE UNCHANGED inbox
    BY <2>4
  <2> QED
    BY <1>2, <2>2, <2>3, <2>4 DEF Next, Owner, Job, CreateAlert, DeleteAlert, ChangeSubscription,
       MarketMoves, NextDay, StartJob, Evaluate, EvaluateDeleted, FinishJob, Send, TriggerDeleted, vars
<1> QED
  BY <1>1, <1>2, InvHolds, PTL DEF Spec, InboxSpec
=============================================================================
