-------------------------- MODULE GeneralAlertsProofs --------------------------
(***************************************************************************)
(* Theorems about GeneralAlerts for any users, alerts, quotes, number of    *)
(* overlapping checks and bounds: what the alerts table and the inbox say   *)
(* of each other, the latch, and - for checks that do not overlap - that an *)
(* alert is mailed at most once.                                            *)
(***************************************************************************)
EXTENDS GeneralAlerts, NotificationInboxProofs

(* The alert in hand: known from the decision to the last message, and in the
   owner's inbox from the commit on. *)
InHand ==
  \A c \in Checkers :
    /\ run[c].pc # "idle" /\ run[c].pc # "loop" => run[c].cur \in Alerts
    /\ run[c].pc \in {"email", "telegram"} =>
         inbox[InboxKey(run[c].cur, run[c].now)] # "absent"

(* A row says when it triggered, and one not yet created has not triggered. *)
Dated ==
  \A a \in Alerts : /\ alerts[a].is_triggered => alerts[a].triggered_on \in Days
                    /\ alerts[a].status = "unborn" => ~alerts[a].is_triggered

Inv == TypeOK /\ InHand /\ Dated /\ TriggeredHasInbox /\ SendAfterCommit

(***************************************************************************)
(* The unique key of a notification is a key of the table.                  *)
(***************************************************************************)
LEMMA InboxKeyIsKey ==
  ASSUME NEW a \in Alerts, NEW d \in Days
  PROVE  InboxKey(a, d) \in Keys
  BY AlertsAssumption DEF InboxKey, Keys

(***************************************************************************)
(* A row as it is created, and an empty hand, have the right shape.         *)
(***************************************************************************)
LEMMA UnbornIsRow == Unborn \in Row
  BY AlertsAssumption DEF Unborn, Row, Directions

LEMMA IdleIsState == Idle \in CheckerState
  BY AlertsAssumption, UnbornIsRow DEF Idle, CheckerState

(***************************************************************************)
(* The committed transaction of the check keeps the types, gives the alert  *)
(* its inbox row, and loses none.                                           *)
(***************************************************************************)
LEMMA TriggeredEffect ==
  ASSUME Inv, NEW a \in Alerts, NEW d \in Days, Triggered(a, d)
  PROVE  /\ alerts' \in [Alerts -> Row]
         /\ InboxTypeOK'
         /\ \A k \in Keys : inbox[k] # "absent" => inbox'[k] # "absent"
         /\ inbox'[InboxKey(a, d)] # "absent"
         /\ \A b \in Alerts \ {a} : alerts'[b] = alerts[b]
         /\ alerts'[a].status = alerts[a].status
         /\ alerts[a].status = "live" =>
              alerts'[a].is_triggered /\ alerts'[a].triggered_on = d
         /\ alerts[a].status # "live" => alerts'[a] = alerts[a]
<1>1. alerts \in [Alerts -> Row] /\ InboxTypeOK
  BY DEF Inv, TypeOK
<1>2. InboxKey(a, d) \in Keys
  BY InboxKeyIsKey
<1>3. /\ inbox' \in [Keys -> RowStates]
      /\ \A k \in Keys : inbox[k] # "absent" => inbox'[k] # "absent"
      /\ inbox'[InboxKey(a, d)] # "absent"
  BY <1>1, <1>2, WithRowsInserts DEF Triggered
<1>4. d \in 0..MaxDay
  BY AlertsAssumption
<1>5. alerts[a] \in Row
  BY <1>1
<1>6. [alerts[a] EXCEPT !.is_triggered = TRUE, !.triggered_on = d] \in Row
  BY <1>4, <1>5 DEF Row
<1>7. alerts' \in [Alerts -> Row]
  BY <1>1, <1>5, <1>6 DEF Triggered
<1>8. /\ \A b \in Alerts \ {a} : alerts'[b] = alerts[b]
      /\ alerts[a].status # "live" => alerts'[a] = alerts[a]
      /\ alerts[a].status = "live" =>
           alerts'[a] = [alerts[a] EXCEPT !.is_triggered = TRUE, !.triggered_on = d]
  BY <1>1 DEF Triggered
<1>9. alerts[a].status = "live" => /\ alerts'[a].is_triggered
                                   /\ alerts'[a].triggered_on = d
                                   /\ alerts'[a].status = "live"
  BY <1>5, <1>8 DEF Row
<1> QED
  BY <1>3, <1>7, <1>8, <1>9 DEF InboxTypeOK

(***************************************************************************)
(* What the invariant says of the inbox survives every step that keeps the  *)
(* rows there are, the triggered alerts and the messages sent.              *)
(***************************************************************************)
LEMMA InboxPartKept ==
  ASSUME Inv, TypeOK',
         \A k \in Keys : inbox[k] # "absent" => inbox'[k] # "absent",
         \A a \in Alerts : alerts'[a].is_triggered =>
            \/ inbox'[InboxKey(a, alerts'[a].triggered_on)] # "absent"
            \/ alerts[a].is_triggered /\ alerts'[a].triggered_on = alerts[a].triggered_on,
         sent' = sent
  PROVE  TriggeredHasInbox' /\ SendAfterCommit'
<1>1. \A a \in Alerts : \A d \in Days : InboxKey(a, d) \in Keys
  BY InboxKeyIsKey
<1>2. TriggeredHasInbox'
  <2> SUFFICES ASSUME NEW a \in Alerts, alerts'[a].is_triggered
               PROVE  inbox'[InboxKey(a, alerts'[a].triggered_on)] # "absent"
    BY DEF TriggeredHasInbox, InboxKey
  <2>1. CASE /\ alerts[a].is_triggered
             /\ alerts'[a].triggered_on = alerts[a].triggered_on
    <3>1. /\ inbox[InboxKey(a, alerts[a].triggered_on)] # "absent"
          /\ alerts[a].triggered_on \in Days
      BY <2>1 DEF Inv, TriggeredHasInbox, Dated
    <3> QED
      BY <1>1, <2>1, <3>1
  <2> QED
    BY <2>1
<1>3. SendAfterCommit'
  <2> SUFFICES ASSUME NEW a \in Alerts, NEW ch \in Channels, sent[a][ch] > 0
               PROVE  \E d \in Days : inbox'[InboxKey(a, d)] # "absent"
    BY DEF SendAfterCommit, InboxKey
  <2>1. PICK d \in Days : inbox[InboxKey(a, d)] # "absent"
    BY DEF Inv, SendAfterCommit
  <2> QED
    BY <1>1, <2>1
<1> QED
  BY <1>2, <1>3
-----------------------------------------------------------------------------
LEMMA InvInit == Init => Inv
<1> SUFFICES ASSUME Init PROVE Inv
  OBVIOUS
<1>1. TypeOK
  <2>1. alerts \in [Alerts -> Row]
    BY UnbornIsRow DEF Init
  <2>2. run \in [Checkers -> CheckerState]
    BY IdleIsState DEF Init
  <2> QED
    BY <2>1, <2>2, AlertsAssumption, InboxStart DEF Init, TypeOK
<1>2. \A a \in Alerts : ~alerts[a].is_triggered
  BY DEF Init, Unborn
<1>3. \A c \in Checkers : run[c].pc = "idle"
  BY DEF Init, Idle
<1>4. \A a \in Alerts, ch \in Channels : ~(sent[a][ch] > 0)
  BY DEF Init
<1>5. InHand
  BY <1>3 DEF InHand
<1>6. Dated /\ TriggeredHasInbox
  BY <1>2 DEF Dated, TriggeredHasInbox
<1>7. SendAfterCommit
  BY <1>4 DEF SendAfterCommit
<1> QED
  BY <1>1, <1>5, <1>6, <1>7 DEF Inv

(***************************************************************************)
(* Steps of the owner on an alert: the new row has the right shape and no   *)
(* alert becomes triggered.                                                 *)
(***************************************************************************)
LEMMA OwnerStep ==
  ASSUME Inv, NEW a \in Alerts, CreateAlert(a) \/ UpdateAlert(a) \/ DeleteAlert(a)
  PROVE  /\ alerts' \in [Alerts -> Row]
         /\ churn' \in 0..MaxChurn
         /\ \A b \in Alerts : alerts'[b].is_triggered =>
              /\ alerts[b].is_triggered
              /\ alerts'[b].triggered_on = alerts[b].triggered_on
         /\ \A b \in Alerts : alerts'[b].status = "unborn" => alerts[b].status = "unborn"
         /\ \A b \in Alerts : alerts'[b].status = "live" /\ ~alerts'[b].is_triggered =>
              alerts[b].status \in {"unborn", "live"} /\ ~alerts[b].is_triggered
         /\ UNCHANGED <<inbox, market, open, today, muted, run, sent, failures>>
<1>1. alerts \in [Alerts -> Row] /\ churn \in 0..MaxChurn /\ alerts[a] \in Row
  BY DEF Inv, TypeOK
<1>2. CASE CreateAlert(a)
  <2>1. PICK v \in Values, d \in UserDirections :
          alerts' = [alerts EXCEPT ![a] =
            [Unborn EXCEPT !.status = "live", !.is_active = TRUE, !.condition_value = v,
              !.condition_direction =
                 IF TypeOf[a] = "surge_drop" /\ d = "none" THEN "either" ELSE d]]
    BY <1>2 DEF CreateAlert
  <2>2. d \in Directions /\ "either" \in Directions
    BY AlertsAssumption DEF Directions
  <2> DEFINE dir == IF TypeOf[a] = "surge_drop" /\ d = "none" THEN "either" ELSE d
  <2>a. v \in Values \cup {0} /\ dir \in Directions
    BY <2>2
  <2>b. alerts'[a] = [Unborn EXCEPT !.status = "live", !.is_active = TRUE,
                        !.condition_value = v, !.condition_direction = dir]
    BY <1>1, <2>1
  <2> HIDE DEF dir
  <2>c. alerts'[a] = [status |-> "live", is_active |-> TRUE, is_triggered |-> FALSE,
                      triggered_on |-> 0, condition_value |-> v, condition_direction |-> dir]
    BY <2>b DEF Unborn
  <2>3. /\ alerts'[a] \in Row
        /\ alerts'[a].status = "live"
        /\ ~alerts'[a].is_triggered
    BY <2>a, <2>c, AlertsAssumption DEF Row
  <2>4. \A b \in Alerts \ {a} : alerts'[b] = alerts[b]
    BY <1>1, <2>1
  <2>5. alerts' \in [Alerts -> Row]
    BY <1>1, <2>1, <2>3, <2>4
  <2>6. alerts[a].status = "unborn" /\ ~alerts[a].is_triggered
    BY <1>2 DEF CreateAlert, Inv, Dated
  <2> QED
    BY <1>1, <1>2, <2>3, <2>4, <2>5, <2>6 DEF CreateAlert
<1>3. CASE UpdateAlert(a)
  <2>1. PICK v \in Values \cup {alerts[a].condition_value},
             d \in (UserDirections \ {"none"}) \cup {alerts[a].condition_direction},
             act \in BOOLEAN :
          alerts' = [alerts EXCEPT ![a].is_active = act, ![a].condition_value = v,
                                   ![a].condition_direction = d]
    BY <1>3 DEF UpdateAlert
  <2>2. v \in Values \cup {0} /\ d \in Directions
    BY <1>1, AlertsAssumption DEF Row
  <2>3. alerts'[a] = [alerts[a] EXCEPT !.is_active = act, !.condition_value = v,
                                       !.condition_direction = d]
    BY <1>1, <2>1
  <2>4. /\ alerts'[a] \in Row
        /\ alerts'[a].status = alerts[a].status
        /\ alerts'[a].is_triggered = alerts[a].is_triggered
        /\ alerts'[a].triggered_on = alerts[a].triggered_on
    <3>1. alerts'[a] = [status |-> alerts[a].status, is_active |-> act,
             is_triggered |-> alerts[a].is_triggered, triggered_on |-> alerts[a].triggered_on,
             condition_value |-> v, condition_direction |-> d]
      BY <1>1, <2>3 DEF Row
    <3> QED
      BY <1>1, <2>2, <3>1 DEF Row
  <2>5. \A b \in Alerts \ {a} : alerts'[b] = alerts[b]
    BY <1>1, <2>1
  <2>6. alerts' \in [Alerts -> Row]
    BY <1>1, <2>1, <2>4, <2>5
  <2>7. churn' \in 0..MaxChurn
    <3>1. Churn
      BY <1>3 DEF UpdateAlert
    <3> QED
      BY <1>1, <3>1, AlertsAssumption DEF Churn
  <2> QED
    BY <1>1, <1>3, <2>4, <2>5, <2>6, <2>7 DEF UpdateAlert, Live
<1>4. CASE DeleteAlert(a)
  <2>1. alerts' = [alerts EXCEPT ![a] = [Unborn EXCEPT !.status = "deleted"]]
    BY <1>4 DEF DeleteAlert
  <2>2. /\ alerts'[a] \in Row
        /\ alerts'[a].status = "deleted"
        /\ ~alerts'[a].is_triggered
    BY <1>1, <2>1, UnbornIsRow DEF Unborn, Row
  <2>3. \A b \in Alerts \ {a} : alerts'[b] = alerts[b]
    BY <1>1, <2>1
  <2>4. alerts' \in [Alerts -> Row]
    BY <1>1, <2>1, <2>2, <2>3
  <2>5. churn' \in 0..MaxChurn
    <3>1. Churn
      BY <1>4 DEF DeleteAlert
    <3> QED
      BY <1>1, <3>1, AlertsAssumption DEF Churn
  <2> QED
    BY <1>1, <1>4, <2>2, <2>3, <2>4, <2>5 DEF DeleteAlert
<1> QED
  BY <1>2, <1>3, <1>4
(***************************************************************************)
(* A step that leaves the alerts, the inbox and the messages alone keeps    *)
(* the invariant if it keeps the types and what the checkers hold is        *)
(* already recorded.                                                        *)
(***************************************************************************)
LEMMA QuietStep ==
  ASSUME Inv, UNCHANGED <<alerts, inbox, sent>>, TypeOK',
         \A c \in Checkers :
           \/ run'[c].pc \in {"idle", "loop"}
           \/ run'[c].pc = "write" /\ run'[c].cur \in Alerts
           \/ /\ run[c].pc # "idle" /\ run[c].pc # "loop" /\ run[c].pc # "write"
              /\ run'[c].cur = run[c].cur /\ run'[c].now = run[c].now
  PROVE  Inv'
<1>1. TriggeredHasInbox' /\ SendAfterCommit'
  BY DEF Inv, TriggeredHasInbox, SendAfterCommit, InboxKey
<1>2. Dated'
  BY DEF Inv, Dated
<1>3. InHand'
  <2> SUFFICES ASSUME NEW c \in Checkers
               PROVE  /\ run'[c].pc # "idle" /\ run'[c].pc # "loop" => run'[c].cur \in Alerts
                      /\ run'[c].pc \in {"email", "telegram"} =>
                           inbox'[InboxKey(run'[c].cur, run'[c].now)] # "absent"
    BY DEF InHand, InboxKey
  <2>1. run[c] \in CheckerState
    BY DEF Inv, TypeOK
  <2>2. CASE run'[c].pc \in {"idle", "loop"}
    BY <2>2
  <2>3. CASE run'[c].pc = "write" /\ run'[c].cur \in Alerts
    BY <2>3
  <2>4. CASE /\ run[c].pc # "idle" /\ run[c].pc # "loop" /\ run[c].pc # "write"
             /\ run'[c].cur = run[c].cur /\ run'[c].now = run[c].now
    <3>1. run[c].pc \in {"email", "telegram"}
      BY <2>1, <2>4 DEF CheckerState
    <3>2. /\ run[c].cur \in Alerts
          /\ inbox[InboxKey(run[c].cur, run[c].now)] # "absent"
      BY <3>1 DEF Inv, InHand
    <3> QED
      BY <2>4, <3>2
  <2> QED
    BY <2>2, <2>3, <2>4
<1> QED
  BY <1>1, <1>2, <1>3 DEF Inv

(***************************************************************************)
(* The steps of the owner.                                                  *)
(***************************************************************************)
LEMMA UserKeepsInv ==
  ASSUME Inv, User
  PROVE  Inv'
<1>1. ASSUME NEW a \in Alerts, CreateAlert(a) \/ UpdateAlert(a) \/ DeleteAlert(a)
      PROVE  Inv'
  <2>1. /\ alerts' \in [Alerts -> Row]
        /\ churn' \in 0..MaxChurn
        /\ \A b \in Alerts : alerts'[b].is_triggered =>
              /\ alerts[b].is_triggered
              /\ alerts'[b].triggered_on = alerts[b].triggered_on
        /\ \A b \in Alerts : alerts'[b].status = "unborn" => alerts[b].status = "unborn"
        /\ UNCHANGED <<inbox, market, open, today, muted, run, sent, failures>>
    BY <1>1, OwnerStep
  <2>2. TypeOK'
    BY <2>1 DEF Inv, TypeOK, InboxTypeOK
  <2>3. InHand'
    BY <2>1 DEF Inv, InHand, InboxKey
  <2>4. Dated'
    BY <2>1 DEF Inv, Dated
  <2>5. TriggeredHasInbox' /\ SendAfterCommit'
    BY <2>1, <2>2, InboxPartKept
  <2> QED
    BY <2>2, <2>3, <2>4, <2>5 DEF Inv
<1>2. CASE SetPreference
  <2>1. PICK u \in Users, t \in {TypeOf[a] : a \in Alerts}, ch \in Channels :
          muted' \in {muted \cup {<<u, t, ch>>}, muted \ {<<u, t, ch>>}}
    BY <1>2 DEF SetPreference
  <2>2. t \in AlertTypes
    BY AlertsAssumption
  <2>3. muted' \subseteq Users \X AlertTypes \X Channels
    BY <2>1, <2>2 DEF Inv, TypeOK
  <2>4. churn' \in 0..MaxChurn
    BY <1>2, AlertsAssumption DEF SetPreference, Churn, Inv, TypeOK
  <2>5. UNCHANGED <<inbox, alerts, market, open, today, run, sent, failures>>
    BY <1>2 DEF SetPreference
  <2>6. TypeOK'
    BY <2>3, <2>4, <2>5 DEF Inv, TypeOK, InboxTypeOK
  <2>7. \A c \in Checkers : run[c] \in CheckerState
    BY DEF Inv, TypeOK
  <2> QED
    BY <2>5, <2>6, <2>7, QuietStep DEF Inv, InHand, CheckerState
<1>3. CASE ReadInbox
  <2>1. [InboxNext]_inbox
    BY <1>3 DEF ReadInbox, InboxNext
  <2>2. /\ InboxTypeOK'
        /\ \A k \in Keys : inbox[k] # "absent" => inbox'[k] # "absent"
    BY <2>1, InboxStep DEF Inv, TypeOK
  <2>3. UNCHANGED <<alerts, market, open, today, muted, run, sent, churn, failures>>
    BY <1>3 DEF ReadInbox
  <2>4. TypeOK'
    BY <2>2, <2>3 DEF Inv, TypeOK
  <2>5. InHand'
    <3> SUFFICES ASSUME NEW c \in Checkers, run[c].pc \in {"email", "telegram"}
                 PROVE  inbox'[InboxKey(run[c].cur, run[c].now)] # "absent"
      BY <2>3 DEF Inv, InHand, InboxKey
    <3>1. /\ run[c].cur \in Alerts /\ run[c].now \in Days
          /\ inbox[InboxKey(run[c].cur, run[c].now)] # "absent"
      BY DEF Inv, InHand, TypeOK, CheckerState
    <3> QED
      BY <2>2, <3>1, InboxKeyIsKey
  <2>6. Dated'
    BY <2>3 DEF Inv, Dated
  <2>7. TriggeredHasInbox' /\ SendAfterCommit'
    BY <2>2, <2>3, <2>4, InboxPartKept
  <2> QED
    BY <2>4, <2>5, <2>6, <2>7 DEF Inv
<1> QED
  BY <1>1, <1>2, <1>3 DEF User

(***************************************************************************)
(* The steps of the environment, the crash included.                        *)
(***************************************************************************)
LEMMA EnvironmentKeepsInv ==
  ASSUME Inv, Environment
  PROVE  Inv'
<1>1. \A c \in Checkers : run[c] \in CheckerState
  BY DEF Inv, TypeOK
<1>2. CASE MarketMoves
  <2>1. PICK k \in Codes, q \in Quotes \cup {NoQuote} : market' = [market EXCEPT ![k] = q]
    BY <1>2 DEF MarketMoves
  <2>2. market' \in [Codes -> Quotes \cup {NoQuote}]
    BY <2>1 DEF Inv, TypeOK
  <2>3. churn' \in 0..MaxChurn
    BY <1>2, AlertsAssumption DEF MarketMoves, Churn, Inv, TypeOK
  <2>4. UNCHANGED <<inbox, alerts, open, today, muted, run, sent, failures>>
    BY <1>2 DEF MarketMoves
  <2>5. TypeOK'
    BY <2>2, <2>3, <2>4 DEF Inv, TypeOK, InboxTypeOK
  <2> QED
    BY <1>1, <2>4, <2>5, QuietStep DEF Inv, InHand, CheckerState
<1>3. CASE MarketOpens \/ MarketCloses \/ NextDay
  <2>1. open' \in BOOLEAN /\ today' \in Days
    <3>1. today \in 1..MaxDay /\ MaxDay \in Nat /\ Days = 1..MaxDay /\ open \in BOOLEAN
      BY AlertsAssumption DEF Inv, TypeOK
    <3>2. CASE MarketOpens
      BY <3>1, <3>2 DEF MarketOpens
    <3>3. CASE MarketCloses
      BY <3>1, <3>3 DEF MarketCloses
    <3>4. CASE NextDay
      <4>1. today' = today + 1 /\ today < MaxDay /\ open' = open
        BY <3>4 DEF NextDay
      <4>2. today' \in Days
        BY <3>1, <4>1
      <4> QED
        BY <3>1, <4>1, <4>2
    <3> QED
      BY <1>3, <3>2, <3>3, <3>4
  <2>2. UNCHANGED <<inbox, alerts, market, muted, run, sent, churn, failures>>
    BY <1>3 DEF MarketOpens, MarketCloses, NextDay
  <2>3. TypeOK'
    BY <2>1, <2>2 DEF Inv, TypeOK, InboxTypeOK
  <2> QED
    BY <1>1, <2>2, <2>3, QuietStep DEF Inv, InHand, CheckerState
<1>4. CASE Crash
  <2>1. failures' \in 0..MaxFailures
    BY <1>4, AlertsAssumption DEF Crash, Inv, TypeOK
  <2>2. run' \in [Checkers -> CheckerState] /\ \A c \in Checkers : run'[c].pc = "idle"
    BY <1>4, IdleIsState DEF Crash, Idle
  <2>3. UNCHANGED <<inbox, alerts, market, open, today, muted, sent, churn>>
    BY <1>4 DEF Crash
  <2>4. TypeOK'
    BY <2>1, <2>2, <2>3 DEF Inv, TypeOK, InboxTypeOK
  <2> QED
    BY <2>2, <2>3, <2>4, QuietStep
<1> QED
  BY <1>2, <1>3, <1>4 DEF Environment
(***************************************************************************)
(* A check that starts, looks at an alert or ends moves only what it holds. *)
(***************************************************************************)
LEMMA LoopKeepsInv ==
  ASSUME Inv, NEW c \in Checkers, StartCheck(c) \/ Evaluate(c) \/ FinishCheck(c)
  PROVE  Inv'
<1>1. /\ \A d \in Checkers : run[d] \in CheckerState
      /\ run \in [Checkers -> CheckerState]
      /\ alerts \in [Alerts -> Row]
  BY DEF Inv, TypeOK
<1>2. UNCHANGED <<inbox, alerts, market, open, today, muted, sent, churn, failures>>
  BY DEF StartCheck, Evaluate, FinishCheck
<1>3. PICK r \in CheckerState : /\ run' = [run EXCEPT ![c] = r]
                                /\ \/ r.pc \in {"idle", "loop"}
                                   \/ r.pc = "write" /\ r.cur \in Alerts
  <2>1. CASE StartCheck(c)
    <3> DEFINE r == [pc |-> "loop", todo |-> Selected,
                     mem |-> [a \in Alerts |-> IF a \in Selected THEN alerts[a] ELSE Unborn],
                     cur |-> NoAlert, now |-> today, broken |-> FALSE]
    <3>1. run' = [run EXCEPT ![c] = r]
      BY <2>1 DEF StartCheck
    <3>2. today \in Days /\ Selected \in SUBSET Alerts
      BY DEF Inv, TypeOK, Selected
    <3>3. [a \in Alerts |-> IF a \in Selected THEN alerts[a] ELSE Unborn] \in [Alerts -> Row]
      BY <1>1, UnbornIsRow
    <3>4. r \in CheckerState /\ r.pc = "loop"
      BY <3>2, <3>3 DEF CheckerState
    <3> HIDE DEF r
    <3> QED
      BY <3>1, <3>4
  <2>2. CASE Evaluate(c)
    <3>1. PICK a \in run[c].todo :
            LET fires == Fires(TypeOf[a], run[c].mem[a], market[CodeOf[a]])
            IN  run' = [run EXCEPT ![c] =
                  [pc |-> IF fires THEN "write" ELSE "loop", todo |-> run[c].todo \ {a},
                   mem |-> [run[c].mem EXCEPT ![a] = Unborn],
                   cur |-> IF fires THEN a ELSE NoAlert,
                   now |-> run[c].now, broken |-> run[c].broken]]
      BY <2>2 DEF Evaluate
    <3> DEFINE fires == Fires(TypeOf[a], run[c].mem[a], market[CodeOf[a]])
               r == [pc |-> IF fires THEN "write" ELSE "loop", todo |-> run[c].todo \ {a},
                     mem |-> [run[c].mem EXCEPT ![a] = Unborn],
                     cur |-> IF fires THEN a ELSE NoAlert,
                     now |-> run[c].now, broken |-> run[c].broken]
    <3>2. run' = [run EXCEPT ![c] = r]
      BY <3>1
    <3>3. /\ a \in Alerts
          /\ run[c].todo \ {a} \in SUBSET Alerts
          /\ [run[c].mem EXCEPT ![a] = Unborn] \in [Alerts -> Row]
          /\ run[c].now \in Days /\ run[c].broken \in BOOLEAN
      BY <1>1, UnbornIsRow DEF CheckerState
    <3> HIDE DEF fires
    <3>4. r \in CheckerState
      BY <3>3 DEF CheckerState
    <3>5. r.pc = "loop" \/ (r.pc = "write" /\ r.cur \in Alerts)
      BY <3>3
    <3> HIDE DEF r
    <3> QED
      BY <3>2, <3>4, <3>5
  <2>3. CASE FinishCheck(c)
    BY <2>3, IdleIsState DEF FinishCheck, Idle
  <2> QED
    BY <2>1, <2>2, <2>3
<1>4. run' \in [Checkers -> CheckerState]
  BY <1>1, <1>3
<1>5. TypeOK'
  BY <1>2, <1>4 DEF Inv, TypeOK, InboxTypeOK
<1>6. ASSUME NEW d \in Checkers
      PROVE  \/ run'[d].pc \in {"idle", "loop"}
             \/ run'[d].pc = "write" /\ run'[d].cur \in Alerts
             \/ /\ run[d].pc # "idle" /\ run[d].pc # "loop" /\ run[d].pc # "write"
                /\ run'[d].cur = run[d].cur /\ run'[d].now = run[d].now
  <2>1. CASE d = c
    BY <1>1, <1>3, <2>1
  <2>2. CASE d # c
    BY <1>1, <1>3, <2>2 DEF Inv, InHand, CheckerState
  <2> QED
    BY <2>1, <2>2
<1> QED
  BY <1>2, <1>5, <1>6, QuietStep

(***************************************************************************)
(* The transaction, committed or not.  In what the checkers hold, only the  *)
(* hand of c changes: to the first message after a commit, to nothing after *)
(* a failure.                                                               *)
(***************************************************************************)
LEMMA WriteKeepsInv ==
  ASSUME Inv, NEW c \in Checkers, Trigger(c) \/ TriggerFails(c)
  PROVE  Inv'
<1>1. /\ \A d \in Checkers : run[d] \in CheckerState
      /\ run \in [Checkers -> CheckerState]
      /\ run[c].pc = "write"
      /\ run[c].cur \in Alerts /\ run[c].now \in Days
  BY DEF Inv, TypeOK, InHand, Trigger, TriggerFails, CheckerState
<1>2. failures' \in 0..MaxFailures
  <2>1. failures \in 0..MaxFailures /\ MaxFailures \in Nat
    BY AlertsAssumption DEF Inv, TypeOK
  <2>2. failures' = failures \/ (failures < MaxFailures /\ failures' = failures + 1)
    BY DEF Trigger, TriggerFails
  <2> QED
    BY <2>1, <2>2
<1>3. UNCHANGED <<market, open, today, muted, sent, churn>>
  BY DEF Trigger, TriggerFails
<1>4. /\ run' \in [Checkers -> CheckerState]
      /\ \A d \in Checkers \ {c} : run'[d] = run[d]
      /\ \/ run'[c].pc = "idle"
         \/ /\ Triggered(run[c].cur, run[c].now)
            /\ run'[c].cur = run[c].cur /\ run'[c].now = run[c].now
  <2>1. CASE Trigger(c)
    <3>1. run' = [run EXCEPT ![c] = [run[c] EXCEPT !.pc = "email"]]
      BY <2>1 DEF Trigger
    <3>2. [run[c] EXCEPT !.pc = "email"] \in CheckerState
      BY <1>1 DEF CheckerState
    <3> QED
      BY <1>1, <2>1, <3>1, <3>2 DEF Trigger, CheckerState
  <2>2. CASE TriggerFails(c)
    BY <1>1, <2>2, IdleIsState DEF TriggerFails, Idle
  <2> QED
    BY <2>1, <2>2
<1>5. CASE UNCHANGED <<alerts, inbox>>
  <2>1. TypeOK'
    BY <1>2, <1>3, <1>4, <1>5 DEF Inv, TypeOK, InboxTypeOK
  <2>2. CASE run'[c].pc = "idle"
    <3>1. ASSUME NEW d \in Checkers
          PROVE  \/ run'[d].pc \in {"idle", "loop"}
                 \/ run'[d].pc = "write" /\ run'[d].cur \in Alerts
                 \/ /\ run[d].pc # "idle" /\ run[d].pc # "loop" /\ run[d].pc # "write"
                    /\ run'[d].cur = run[d].cur /\ run'[d].now = run[d].now
      BY <1>1, <1>4, <2>2 DEF Inv, InHand, CheckerState
    <3> QED
      BY <1>3, <1>5, <2>1, <3>1, QuietStep
  <2>3. CASE /\ Triggered(run[c].cur, run[c].now)
             /\ run'[c].cur = run[c].cur /\ run'[c].now = run[c].now
    <3>1. inbox[InboxKey(run[c].cur, run[c].now)] # "absent"
      BY <1>1, <1>5, <2>3, TriggeredEffect
    <3>2. InHand'
      BY <1>1, <1>4, <1>5, <2>3, <3>1 DEF Inv, InHand, InboxKey
    <3> QED
      BY <1>3, <1>5, <2>1, <3>2 DEF Inv, Dated, TriggeredHasInbox, SendAfterCommit, InboxKey
  <2> QED
    BY <1>4, <2>2, <2>3
<1>6. CASE Triggered(run[c].cur, run[c].now)
  <2> DEFINE a == run[c].cur
             d0 == run[c].now
  <2>1. a \in Alerts /\ d0 \in Days /\ Triggered(a, d0)
    BY <1>1, <1>6
  <2> HIDE DEF a, d0
  <2>2. /\ alerts' \in [Alerts -> Row]
        /\ InboxTypeOK'
        /\ \A k \in Keys : inbox[k] # "absent" => inbox'[k] # "absent"
        /\ inbox'[InboxKey(a, d0)] # "absent"
        /\ \A b \in Alerts \ {a} : alerts'[b] = alerts[b]
        /\ alerts'[a].status = alerts[a].status
        /\ alerts[a].status = "live" => alerts'[a].is_triggered /\ alerts'[a].triggered_on = d0
        /\ alerts[a].status # "live" => alerts'[a] = alerts[a]
    BY <2>1, TriggeredEffect
  <2>3. TypeOK'
    BY <1>2, <1>3, <1>4, <2>2 DEF Inv, TypeOK
  <2>4. Dated'
    BY <2>1, <2>2 DEF Inv, Dated
  <2>5. TriggeredHasInbox' /\ SendAfterCommit'
    <3>1. \A b \in Alerts : alerts'[b].is_triggered =>
            \/ inbox'[InboxKey(b, alerts'[b].triggered_on)] # "absent"
            \/ alerts[b].is_triggered /\ alerts'[b].triggered_on = alerts[b].triggered_on
      BY <2>2
    <3> QED
      BY <1>3, <2>2, <2>3, <3>1, InboxPartKept
  <2>6. InHand'
    <3>1. ASSUME NEW d \in Checkers \ {c}
          PROVE  /\ run'[d].pc # "idle" /\ run'[d].pc # "loop" => run'[d].cur \in Alerts
                 /\ run'[d].pc \in {"email", "telegram"} =>
                      inbox'[InboxKey(run'[d].cur, run'[d].now)] # "absent"
      <4>1. run'[d] = run[d] /\ run[d].now \in Days
        BY <1>1, <1>4 DEF CheckerState
      <4>2. run[d].cur \in Alerts => InboxKey(run[d].cur, run[d].now) \in Keys
        BY <4>1, InboxKeyIsKey
      <4> QED
        BY <2>2, <4>1, <4>2 DEF Inv, InHand
    <3>2. /\ run'[c].pc # "idle" /\ run'[c].pc # "loop" => run'[c].cur \in Alerts
          /\ run'[c].pc \in {"email", "telegram"} =>
               inbox'[InboxKey(run'[c].cur, run'[c].now)] # "absent"
      BY <1>4, <2>1, <2>2 DEF a, d0
    <3> QED
      BY <3>1, <3>2 DEF InHand, InboxKey
  <2> QED
    BY <2>3, <2>4, <2>5, <2>6 DEF Inv
<1> QED
  BY <1>5, <1>6 DEF Trigger, TriggerFails
(***************************************************************************)
(* After a channel the checker holds the same alert on the way to telegram, *)
(* or nothing.                                                              *)
(***************************************************************************)
LEMMA AfterChannelEffect ==
  ASSUME Inv, NEW c \in Checkers, NEW ch \in Channels, NEW b \in BOOLEAN,
         run' = AfterChannel(c, ch, b)
  PROVE  /\ run' \in [Checkers -> CheckerState]
         /\ \A d \in Checkers \ {c} : run'[d] = run[d]
         /\ \/ ch = "telegram" /\ run'[c].pc = "loop"
            \/ /\ ch = "email" /\ run'[c].pc = "telegram"
               /\ run'[c].cur = run[c].cur /\ run'[c].now = run[c].now
         /\ run'[c].todo = run[c].todo
<1> DEFINE r == [pc |-> IF ch = "telegram" THEN "loop" ELSE "telegram", todo |-> run[c].todo,
                 mem |-> run[c].mem, cur |-> IF ch = "telegram" THEN NoAlert ELSE run[c].cur,
                 now |-> run[c].now, broken |-> b]
<1>1. run \in [Checkers -> CheckerState] /\ run[c] \in CheckerState
  BY DEF Inv, TypeOK
<1>2. r \in CheckerState
  BY <1>1 DEF CheckerState
<1>3. run' = [run EXCEPT ![c] = r]
  BY DEF AfterChannel
<1>4. ch \in {"email", "telegram"}
  BY DEF Channels
<1> QED
  BY <1>1, <1>2, <1>3, <1>4

(***************************************************************************)
(* A message, or the failure to read the subscription it would go to.       *)
(***************************************************************************)
LEMMA MessageKeepsInv ==
  ASSUME Inv, NEW c \in Checkers, NEW ch \in Channels, Send(c, ch) \/ SendFails(c, ch)
  PROVE  Inv'
<1>1. /\ run \in [Checkers -> CheckerState] /\ run[c] \in CheckerState
      /\ run[c].pc = ch /\ run[c].pc \in {"email", "telegram"}
      /\ run[c].cur \in Alerts /\ run[c].now \in Days
      /\ inbox[InboxKey(run[c].cur, run[c].now)] # "absent"
  BY DEF Inv, TypeOK, InHand, Send, SendFails, CheckerState, Channels
<1>2. /\ run' \in [Checkers -> CheckerState]
      /\ \A d \in Checkers \ {c} : run'[d] = run[d]
      /\ \/ ch = "telegram" /\ run'[c].pc = "loop"
         \/ /\ ch = "email" /\ run'[c].pc = "telegram"
            /\ run'[c].cur = run[c].cur /\ run'[c].now = run[c].now
  <2>1. run' = AfterChannel(c, ch, FALSE) \/ run' = AfterChannel(c, ch, TRUE)
    BY DEF Send, SendFails
  <2> QED
    BY <2>1, AfterChannelEffect, FALSE \in BOOLEAN, TRUE \in BOOLEAN
<1>3. UNCHANGED <<inbox, alerts, market, open, today, muted, churn>>
  BY DEF Send, SendFails
<1>4. failures' \in 0..MaxFailures
  <2>1. failures \in 0..MaxFailures /\ MaxFailures \in Nat
    BY AlertsAssumption DEF Inv, TypeOK
  <2>2. failures' = failures \/ (failures < MaxFailures /\ failures' = failures + 1)
    BY DEF Send, SendFails
  <2> QED
    BY <2>1, <2>2
<1>5. \/ sent' = sent
      \/ sent' = [sent EXCEPT ![run[c].cur] =
                    [sent[run[c].cur] EXCEPT ![ch] = sent[run[c].cur][ch] + 1]]
  BY DEF Send, SendFails
<1>6. /\ sent' \in [Alerts -> [Channels -> Nat]]
      /\ \A a \in Alerts \ {run[c].cur} : sent'[a] = sent[a]
  <2>1. sent \in [Alerts -> [Channels -> Nat]] /\ sent[run[c].cur] \in [Channels -> Nat]
    BY <1>1 DEF Inv, TypeOK
  <2>2. sent[run[c].cur][ch] + 1 \in Nat
    BY <2>1
  <2>3. [sent[run[c].cur] EXCEPT ![ch] = sent[run[c].cur][ch] + 1] \in [Channels -> Nat]
    BY <2>1, <2>2
  <2> QED
    BY <1>1, <1>5, <2>1, <2>3
<1>7. TypeOK'
  BY <1>2, <1>3, <1>4, <1>6 DEF Inv, TypeOK, InboxTypeOK
<1>8. InHand'
  <2>1. \A d \in Checkers \ {c} :
          /\ run'[d].pc # "idle" /\ run'[d].pc # "loop" => run'[d].cur \in Alerts
          /\ run'[d].pc \in {"email", "telegram"} =>
               inbox'[InboxKey(run'[d].cur, run'[d].now)] # "absent"
    BY <1>2, <1>3 DEF Inv, InHand
  <2>2. /\ run'[c].pc # "idle" /\ run'[c].pc # "loop" => run'[c].cur \in Alerts
        /\ run'[c].pc \in {"email", "telegram"} =>
             inbox'[InboxKey(run'[c].cur, run'[c].now)] # "absent"
    BY <1>1, <1>2, <1>3
  <2> QED
    BY <2>1, <2>2 DEF InHand, InboxKey
<1>9. Dated' /\ TriggeredHasInbox'
  BY <1>3 DEF Inv, Dated, TriggeredHasInbox, InboxKey
<1>10. SendAfterCommit'
  <2> SUFFICES ASSUME NEW a \in Alerts, NEW h \in Channels, sent'[a][h] > 0
               PROVE  \E d \in Days : inbox[InboxKey(a, d)] # "absent"
    BY <1>3 DEF SendAfterCommit, InboxKey
  <2>1. CASE a = run[c].cur
    BY <1>1, <2>1
  <2>2. CASE a # run[c].cur
    BY <1>6, <2>2 DEF Inv, SendAfterCommit
  <2> QED
    BY <2>1, <2>2
<1> QED
  BY <1>7, <1>8, <1>9, <1>10 DEF Inv

(***************************************************************************)
(* Inv is inductive.                                                        *)
(***************************************************************************)
LEMMA InvStep == Inv /\ [Next]_vars => Inv'
<1> SUFFICES ASSUME Inv, [Next]_vars PROVE Inv'
  OBVIOUS
<1>1. CASE User
  BY <1>1, UserKeepsInv
<1>2. CASE Environment
  BY <1>2, EnvironmentKeepsInv
<1>3. ASSUME NEW c \in Checkers, Checker(c) PROVE Inv'
  BY <1>3, LoopKeepsInv, WriteKeepsInv, MessageKeepsInv DEF Checker
<1>4. CASE UNCHANGED vars
  BY <1>4 DEF vars, Inv, TypeOK, InboxTypeOK, InHand, Dated, TriggeredHasInbox,
     SendAfterCommit, InboxKey
<1> QED
  BY <1>1, <1>2, <1>3, <1>4 DEF Next

THEOREM InvHolds == Spec => []Inv
  BY InvInit, InvStep, PTL DEF Spec

(***************************************************************************)
(* Every variable keeps the shape the code gives it.                        *)
(***************************************************************************)
THEOREM TypeCorrect == Spec => []TypeOK
<1>1. Inv => TypeOK
  BY DEF Inv
<1> QED
  BY <1>1, InvHolds, PTL

(***************************************************************************)
(* A triggered alert has its row in the owner's inbox.                      *)
(***************************************************************************)
THEOREM InboxOfTriggered == Spec => []TriggeredHasInbox
<1>1. Inv => TriggeredHasInbox
  BY DEF Inv
<1> QED
  BY <1>1, InvHolds, PTL

(***************************************************************************)
(* No message about an alert the owner's inbox knows nothing of.            *)
(***************************************************************************)
THEOREM CommitBeforeSend == Spec => []SendAfterCommit
<1>1. Inv => SendAfterCommit
  BY DEF Inv
<1> QED
  BY <1>1, InvHolds, PTL
-----------------------------------------------------------------------------
(***************************************************************************)
(* Whatever a step of the alerts does to the inbox is a write the inbox     *)
(* allows, so what is proved of InboxSpec holds here too.                   *)
(***************************************************************************)
LEMMA InboxStepRefines == Inv /\ [Next]_vars => [InboxNext]_inbox
<1> SUFFICES ASSUME Inv, [Next]_vars PROVE [InboxNext]_inbox
  OBVIOUS
<1>1. ASSUME NEW c \in Checkers, Trigger(c) \/ TriggerFails(c) PROVE [InboxNext]_inbox
  <2>1. run[c].cur \in Alerts /\ run[c].now \in Days
    BY <1>1 DEF Inv, TypeOK, InHand, Trigger, TriggerFails, CheckerState
  <2>2. InboxKey(run[c].cur, run[c].now) \in Keys
    BY <2>1, InboxKeyIsKey
  <2>3. inbox' = inbox \/ inbox' = WithRows(inbox, {InboxKey(run[c].cur, run[c].now)})
    BY <1>1 DEF Trigger, TriggerFails, Triggered
  <2> QED
    BY <2>2, <2>3 DEF InboxNext
<1>2. CASE ReadInbox
  BY <1>2 DEF ReadInbox, InboxNext
<1>3. CASE \/ \E a \in Alerts : CreateAlert(a) \/ UpdateAlert(a) \/ DeleteAlert(a)
           \/ SetPreference \/ Environment \/ UNCHANGED vars
  BY <1>3 DEF CreateAlert, UpdateAlert, DeleteAlert, SetPreference, Environment, MarketMoves,
     MarketOpens, MarketCloses, NextDay, Crash, vars
<1>4. ASSUME NEW c \in Checkers, \/ StartCheck(c) \/ Evaluate(c) \/ FinishCheck(c)
                                 \/ \E ch \in Channels : Send(c, ch) \/ SendFails(c, ch)
      PROVE  UNCHANGED inbox
  BY <1>4 DEF StartCheck, Evaluate, FinishCheck, Send, SendFails
<1> QED
  BY <1>1, <1>2, <1>3, <1>4 DEF Next, User, Checker

(***************************************************************************)
(* The general alerts implement the inbox.                                  *)
(***************************************************************************)
THEOREM ImplementsInbox == Spec => InboxSpec
<1>1. Init => InboxInit
  BY DEF Init
<1> QED
  BY <1>1, InboxStepRefines, InvHolds, PTL DEF Spec, InboxSpec

(***************************************************************************)
(* One step cannot take is_triggered away from a row that stays.            *)
(***************************************************************************)
LEMMA LatchStep ==
  Inv /\ [Next]_vars => \A a \in Alerts : alerts[a].is_triggered /\ alerts'[a].status = "live"
                                         => alerts'[a].is_triggered
<1> SUFFICES ASSUME Inv, [Next]_vars, NEW a \in Alerts, alerts[a].is_triggered,
                    alerts'[a].status = "live"
             PROVE  alerts'[a].is_triggered
  OBVIOUS
<1>1. ASSUME NEW b \in Alerts, CreateAlert(b) \/ UpdateAlert(b) \/ DeleteAlert(b)
      PROVE  alerts'[a].is_triggered
  <2>1. alerts' \in [Alerts -> Row] /\ \A d \in Alerts :
          alerts'[d].status = "live" /\ ~alerts'[d].is_triggered => ~alerts[d].is_triggered
    BY <1>1, OwnerStep
  <2> QED
    BY <2>1 DEF Row
<1>2. ASSUME NEW c \in Checkers, Trigger(c) \/ TriggerFails(c)
      PROVE  alerts'[a].is_triggered
  <2>1. run[c].cur \in Alerts /\ run[c].now \in Days
    BY <1>2 DEF Inv, TypeOK, InHand, Trigger, TriggerFails, CheckerState
  <2>2. alerts' = alerts \/ Triggered(run[c].cur, run[c].now)
    BY <1>2 DEF Trigger, TriggerFails
  <2>3. CASE Triggered(run[c].cur, run[c].now)
    <3>1. /\ \A b \in Alerts \ {run[c].cur} : alerts'[b] = alerts[b]
          /\ alerts[run[c].cur].status = "live" => alerts'[run[c].cur].is_triggered
          /\ alerts[run[c].cur].status # "live" => alerts'[run[c].cur] = alerts[run[c].cur]
      BY <2>1, <2>3, TriggeredEffect
    <3> QED
      BY <3>1
  <2> QED
    BY <2>2, <2>3
<1>3. CASE SetPreference \/ ReadInbox \/ Environment \/ UNCHANGED vars
  BY <1>3 DEF SetPreference, ReadInbox, Environment, MarketMoves, MarketOpens, MarketCloses,
     NextDay, Crash, vars
<1>4. ASSUME NEW c \in Checkers, \/ StartCheck(c) \/ Evaluate(c) \/ FinishCheck(c)
                                 \/ \E ch \in Channels : Send(c, ch) \/ SendFails(c, ch)
      PROVE  UNCHANGED alerts
  BY <1>4 DEF StartCheck, Evaluate, FinishCheck, Send, SendFails
<1> QED
  BY <1>1, <1>2, <1>3, <1>4 DEF Next, User, Checker

(***************************************************************************)
(* An alert that has triggered stays triggered for as long as it exists.    *)
(***************************************************************************)
THEOREM Latched == Spec => TriggeredIsLatched
<1>1. Inv /\ [Next]_vars =>
        [\A a \in Alerts : alerts[a].is_triggered /\ alerts'[a].status = "live"
           => alerts'[a].is_triggered]_vars
  BY LatchStep
<1> QED
  BY <1>1, InvHolds, PTL DEF Spec, TriggeredIsLatched
-----------------------------------------------------------------------------
(***************************************************************************)
(* Checks that do not overlap send at most once.  An alert is spent once it *)
(* can no longer be selected; messages only ever concern spent alerts, and  *)
(* the one check there is counts as sent what it has not sent yet as zero.  *)
(***************************************************************************)
Unsent(a) == \A ch \in Channels : sent[a][ch] = 0

Spent(a) == \/ alerts[a].status = "deleted"
            \/ alerts[a].status = "live" /\ alerts[a].is_triggered

(* The alerts a check still has to look at, and the one it holds. *)
Pending(c) ==
  /\ \A a \in run[c].todo : Unsent(a) /\ alerts[a].status # "unborn"
  /\ run[c].pc # "idle" /\ run[c].pc # "loop" => run[c].cur \notin run[c].todo
  /\ run[c].pc = "write" => Unsent(run[c].cur) /\ alerts[run[c].cur].status # "unborn"
  /\ run[c].pc = "email" => Unsent(run[c].cur) /\ Spent(run[c].cur)
  /\ run[c].pc = "telegram" => sent[run[c].cur]["telegram"] = 0 /\ Spent(run[c].cur)

OnceInv ==
  /\ \A a \in Alerts : ~Spent(a) => Unsent(a)
  /\ \A c \in Checkers : Pending(c)
  /\ AtMostOneSend

OneAtATime == \A c, d \in Checkers : c = d

LEMMA OnceInit == Init => OnceInv
<1> SUFFICES ASSUME Init PROVE OnceInv
  OBVIOUS
<1>1. \A a \in Alerts : Unsent(a)
  BY DEF Init, Unsent
<1>2. \A c \in Checkers : Pending(c)
  BY DEF Init, Idle, Pending
<1>3. AtMostOneSend
  BY DEF Init, AtMostOneSend
<1> QED
  BY <1>1, <1>2, <1>3 DEF OnceInv

(***************************************************************************)
(* Steps that send nothing: it is enough that a spent alert stays spent, a  *)
(* row that exists goes on existing, and what c has in hand is in order.    *)
(***************************************************************************)
LEMMA OnceKept ==
  ASSUME Inv, OnceInv, sent' = sent,
         \A a \in Alerts :
           /\ Spent(a) => Spent(a)'
           /\ alerts[a].status # "unborn" => alerts'[a].status # "unborn",
         \A c \in Checkers : run'[c] = run[c] \/ Pending(c)'
  PROVE  OnceInv'
<1>1. \A a \in Alerts : Unsent(a)' <=> Unsent(a)
  BY DEF Unsent
<1>2. \A a \in Alerts : ~Spent(a)' => Unsent(a)'
  BY <1>1 DEF OnceInv, Spent, Unsent
<1>3. AtMostOneSend'
  BY DEF OnceInv, AtMostOneSend
<1>4. ASSUME NEW c \in Checkers PROVE Pending(c)'
  <2>1. CASE run'[c] = run[c]
    <3>1. run[c] \in CheckerState
      BY DEF Inv, TypeOK
    <3>2. run[c].todo \subseteq Alerts
      BY <3>1 DEF CheckerState
    <3>3. run[c].pc # "idle" /\ run[c].pc # "loop" => run[c].cur \in Alerts
      BY DEF Inv, InHand
    <3>4. Pending(c)
      BY DEF OnceInv
    <3> QED
      BY <2>1, <3>2, <3>3, <3>4 DEF Pending, Unsent, Spent
  <2> QED
    BY <2>1
<1> QED
  BY <1>2, <1>3, <1>4 DEF OnceInv
(***************************************************************************)
(* OnceInv is inductive when checks do not overlap.                         *)
(***************************************************************************)
LEMMA OnceStep ==
  ASSUME OneAtATime, Inv, OnceInv, [Next]_vars
  PROVE  OnceInv'
<1>1. ASSUME NEW a \in Alerts, CreateAlert(a) \/ UpdateAlert(a) \/ DeleteAlert(a)
      PROVE  OnceInv'
  <2>1. /\ \A b \in Alerts : alerts'[b].status = "unborn" => alerts[b].status = "unborn"
        /\ \A b \in Alerts : alerts'[b].status = "live" /\ ~alerts'[b].is_triggered =>
              alerts[b].status \in {"unborn", "live"} /\ ~alerts[b].is_triggered
        /\ alerts' \in [Alerts -> Row]
        /\ UNCHANGED <<run, sent>>
    BY <1>1, OwnerStep
  <2>2. ASSUME NEW b \in Alerts, Spent(b)
        PROVE  Spent(b)'
    <3>1. alerts'[b].status \in {"unborn", "live", "deleted"}
      BY <2>1 DEF Row
    <3> QED
      BY <2>1, <2>2, <3>1 DEF Spent
  <2> QED
    BY <2>1, <2>2, OnceKept
<1>2. CASE SetPreference \/ ReadInbox \/ Environment \/ UNCHANGED vars
  <2>1. sent' = sent /\ alerts' = alerts /\ (run' = run \/ Crash)
    BY <1>2 DEF SetPreference, ReadInbox, Environment, MarketMoves, MarketOpens, MarketCloses,
       NextDay, Crash, vars
  <2>2. \A a \in Alerts :
           /\ Spent(a) => Spent(a)'
           /\ alerts[a].status # "unborn" => alerts'[a].status # "unborn"
    BY <2>1 DEF Spent
  <2>3. \A c \in Checkers : run'[c] = run[c] \/ Pending(c)'
    BY <2>1 DEF Crash, Idle, Pending
  <2> QED
    BY <2>1, <2>2, <2>3, OnceKept
<1>3. ASSUME NEW c \in Checkers, StartCheck(c) \/ Evaluate(c) \/ FinishCheck(c)
      PROVE  OnceInv'
  <2>1. /\ UNCHANGED <<alerts, sent>>
        /\ run \in [Checkers -> CheckerState] /\ run[c] \in CheckerState
    BY <1>3 DEF StartCheck, Evaluate, FinishCheck, Inv, TypeOK
  <2>2. \A a \in Alerts :
           /\ Spent(a) => Spent(a)'
           /\ alerts[a].status # "unborn" => alerts'[a].status # "unborn"
    BY <2>1 DEF Spent
  <2>3. \A a \in Alerts : Unsent(a)' <=> Unsent(a)
    BY <2>1 DEF Unsent
  <2>4. Pending(c)'
    <3>1. CASE StartCheck(c)
      <4>1. run'[c].pc = "loop" /\ run'[c].todo = Selected
        BY <2>1, <3>1 DEF StartCheck
      <4>2. \A a \in Selected : Unsent(a) /\ alerts[a].status # "unborn"
        BY DEF Selected, Live, Spent, OnceInv
      <4> QED
        BY <2>1, <2>3, <4>1, <4>2 DEF Pending, Selected
    <3>2. CASE Evaluate(c)
      <4>1. PICK a \in run[c].todo :
              /\ run'[c].todo = run[c].todo \ {a}
              /\ run'[c].pc = "loop" \/ (run'[c].pc = "write" /\ run'[c].cur = a)
        BY <2>1, <3>2 DEF Evaluate
      <4>2. \A b \in run[c].todo : b \in Alerts /\ Unsent(b) /\ alerts[b].status # "unborn"
        BY <2>1 DEF OnceInv, Pending, CheckerState
      <4>3. \A b \in run[c].todo : Unsent(b)' /\ alerts'[b].status # "unborn"
        BY <2>1, <2>3, <4>2
      <4> QED
        BY <4>1, <4>3 DEF Pending
    <3>3. CASE FinishCheck(c)
      BY <2>1, <3>3 DEF FinishCheck, Idle, Pending
    <3> QED
      BY <1>3, <3>1, <3>2, <3>3
  <2>5. \A d \in Checkers : d = c
    BY DEF OneAtATime
  <2> QED
    BY <2>1, <2>2, <2>4, <2>5, OnceKept
<1>4. ASSUME NEW c \in Checkers, Trigger(c) \/ TriggerFails(c)
      PROVE  OnceInv'
  <2>1. /\ run \in [Checkers -> CheckerState] /\ run[c] \in CheckerState
        /\ run[c].cur \in Alerts /\ run[c].now \in Days /\ run[c].pc = "write"
        /\ run[c].todo \subseteq Alerts
    BY <1>4 DEF Trigger, TriggerFails, Inv, TypeOK, InHand, CheckerState
  <2>2. /\ Unsent(run[c].cur) /\ alerts[run[c].cur].status # "unborn"
        /\ run[c].cur \notin run[c].todo
        /\ \A a \in run[c].todo : Unsent(a) /\ alerts[a].status # "unborn"
    BY <2>1 DEF OnceInv, Pending
  <2>3. sent' = sent
    BY <1>4 DEF Trigger, TriggerFails
  <2>4. CASE alerts' = alerts /\ TriggerFails(c)
    <3>1. \A a \in Alerts :
             /\ Spent(a) => Spent(a)'
             /\ alerts[a].status # "unborn" => alerts'[a].status # "unborn"
      BY <2>4 DEF Spent
    <3>2. \A d \in Checkers : Pending(d)'
      BY <2>1, <2>4 DEF TriggerFails, Idle, Pending, OneAtATime
    <3> QED
      BY <2>3, <3>1, <3>2, OnceKept
  <2>5. CASE Triggered(run[c].cur, run[c].now)
    <3>1. /\ alerts' \in [Alerts -> Row]
          /\ \A b \in Alerts \ {run[c].cur} : alerts'[b] = alerts[b]
          /\ alerts'[run[c].cur].status = alerts[run[c].cur].status
          /\ alerts[run[c].cur].status = "live" => alerts'[run[c].cur].is_triggered
          /\ alerts[run[c].cur].status # "live" => alerts'[run[c].cur] = alerts[run[c].cur]
      BY <2>1, <2>5, TriggeredEffect
    <3>2. \A a \in Alerts :
             /\ Spent(a) => Spent(a)'
             /\ alerts[a].status # "unborn" => alerts'[a].status # "unborn"
      BY <3>1 DEF Spent
    <3>3. PICK a \in Alerts : a = run[c].cur
      BY <2>1
    <3>4. Spent(a)' /\ Unsent(a)' /\ a \notin run[c].todo
      <4>1. alerts[a].status \in {"live", "deleted"}
        <5>1. alerts[a] \in Row
          BY DEF Inv, TypeOK
        <5> QED
          BY <2>2, <3>3, <5>1 DEF Row
      <4>2. \/ alerts'[a].status = "deleted"
            \/ alerts'[a].status = "live" /\ alerts'[a].is_triggered
        BY <3>1, <3>3, <4>1
      <4> QED
        BY <2>2, <2>3, <3>3, <4>2 DEF Spent, Unsent
    <3>5. \A b \in run[c].todo : Unsent(b)' /\ alerts'[b].status # "unborn"
      BY <2>1, <2>2, <2>3, <3>2 DEF Unsent
    <3>6. Pending(c)'
      <4>1. CASE Trigger(c)
        <5>1. run'[c].pc = "email" /\ run'[c].cur = a /\ run'[c].todo = run[c].todo
          BY <2>1, <3>3, <4>1 DEF Trigger, CheckerState
        <5> QED
          BY <3>4, <3>5, <5>1 DEF Pending
      <4>2. CASE TriggerFails(c)
        BY <2>1, <4>2 DEF TriggerFails, Idle, Pending
      <4> QED
        BY <1>4, <4>1, <4>2
    <3> QED
      BY <2>3, <3>2, <3>6, OnceKept DEF OneAtATime
  <2> QED
    BY <1>4, <2>4, <2>5 DEF Trigger, TriggerFails
<1>5. ASSUME NEW c \in Checkers, NEW ch \in Channels, Send(c, ch) \/ SendFails(c, ch)
      PROVE  OnceInv'
  <2>1. /\ run \in [Checkers -> CheckerState] /\ run[c] \in CheckerState
        /\ run[c].cur \in Alerts /\ run[c].pc = ch /\ ch \in {"email", "telegram"}
        /\ run[c].todo \subseteq Alerts
        /\ sent \in [Alerts -> [Channels -> Nat]]
        /\ alerts' = alerts
    BY <1>5 DEF Send, SendFails, Inv, TypeOK, InHand, CheckerState, Channels
  <2>2. PICK a \in Alerts : a = run[c].cur
    BY <2>1
  <2>3. /\ a \notin run[c].todo /\ Spent(a) /\ sent[a][ch] = 0
        /\ ch = "email" => sent[a]["telegram"] = 0
        /\ \A b \in run[c].todo : Unsent(b) /\ alerts[b].status # "unborn"
    BY <2>1, <2>2 DEF OnceInv, Pending, Unsent, Channels
  <2>4. /\ \/ ch = "telegram" /\ run'[c].pc = "loop"
           \/ ch = "email" /\ run'[c].pc = "telegram" /\ run'[c].cur = a
        /\ run'[c].todo = run[c].todo
    <3>1. run' = AfterChannel(c, ch, FALSE) \/ run' = AfterChannel(c, ch, TRUE)
      BY <1>5 DEF Send, SendFails
    <3> QED
      BY <1>5, <2>2, <3>1, AfterChannelEffect, FALSE \in BOOLEAN, TRUE \in BOOLEAN
         DEF Send, SendFails
  <2>5. sent' = sent \/ sent' = [sent EXCEPT ![a] = [sent[a] EXCEPT ![ch] = 1]]
    <3>1. \/ sent' = sent
          \/ sent' = [sent EXCEPT ![a] = [sent[a] EXCEPT ![ch] = sent[a][ch] + 1]]
      BY <1>5, <2>2 DEF Send, SendFails
    <3> QED
      BY <2>3, <3>1
  <2>6. /\ \A b \in Alerts \ {a} : sent'[b] = sent[b]
        /\ \A h \in Channels \ {ch} : sent'[a][h] = sent[a][h]
        /\ sent'[a][ch] \in {0, 1}
    BY <2>1, <2>3, <2>5
  <2>7. \A b \in Alerts : ~Spent(b)' => Unsent(b)'
    BY <2>1, <2>3, <2>6 DEF OnceInv, Spent, Unsent
  <2>8. AtMostOneSend'
    <3> SUFFICES ASSUME NEW b \in Alerts, NEW h \in Channels PROVE sent'[b][h] =< 1
      BY DEF AtMostOneSend
    <3>1. sent[b][h] =< 1
      BY DEF OnceInv, AtMostOneSend
    <3>2. CASE b = a /\ h = ch
      BY <2>6, <3>2
    <3>3. CASE b # a \/ h # ch
      BY <2>6, <3>1, <3>3
    <3> QED
      BY <3>2, <3>3
  <2>9. Pending(c)'
    <3>1. \A b \in run[c].todo : Unsent(b)' /\ alerts'[b].status # "unborn"
      BY <2>1, <2>3, <2>6 DEF Unsent
    <3>2. Spent(a)' /\ (ch = "email" => sent'[a]["telegram"] = 0)
      BY <2>1, <2>3, <2>6 DEF Spent, Channels
    <3> QED
      BY <2>3, <2>4, <3>1, <3>2 DEF Pending
  <2> QED
    BY <2>7, <2>8, <2>9 DEF OnceInv, OneAtATime
<1> QED
  BY <1>1, <1>2, <1>3, <1>4, <1>5 DEF Next, User, Checker

(***************************************************************************)
(* While no two checks overlap - the scheduler alone, max_instances = 1 -   *)
(* an alert is mailed at most once and messaged at most once, through any   *)
(* edits, crashes and failed transactions.                                  *)
(***************************************************************************)
THEOREM OneCheckSendsOnce ==
  ASSUME OneAtATime
  PROVE  Spec => []AtMostOneSend
<1>1. Inv /\ OnceInv /\ [Next]_vars => (Inv /\ OnceInv)'
  BY InvStep, OnceStep
<1>2. Inv /\ OnceInv => AtMostOneSend
  BY DEF OnceInv
<1> QED
  BY <1>1, <1>2, InvInit, OnceInit, PTL DEF Spec
=============================================================================
