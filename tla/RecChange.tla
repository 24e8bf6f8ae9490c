----------------------------- MODULE RecChange -----------------------------
(***************************************************************************)
(* The last steps of the daily and the intraday pipeline: a recommendation *)
(* run stores its rows, then check_rec_changes and check_rec_score_changes *)
(* compare the two latest trade dates and notify the users who watch a     *)
(* stock.  Both checks are synchronous: no coroutine runs while they do,   *)
(* but the watch list routes run in threads of their own and a crash can   *)
(* fall anywhere.  A check inserts into the inbox in one transaction that   *)
(* it commits at its end, and mails as it goes.                            *)
(***************************************************************************)
EXTENDS NotificationInbox, Integers

CONSTANTS
  Codes,        \* krx codes
  Scores,       \* total scores (in tenths)
  Threshold,    \* _SCORE_DELTA_THRESHOLD
  MaxDay, MaxRuns, MaxFailures   \* bounds

Types == {"rec_new", "rec_dropped", "rec_score_change"}

ASSUME RecChangeAssumption ==
  /\ MaxDay \in Nat \ {0} /\ Days = 1..MaxDay
  /\ Topics = Types \X Codes
  /\ Scores \subseteq Int /\ Threshold \in Int
  /\ MaxRuns \in Nat /\ MaxFailures \in Nat

VARIABLES
  today,
  rows,      \* the committed `recommendations` rows: [day, code, score]
  watch,     \* the watch lists: <<user, code>>
  job,       \* the pipeline: step, dates compared, topics and users still to serve
  pending,   \* inbox rows inserted and not yet committed
  mailed,    \* messages sent so far, per inbox key
  steady,    \* watched ever since the last check began, unless it failed
  runs, failures

vars == <<inbox, today, rows, watch, job, pending, mailed, steady, runs, failures>>

Row == [day : Days, code : Codes, score : Scores]

NoJob == [pc |-> "idle", day |-> 1, prev |-> 0, topics |-> {}, topic |-> <<>>, users |-> {}]

Init ==
  /\ InboxInit
  /\ today = 1
  /\ rows = {}
  /\ watch \in SUBSET (Users \X Codes)
  /\ job = NoJob
  /\ pending = {}
  /\ mailed = [k \in Keys |-> 0]
  /\ steady = {}
  /\ runs = 0
  /\ failures = 0
-----------------------------------------------------------------------------
(* _get_latest_two_trade_dates and the rows of a date. *)
TradeDates == {r.day : r \in rows}

(* Mutant: ORDER BY without DESC. *)
LatestAscending(S) == CHOOSE d \in S : \A e \in S : d =< e

Latest(S) == CHOOSE d \in S : \A e \in S : e =< d

CodesOn(d) == {r.code : r \in {x \in rows : x.day = d}}

(* The dictionary of a date's scores: with several rows for a code, any one of
   them may be the last the cursor returns. *)
ScoreMaps(d) == {f \in [CodesOn(d) -> Scores] :
                   \A c \in CodesOn(d) : [day |-> d, code |-> c, score |-> f[c]] \in rows}

Distance(x, y) == IF x < y THEN y - x ELSE x - y

(* What each check has to tell, comparing new with prev. *)
Changes(new, prev) ==
  ({"rec_new"} \X (CodesOn(new) \ CodesOn(prev)))
    \cup ({"rec_dropped"} \X (CodesOn(prev) \ CodesOn(new)))

ScoreChanges(f, g) ==
  {"rec_score_change"} \X
    {c \in DOMAIN f \cap DOMAIN g : Distance(f[c], g[c]) >= Threshold}

(* The topics a check may find. *)
Findings(pc, new, prev) ==
  IF pc = "changes" THEN {Changes(new, prev)}
  ELSE {ScoreChanges(f, g) : f \in ScoreMaps(new), g \in ScoreMaps(prev)}
-----------------------------------------------------------------------------
(***************************************************************************)
(* The pipeline.                                                           *)
(***************************************************************************)
StartPipeline ==
  /\ job.pc = "idle"
  /\ runs < MaxRuns
  /\ runs' = runs + 1
  /\ job' = [NoJob EXCEPT !.pc = "recommend", !.day = today]
  /\ UNCHANGED <<inbox, today, rows, watch, pending, mailed, steady, failures>>

(* run_recommendation commits the rows of the date it started on: none when
   its list was cached or nothing was aggregated. *)
Recommend ==
  /\ job.pc = "recommend"
  /\ \E C \in SUBSET Codes : \E f \in [C -> Scores] :
       rows' = rows \cup {[day |-> job.day, code |-> c, score |-> f[c]] : c \in C}
  /\ job' = [job EXCEPT !.pc = "changes"]
  /\ UNCHANGED <<inbox, today, watch, pending, mailed, steady, runs, failures>>

(* A check opens its session and compares the two latest dates; with fewer
   than two it returns at once. *)
AfterCheck(pc) == IF pc = "changes" THEN "scores" ELSE "idle"

Compare(pc, loop) ==
  /\ job.pc = pc
  /\ IF Cardinality(TradeDates) < 2
     THEN job' = [NoJob EXCEPT !.pc = AfterCheck(pc)]
     ELSE LET new == Latest(TradeDates)
              prev == Latest(TradeDates \ {new})
          IN  \E T \in Findings(pc, new, prev) :
                job' = [NoJob EXCEPT !.pc = loop, !.day = new, !.prev = prev, !.topics = T]
  /\ steady' = watch
  /\ UNCHANGED <<inbox, today, rows, watch, pending, mailed, runs, failures>>

CompareCodes == Compare("changes", "tell_changes")
CompareScores == Compare("scores", "tell_scores")

Telling == job.pc \in {"tell_changes", "tell_scores"}

(* The next code, the new ones before the dropped ones: the users watching it
   are read now. *)
NextTopic ==
  /\ Telling
  /\ job.users = {}
  /\ \E t \in job.topics :
       /\ t[1] = "rec_dropped" => ~ \E s \in job.topics : s[1] = "rec_new"
       /\ job' = [job EXCEPT !.topics = @ \ {t}, !.topic = t,
                             !.users = {u \in Users : <<u, t[2]>> \in watch}]
  /\ UNCHANGED <<inbox, today, rows, watch, pending, mailed, steady, runs, failures>>

(* Mutant: who has had the message is taken for told. *)
TellUnlessMailed(u) ==
  /\ Telling
  /\ u \in job.users
  /\ LET key == <<u, job.topic, job.day>>
     IN  /\ pending' = IF mailed[key] > 0 THEN pending ELSE pending \cup {key}
         /\ mailed' \in {mailed, [mailed EXCEPT ![key] = @ + 1]}
  /\ job' = [job EXCEPT !.users = @ \ {u}]
  /\ UNCHANGED <<inbox, today, rows, watch, steady, runs, failures>>

(* The next user: insert, then mail and message unless the preferences say no,
   nobody is subscribed, or the server does not take it. *)
Tell(u) ==
  /\ Telling
  /\ u \in job.users
  /\ LET key == <<u, job.topic, job.day>>
     IN  /\ pending' = pending \cup {key}
         /\ mailed' \in {mailed, [mailed EXCEPT ![key] = @ + 1]}
  /\ job' = [job EXCEPT !.users = @ \ {u}]
  /\ UNCHANGED <<inbox, today, rows, watch, steady, runs, failures>>

EndOfCheck == IF job.pc = "tell_changes" THEN "scores" ELSE "idle"

(* Mutants: the check closes without a commit; its upsert resets is_read. *)
CommitCheckForgotten ==
  /\ Telling
  /\ job.users = {} /\ job.topics = {}
  /\ pending' = {}
  /\ job' = [NoJob EXCEPT !.pc = EndOfCheck]
  /\ UNCHANGED <<inbox, today, rows, watch, mailed, steady, runs, failures>>

CommitCheckUpserts ==
  /\ Telling
  /\ job.users = {} /\ job.topics = {}
  /\ inbox' = [k \in Keys |-> IF k \in pending THEN "unread" ELSE inbox[k]]
  /\ pending' = {}
  /\ job' = [NoJob EXCEPT !.pc = EndOfCheck]
  /\ UNCHANGED <<today, rows, watch, mailed, steady, runs, failures>>

CommitCheck ==
  /\ Telling
  /\ job.users = {} /\ job.topics = {}
  /\ inbox' = WithRows(inbox, pending)
  /\ pending' = {}
  /\ job' = [NoJob EXCEPT !.pc = EndOfCheck]
  /\ UNCHANGED <<today, rows, watch, mailed, steady, runs, failures>>

(* A statement of the check raises, say an insert for a user who is gone: the
   transaction is lost, the pipeline logs it and goes on. *)
CheckRaises ==
  /\ Telling
  /\ failures < MaxFailures
  /\ failures' = failures + 1
  /\ pending' = {}
  /\ steady' = {}
  /\ job' = [NoJob EXCEPT !.pc = EndOfCheck]
  /\ UNCHANGED <<inbox, today, rows, watch, mailed, runs>>

Crash ==
  /\ failures < MaxFailures
  /\ failures' = failures + 1
  /\ job' = NoJob
  /\ pending' = {}
  /\ steady' = {}
  /\ UNCHANGED <<inbox, today, rows, watch, mailed, runs>>
-----------------------------------------------------------------------------
(* add_to_watchlist and remove_from_watchlist. *)
Watch(u, c) ==
  /\ \/ watch' = watch \cup {<<u, c>>} /\ UNCHANGED steady
     \/ watch' = watch \ {<<u, c>>} /\ steady' = steady \ {<<u, c>>}
  /\ UNCHANGED <<inbox, today, rows, job, pending, mailed, runs, failures>>

ReadInbox ==
  /\ \E u \in Users : MarkAsRead(u) \/ MarkAllRead(u)
  /\ UNCHANGED <<today, rows, watch, job, pending, mailed, steady, runs, failures>>

Midnight ==
  /\ today < MaxDay
  /\ today' = today + 1
  /\ UNCHANGED <<inbox, rows, watch, job, pending, mailed, steady, runs, failures>>

Pipeline == \/ StartPipeline \/ Recommend \/ CompareCodes \/ CompareScores
            \/ NextTopic \/ (\E u \in Users : Tell(u)) \/ CommitCheck \/ CheckRaises

Next == \/ Pipeline \/ Crash
        \/ \E u \in Users, c \in Codes : Watch(u, c)
        \/ ReadInbox \/ Midnight

Spec == Init /\ [][Next]_vars
-----------------------------------------------------------------------------
TypeOK ==
  /\ InboxTypeOK
  /\ today \in Days
  /\ rows \subseteq Row
  /\ watch \subseteq Users \X Codes /\ steady \subseteq watch
  /\ job \in [pc : {"idle", "recommend", "changes", "scores", "tell_changes", "tell_scores"},
              day : Days, prev : Days \cup {0}, topics : SUBSET Topics,
              topic : Topics \cup {<<>>}, users : SUBSET Users]
  /\ pending \subseteq Keys
  /\ mailed \in [Keys -> Nat]
  /\ runs \in 0..MaxRuns /\ failures \in 0..MaxFailures

Recorded(u, type, c, d) == inbox[<<u, <<type, c>>, d>>] # "absent"

(***************************************************************************)
(* A "newly recommended" notification stays true: the stock is on the list *)
(* of its date and was not on the list of the trade date before it, though  *)
(* later runs of the day go on adding rows and a check may come late.      *)
(***************************************************************************)
NewStaysTrue ==
  \A u \in Users, c \in Codes, d \in Days : Recorded(u, "rec_new", c, d) =>
    /\ c \in CodesOn(d)
    /\ \E e \in TradeDates : /\ e < d /\ c \notin CodesOn(e)
                             /\ \A x \in TradeDates : x < d => x =< e

(* The codes whose score moved whichever rows of the two dates are compared. *)
MovedSurely(new, prev) ==
  {c \in CodesOn(new) \cap CodesOn(prev) :
     \A x, y \in {r \in rows : r.code = c} :
       x.day = new /\ y.day = prev => Distance(x.score, y.score) >= Threshold}

(***************************************************************************)
(* Who has watched a stock from before a comparison on is told of it when   *)
(* that check has committed, whatever other watch lists do meanwhile, and    *)
(* also when an earlier check of the same dates sent its messages and lost  *)
(* its rows (REQ-RC-002, REQ-RC-003, REQ-023-016): once check_rec_changes   *)
(* is over, of every code that is new or dropped, and once                  *)
(* check_rec_score_changes is over, until the next list comes, of every     *)
(* code whose score moved.                                                  *)
(***************************************************************************)
SteadyWatchersAreTold ==
  Cardinality(TradeDates) >= 2 =>
    LET new == Latest(TradeDates)
        prev == Latest(TradeDates \ {new})
    IN  \A u \in Users, c \in Codes : <<u, c>> \in steady =>
          /\ job.pc = "scores" =>
               \A type \in Types : <<type, c>> \in Changes(new, prev) => Recorded(u, type, c, new)
          /\ job.pc \in {"idle", "recommend"} /\ c \in MovedSurely(new, prev) =>
               Recorded(u, "rec_score_change", c, new)

(***************************************************************************)
(* While nothing fails, whoever was mailed finds the notification in the   *)
(* inbox once the check is over: the mail goes out before the commit, and   *)
(* only a failure in between can tell them apart.                          *)
(***************************************************************************)
MailedIsRecorded ==
  failures = 0 => \A k \in Keys : mailed[k] > 0 => inbox[k] # "absent" \/ k \in pending

=============================================================================
