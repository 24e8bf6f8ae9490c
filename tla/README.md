# Formal models of the stock picker

TLA+ models of the concurrent parts of this repository: a FastAPI process that
also hosts the job scheduler and the price broadcast loop, a PostgreSQL
database and a Redis cache (`docker-compose.yml`, `backend/entrypoint.sh`). All
paths below are relative to `backend/src/stock_picker/` unless they start with
`src/` or a dot.

- `tlc -config X.cfg M.tla` checks an instance, `tlapm MProofs.tla` the proofs.
- `PROJECT.json` lists the runs, which source lines each definition stands
  for, the hazards, and for each property a *mutant*: a definition with a
  plausible bug under which the property fails. The mutants stand in the
  modules beside the definition they change, under a comment `Mutant:`, and no
  action of a model uses them.

## 1. The system

One `uvicorn` process runs everything on one event loop: request handlers
declared `async`, the WebSocket handlers, `price_broadcast_loop` (started by
`api/main.py`) and the APScheduler jobs. Handlers declared with plain `def`
(watch list, price alerts, portfolios, screener, backtests, login) run in a
thread pool beside it. Coroutines interleave at `await` only; threads anywhere;
a restart of the container loses every coroutine and keeps both databases.

| Part | State | Operations | Hard behaviour | What makes it correct |
|---|---|---|---|---|
| Notification inbox (`db/models.py`, `notifications/inbox_router.py`) | `notifications`, unique per user, type, code, date | idempotent insert by every alert job; mark one, mark all read | jobs rerun; users read meanwhile | rows only advance: absent, unread, read |
| General alerts (`notifications/general_alert_service.py`) | `alerts` | CRUD; check every 10 min or on demand | await per alert, check against check, check against edit, lost commits, midnight | trigger and notification together, once, and eventually |
| Preferences (`notifications/preferences.py`) | `notification_preferences` | read before each message, upsert | fails open | a muted channel is not used |
| Price stream (`realtime/`) | the two dictionaries of `ConnectionManager` | subscribe, unsubscribe, disconnect; fan-out loop | sends await while sessions change; dead peers | the dictionaries are one relation; nothing leaks; prices keep coming |
| Recommendations (`recommendation/`, `api/routes/recommendations.py`) | `recommendations` rows, base and derived Redis keys | run (daily and each 30 min), list, filter | publish / commit / purge against readers; times to live; Redis failures | an answer is to the question, of the day, and current |
| Change notices (`notifications/rec_change.py`) | inbox | two checks at the end of each pipeline | reruns, one commit for all, growing lists, midnight | told once, true, and nobody left out |
| Watch list, price alerts (`watchlist/`, `notifications/alert_service.py`, `scheduler/jobs.py`) | `watchlist_items`, `watchlist_alerts` | CRUD in threads; check every 5 min | ORM rows held across commits; shared inbox key | an alert that is spent was told |
| Collection and analysis (`collectors/`, `analysis/`, `news/`) | `articles`, `analysis_results`, sentiment cache | collect per source, analyse, fall back | isolation of sources, retries, duplicates | no article twice, none forgotten |
| Sector trends (`sector/`, `api/routes/sectors.py`) | `sector_trends`, three key families | upsert of a day, purge | failure does not stop the pipeline | idempotent; caches follow |
| Backtests (`backtest/`) | `backtest_runs`, results | start, run, poll, delete | background task, failed transaction, restart | every run ends |
| Advice (`advice/`) | one advice per user and day, Redis | get or make, regenerate | concurrent first requests | one per day |
| Portfolios (`portfolio/`) | portfolios, holdings, optimisation cache | CRUD, optimise, analyse | cache against edits | result fits the holdings |
| Screener presets (`screener/`) | presets, at most a fixed number | save, list, delete | count then insert | the limit |
| Feedback, scoring (`feedback/`, `scoring/`) | votes | vote; pure functions | ranges | scores stay in range |
| Channels (`notifications/email_service.py`, `telegram/`) | subscriptions | subscribe, send | best effort | one subscription per user |
| Market data (`mapping/`, `realtime/price_feed.py`) | price cache in Redis | look up | failures become `None` | |
| Login, search, pages, web client | tokens; none | | | not concurrency |

How they meet: the scheduler calls the recommendation run and then the change
checks; both, the general alerts and the price alerts write the inbox; the
recommendation routes share Redis with the run; the broadcast loop shares the
registry with every WebSocket handler.

`PROJECT.json` names every component, and under `hazards` every place where
these interactions can go wrong, with the property that watches it.

## 2. Modules

| Module | What it is |
|---|---|
| `NotificationInbox` | the inbox: the writes the other modules perform, and the abstract specification `InboxSpec` they implement |
| `AlertRules` | the conditions of the alert jobs as operators |
| `GeneralAlerts` | the `alerts` table, its owner, the market, and any number of overlapping checks |
| `PriceAlerts` | `watchlist_alerts`, their owners in threads, and `check_price_alerts` |
| `RecChange` | the pipeline from the recommendation run to the end of both change checks |
| `SubscriptionRelation` | abstract: sessions and the symbols they follow |
| `ConnectionRegistry` | `ConnectionManager`, the handler of each `/ws/prices` WebSocket, the broadcast loop |
| `Recommendations` | the run, both kinds of cache key, the requests |
| `Scoring` | what the run computes: factors, weights, votes, ranks, and the breakdown of the detail page |
| `NewsPipeline` | fetches, analysis workers, the sector aggregation, the cached market sentiment |
| `Backtests` | the status of a run, both strategies, the figures of the read routes |
| `Requests` | requests in flight: begin, read, answer; shared by the next three |
| `Advice`, `Portfolios`, `UserSettings` | advice of the day; holdings and the cached optimisation; presets, e-mail subscription, preferences |
| `UserRequests` | the composition of these three, with restarts |
| `PortfolioReports` | the performance and the dividend report |
| `MC...` | an instance of each for TLC: `Days`, owners, series, symmetry |
| `...Proofs` | theorems about the module of that name |
| `PipelineProofs` | theorems about `Recommendations`, `NewsPipeline` and `Scoring` |
| `FiguresProofs` | theorems about `Backtests` and `PortfolioReports` |

`NotificationInbox` is extended by the three modules whose jobs write it, which
implement `InboxSpec`; `ConnectionRegistry` implements `SubscriptionRelation`.

### NotificationInbox
`inbox` maps (user, (type, code), date) to *absent*, *unread* or *read*: the
unique constraint `uq_notification_user_type_code_date` makes this a function,
and no route or job deletes a row. `WithRows` is `INSERT ... ON CONFLICT DO
NOTHING`. `InboxSpec` lets any set of rows be inserted and any user read.

### GeneralAlerts
`run[c]` is one execution of `check_and_trigger_all_alerts`: after the gate and
the `SELECT` (`StartCheck`) it holds the rows *as loaded* (`mem`) and goes
through them in any order. One step is the code between two awaits:
`Evaluate` (look up market data, decide), `Trigger` (the transaction of UPDATE
and INSERT; their effects appear together at the commit), `Send` (preference,
subscription, message) for e-mail and then telegram. Errors are
`TriggerFails` (rolled back, or committed with the answer lost; SQLAlchemy
expires the loaded rows on rollback, so the next `alert.is_triggered` outside
the `try` raises and ends the check) and `SendFails` (swallowed; the
transaction stays failed, which the next write meets). A checker that finds the
market closed changes nothing and is not a step. Prices and rates are small
integers: only their order to the threshold matters.

### PriceAlerts
`check_price_alerts` never awaits, but the watch list routes run in threads, so
an owner may add or delete an alert between any two of its calls. `job` holds
the alerts still to come, the one in hand, and `fresh`: whether the rows are as
the SELECT loaded them. Each commit expires them all, so a deleted alert is met
either with its old values or, once expired, with an exception that ends the
check (`EvaluateDeleted`, `TriggerDeleted`). Messages go out *before* the
commit, which is why a failure repeats them. `related` is `related_alert_id`
with its `ON DELETE SET NULL`; `ref_date` of an alert is history: the day of the
inbox row written, or found to be there, when it fired. `evaluate_alerts` of the broadcast loop is left
out, as below.

### ConnectionRegistry
A Python dictionary is a set of keys plus a total function that is `{}`
elsewhere, so "present and empty" is told from "absent". `handler[ws]` is the
position of the WebSocket's coroutine, `loop` that of the broadcast loop with
the copies it took (`symbols`, `targets`, `dead`). `EndSession` is the `finally`
clause. A send to a client that is gone may raise or be buffered.
`evaluate_alerts`, called at the end of each symbol, is left out: `api/main.py:44`
imports a name `db/session.py` does not define, so the loop always gets no
session factory.

### Recommendations
A computed list is a *batch* (date, serial number); an answer is a batch
seen through a query, so that "the wrong list" and "a list cut for another
question" are distinct. Every Redis and database call is a step of its own and
may fail in the way the code swallows it. Three history variables: `published`,
the last batch put in the base key; `clean`, whether the last run got through
its purge; and `late`, the derived keys that requests under way at the last
publication may still fill with an older list. Only one run is under way at a
time. The scheduler keeps each job to one instance, but the daily and the
intraday job are two (`scheduler/jobs.py:363` and 371): that they do not overlap is an
assumption, here and in `RecChange`.

### Scoring
The factors, the votes and the ranks as functions of the inputs, which change
one at a time. Factors are in 1/840: exact with up to eight mentions and eight
votes of a stock, as in the run, and rounded down with more. The rounding of
stored factors is modelled, that of floats is not.

### RecChange
`Recommend` adds the rows of a run, for the date it started on (none if its list
was cached). `CompareCodes` and `CompareScores` open the two checks. `NextTopic`
reads the watchers of a code, `Tell` inserts (uncommitted, `pending`) and mails,
`CommitCheck` commits all. Neither check awaits, but watch list edits come from
threads and are steps between. `steady` is a history variable: who has watched a
code since the comparison. `Crash` also stands for a pipeline step that raises.
The functions are modelled as written; today the steps before them fail
(`jobs.py:27` passes a session to `CollectorService()`, which takes no argument,
and `jobs.py:45` calls `AnalysisWorker.run` without one), so that on this commit
the two pipelines never get there.

### NewsPipeline
`fetch[f]` is one `POST /news/fetch`: its sources in turn, the rows its
transaction has inserted, and whether a statement has failed. An exception is
caught per source, but the transaction is one, and a failed one turns the final
commit into a rollback. A row another fetch has inserted and not committed makes
an insert wait (`Locked`). `work[w]` is one run of `AnalysisWorker`, which reads
its articles once and commits at its end; nothing keeps two apart. The worker is
the class as its tests make it: the route makes it without a client
(`AnalyzeWithoutClient`), the jobs fail before. What Claude answers, whether a
feed answers, and which of its articles it has, are choices. An answer has a
*list* of sector tags, as the model wrote it, and `Tagged` counts its entries.

### Backtests
`task[r]` is where `run_backtest` is. The route that should start it runs in a
thread without an event loop, stores "pending" and logs that the run has to be
executed by hand: `Execute` is that call. `DatabaseFails`: the handler writes
"failed" in the session whose transaction has just failed, which refuses, so the
status stays what it was. Returns are exact fractions, a day is its index.

### Requests, Advice, Portfolios, UserSettings, UserRequests
`req[r]` is a request in flight: its operation, its key, and what it has read.
Between reading and writing any other request may run; `Restart` ends them all.
- *Advice*: look up today's advice, have one made, insert it under the unique
  key; the second insert is refused. `_get_holdings` reads the watch list, whose
  items have neither price nor quantity, so a user who watches anything gets an
  error for every kind (`GenerateAdvice`); the other two kinds need holdings, so
  only the briefing ever gets as far as a stored row.
- *Portfolios*: the optimisation is cached for an hour under portfolio and day.
  Two history variables: `since[r]`, the holdings a portfolio has had since
  request r asked, and `had[p]`, that of the request that stored the cached entry.
- *UserSettings*: presets are counted and then inserted; `creating` is the most
  creations ever in flight at once. The ORM writes only attributes that differ
  from what was *read* (`Written`), which is what makes two mail requests
  interfere; `wishes` collects what overlapping ones wanted. A PUT of the
  preferences is one upsert per item, whose rows stay locked to the commit; two
  PUTs in opposite order deadlock and one is ended.

### PortfolioReports
`calculate_performance` is one step; the dividend route awaits cache and listing
per holding, while holdings, cache and listing change. Two history variables:
`listed[r]`, what was listed of each stock since request r came in, or that a
look-up of it failed, and `carried`, that of the request that stored the cached
entry.

## 3. Runs

| Run | Bounds | Checks | Time |
|---|---|---|---|
| `GeneralAlerts_overlap` | 2 alerts of one user, stock and kind, 2 checkers, `MaxDay` 2, `MaxChurn` 1, `MaxFailures` 1 | `TriggeredHasInbox`, `SendAfterCommit`, `TriggeredIsLatched`; implements `InboxSpec` | 1:30 |
| `GeneralAlerts_one_checker` | 1 checker, an alert of an implemented and one of a skipped kind, `MaxChurn` 2, `MaxFailures` 2 | `AtMostOneSend`; `EventuallyTriggers` | 0:15 |
| `GeneralAlerts_double_send` | 1 alert, 2 checkers | **violated**: `AtMostOneSend` | 0:02 |
| `PriceAlerts` | 2 alerts of one key, `MaxDay` 2, `MaxChurn` 2, `MaxFailures` 1 | `FiredHasInbox`, `RelatedIsFired`, `RepeatedOnlyAfterFailure`; `EventuallyFires` | 0:40 |
| `ConnectionRegistry` | 2 connections, 2 symbols of which one (`Unsteady`) loses its price | `IndexesAgree`, `NoGhosts`; implements `SubscriptionRelation`; `PricesKeepComing`, `DeadAreReleased` | 1:45 |
| `Recommendations_cache` | 2 requests, the default and another query, `MaxDay` 2, `MaxBatches` 2, `MaxFailures` 1 | `DefaultIsCurrent`, `CleanRunPurges`, `UnstoredOnlyAfterFailure` | 0:50 |
| `RecChange_universe` | 1 user, 2 codes, scores 0 and 2 with `Threshold` 2, `MaxDay` 2, `MaxRuns` 3, `MaxFailures` 1 | `NewStaysTrue`, `SteadyWatchersAreTold`, `MailedIsRecorded`, `InboxRowsOnlyAdvance` | 1:10 |
| `NewsPipeline` | 3 articles, one refused by the table, one in two feeds; 2 fetches, 2 workers, 1 reader; batches of 1, 2 attempts; answers with one tag, and with one repeated; `MaxStarts` 3, `MaxFaults` 1 | `StatusTellsResults`, `RepeatedOnlyByOverlap`, `TrendsCountOnce`; `RunsEnd` | 1:00 |
| `Backtests` | 1 run, 2 stocks, every series of the instance, look-back 2, `MaxFailures` 1 | `StatusTellsRows`, `DrawdownIsWorstFall`, `OneStockAgrees`; `SettlesUnlessHit` | 0:10 |
| `UserRequests` | 2 requests at a time, `MaxStarts` 4, two of each key, three preset names against a limit of 2 | `OneAdviceADay`, `PresetsWithinRace`, `UnanimousMailHolds`, `PreferencesAreOneRequests`, `OptimizationIsRecent` | 0:15 |
| `Scoring` | 2 stocks, `MaxMentions` 3, `MaxVotes` 6 | `BreakdownAddsUp`; `VotesPullTheirWay` | 1:10 |
| `PortfolioReports` | 2 holdings of one stock or two, 1 request, `MaxSurprises` 1 | `DividendIsRecent`, `AveragesLieWithin` | 2:30 |

Why these bounds are enough. Two overlapping checks are the scheduled one and
one on demand, the case the program has (`max_instances` is 1 for the job); two
alerts of one key are needed for the shared inbox row, two days for a check over
midnight, one failure for each kind of error path and two for a failure after a
failure. The price check is one coroutine that never awaits: only threads
disturb it. In the registry one connection disturbs another, and one symbol is
the last of a connection and another is not. In the caches a request can straddle
one publication and one midnight. In the change checks a list must come, be
followed by another and grow again: three runs; scores must move across the
threshold between two dates, and a check lose its rows and run again. One
request at a time runs in the reports, against holdings and a listing that
change, failed look-ups and expiring entries: what one stores a later one hits.
Two that overlap are beyond TLC with two holdings; `DividendRecent` holds for
any number. Two workers are the fewest that
read the same article; two attempts the fewest with a retry. A look-back of two
days is the shortest with a window, and a worst fall needs a rise between two
falls, so a series of four prices. Two requests are the fewest that race, four
starts let a race follow a race, and five votes are where the confidence stops
growing, so six pass it. Where parameters are not bounded
by such an argument, the theorems of section 5 hold for all of them. Symmetry is
used only in runs whose definitions name no element of the set, and never with
liveness.

Deadlock checking is off where the system may stop: a backtest has ended and the
bounded failures are spent; and in the modules whose requests are bounded by
`MaxStarts`, `MaxVotes` or the like, where nothing need happen any more.

Fairness. `GeneralAlerts`: a started check goes on (weak); the market opens
again (weak); a check that can start again and again starts (strong: the job
fires every ten minutes and a trading day lasts hours, but the gate closes in
between). `PriceAlerts`: the job starts and goes on (weak: it is scheduled every
five minutes at any hour). `ConnectionRegistry`: the event loop runs every ready
coroutine (weak, the broadcast loop and each handler that does not wait for its
client). `Backtests`, `NewsPipeline`: a task whose awaited call has returned is
resumed (weak). Nothing is
assumed of users, failures or prices, and failures are bounded, which is the
meaning of "eventually" in a system that retries: without a last failure nothing
could be promised.

### What the violated run shows
*double_send*: both checks select the alert, both commit the UPDATE, which
asks only for the id, and both send, although `general_alert_service.py:462` and
SPEC-STOCK-020 say a triggered alert is skipped.

### Seen while modelling
Behaviour of the code that the models contain and a reader should know. No run
claims the contrary.
- An alert switched off during a check still triggers (`is_active` is read only
  by the opening SELECT).
- Two price alerts of a user on one stock that fire on one day share a row: the
  user, type, code and date are the same, the second `ON CONFLICT DO NOTHING`
  inserts nothing, that alert is spent and its messages go out, and the inbox
  tells only of the first. SPEC-STOCK-013 (`spec.md:82` and REQ-PA-001) wants a row
  for each firing with the alert's id, and `ref_date` NULL, which would not
  conflict; `scheduler/jobs.py:243` writes the date. `FiredHasInbox` names this
  exception and allows no other.
- A sector's `news_volume`, which `db/models.py:144` and SPEC-STOCK-008 call the
  number of its articles, is the number of entries of tag lists: a tag repeated in
  one answer, or the second result of an article, counts again
  (`sector/service.py:78`). `TrendsCountOnce` names both exceptions.
- The sources of a fetch are not isolated (REQ-NEWS-005): an exception is caught
  per source (`collectors/service.py:53`), but they share one transaction, whose
  commit after a failed statement stores nothing. The articles of the sources that
  succeeded are lost, though `collect_all` reports their number and line 34 says
  that they are saved.
- The broadcast loop sends to a copy of the subscribers, so a client may get a
  price after it was answered "unsubscribed" (SPEC-016 REQ-WSM-004).
- The derived key of a recommendation list has limit and sector but neither sort,
  min_score nor date (REQ-CACHE-001): a list sorted by sentiment answers a request
  by volume, and after midnight a filtered request can get yesterday's list. No
  list carries a sector, so that filter always answers with nothing.
- A request that read the base list before a run published stores its result
  after the purge, where it answers for half an hour (REQ-CACHE-004):
  `CleanRunPurges` names this exception.
- A cached market sentiment does not see what a worker commits after it was read,
  until its time to live is over, which SPEC-STOCK-021 accepts.
- A run of a backtest that is never executed by hand stays pending.
- A run may find its predecessor's list in the cache and compute nothing, the
  time to live being its period; a list is cached before it is committed; and
  each run that recomputes inserts its rows again, after which the detail query
  of a stock, `scalar_one_or_none`, raises.
- The change check reruns on the same dates: the inbox row is idempotent, mail
  and telegram message are not (REQ-RC-007). A "dropped" row stays when a later
  run of the day puts the code back.
- `get_run` compounds the rows of all stocks one after another, so its total
  return is that of one stock held after another, while `get_results` averages
  by date (REQ-BT-METRIC-003); `OneStockAgrees` is where both must agree.
- `POST /news/fetch` makes an `AnalysisWorker` without a client, whose error is
  swallowed; `ClaudeAnalysisClient` has no `analyze_batch`; no code stores a
  `StockMention`; the sector caches are read and purged but never written;
  `api/routes/news.py:56` says analysed articles only, the query includes
  collected ones.
- Every advice route fails for a user who watches anything, and the cache of the
  briefing imports a module that does not exist.

## 4. Properties, in words

- `TriggeredHasInbox`: an alert that says it triggered has its row in the
  owner's inbox, through overlap, edits, restarts and half-answered commits.
- `SendAfterCommit`: nobody hears of an alert the inbox does not know.
- `TriggeredIsLatched`: nothing resets the flag of a living alert.
- `AtMostOneSend`: one message per channel and alert - with one check at a time.
- `EventuallyTriggers`: an active alert that stays due triggers, although a
  failed write ends the whole check.
- `FiredHasInbox`: a spent price alert has a row of its owner and stock for the day
  it fired, and the row names it unless a sibling fired on that day and took it.
- `RelatedIsFired`: a row that names an alert is of that alert's owner, stock and
  day, and the alert exists and fired.
- `RepeatedOnlyAfterFailure`: a price alert is told again at most once per
  failure, though its message precedes its commit.
- `EventuallyFires`: a price alert that stays due fires.
- `IndexesAgree`, `NoGhosts`: `_conn_symbols` and `_symbol_conns` are one
  relation, and a finished session is in neither, even though the loop reaps from
  old copies.
- `PricesKeepComing`, `DeadAreReleased`: who stays subscribed keeps getting
  prices; who left is gone for good.
- `DefaultIsCurrent`: the parameterless list is of the day and not older than
  what was published when it was asked for.
- `CleanRunPurges`: after a run that ended in order a derived key holds a list of
  the newest published batch or nothing, whatever an earlier purge left behind;
  except where a request that had read an older list when the run published, or
  was asked on another day, can still store it.
- `UnstoredOnlyAfterFailure`: an answer missing from the table means a failure.
- `NewStaysTrue`: what the inbox calls new stays on the list of its day.
- `SteadyWatchersAreTold`: who kept watching a code since the comparison has its
  row when that check is over - of codes that came or went after the first check,
  of scores that moved after the second - even if an earlier check of the same
  dates sent its messages and lost its rows.
- `MailedIsRecorded`: without a failure mail and inbox agree.
- `InboxRowsOnlyAdvance`: reruns do not bring a read notification back.
- `StatusTellsResults`, `RepeatedOnlyByOverlap`: an article's status and its
  results agree, and it has no more results than workers ever overlapped.
- `TrendsCountOnce`: however often a day is aggregated while results are added, no
  entry of a list of tags is counted twice, and no article is unless runs overlapped
  or an answer repeated the tag.
- `RunsEnd`: a worker ends whatever Claude answers.
- `StatusTellsRows`, `SettlesUnlessHit`: a run that says "done" has exactly its
  rows; an executed run ends unless a failure or a restart hits it.
- `DrawdownIsWorstFall`, `OneStockAgrees`: the running peak finds the worst fall
  of the whole series; the two routes agree where they must.
- `OneAdviceADay`: all answers of a day show one advice.
- `PresetsWithinRace`: the limit is exceeded by overlapping creations only.
- `UnanimousMailHolds`, `PreferencesAreOneRequests`: requests that agree get what
  they want; two PUTs never mix.
- `OptimizationIsRecent`, `DividendIsRecent`: a cached answer is of holdings the
  portfolio had, or of what was listed of the stock (or of a look-up of it that
  failed), while the request that stored it was in flight. So it is no older than
  one request and one time to live, and no hit prolongs its life.
- `BreakdownAddsUp`, `VotesPullTheirWay`: the page's parts add up but for
  rounding; no vote works against its sense.
- `AveragesLieWithin`: averages lie among what they average: the return among
  those of all holdings, where one without a price counts as no return and pulls
  it (REQ-PERF-007), the yield among those of the holdings that have one.

## 5. Proofs

All theorems are checked by TLAPS for every value of the constants, from the
assumptions named in the modules, which TLC evaluates on every run: owners and
codes are functions, "nothing" values lie outside the sets they stand beside,
the days are `1..MaxDay`, the bounds are naturals, requests, types, articles,
analysis runs, stocks and holdings are finite sets, prices and quantities are
positive (`HoldingCreate` refuses others), and the database has an order of the
stocks (`Place`). The single-check theorem also assumes `OneAtATime`: there are
not two different checkers. `InvHolds`, `NewsInvHolds`, `ScoringInvHolds` and
`ReportsInvHolds` are the inductive invariants, and the others follow from them.
Every safety invariant, action property and refinement of section 3 that holds has
its theorem.

- `NotificationInboxProofs!RowsOnlyAdvance`: each step of `InboxNext` moves each
  key forward or not at all.
- `GeneralAlertsProofs`. `TypeOK /\ InHand /\ Dated /\
  TriggeredHasInbox /\ SendAfterCommit`. `InHand`: who is writing or sending has
  an alert in hand. `Dated`: a triggered alert has a date in the calendar.
  `SendAfterCommit` is inductive only together with the fact that a checker
  about to send has committed the row (`InHand` carries it); `TriggeredHasInbox`
  only with `Dated`. Also `Latched`, step by step, and `ImplementsInbox`.
  `OneCheckSendsOnce` adds `OnceInv`: what is still selected is unsent and
  untriggered, what was sent is spent, and a pending message was not sent.
- `PriceAlertsProofs`. The rows of the table, what the job has in hand and the
  number of messages are tied together: a message beyond the failures so far can
  only be that of the alert in hand. `Dated`: only an alert that fired bears a day,
  and every row is of such an alert, so that an INSERT that conflicts has a sibling
  to blame.
- `ConnectionRegistryProofs`. `Registry` (types, `IndexesAgree` and
  `ListedIffFollowed`: an unregistered connection has no symbols, which makes
  `unsubscribe` of a reaped connection harmless), `Control` (handlers and loop)
  and `NoGhosts`, which needs that a handler that is *new* or *done* never
  touches the registry. `ImplementsRelation` maps `sessions` to the handlers
  under way and `subs` to the pairs of `_symbol_conns`.
- `PipelineProofs`.
  - *Recommendations*. Besides the types: which batch each position of the job
    holds, that the base key of a day holds a batch of that day, that the newest
    one published is the one it holds, and what a request between its reads may
    carry; `CleanRunPurges` needs the keys the purge has still to visit, and that
    a request outside `late` reads and stores nothing older than the newest batch.
  - *NewsPipeline*. `ArticleInv` counts: the results of an article plus the runs
    that hold it (on their list, in hand, or answered and not committed) never
    exceed the runs that overlapped. `RepeatedOnlyByOverlap` is not inductive
    without the holders, nor the holders without the status: only a collected
    article is taken on, and it has no result. `FetchesApart`: what an open
    transaction has inserted nobody else has, so a commit shows only articles
    nobody has worked on. `TrendsInv`: rows read for the upsert count no more than
    the results there are, which stays so because results are only ever added
    (`TrendsGrow`), and which are finitely many because an answer's tags are a
    sequence (`TagsAreFinite`, `EntriesAreFinite`). Without overlap and repeated tags
    an injection maps entries to articles (`EntriesAreArticles`).
  - *Scoring*. The types are the whole invariant; the rest is arithmetic.
    `BreakdownAddsUp`: each rounding is off by at most half a thousandth
    (`RoundsToHalf`), and the weights of the four factors and of score and delta
    leave 1.5 of them (`SixRoundings`). `VotesPullTheirWay`: share times confidence
    is a fraction whose numerator and denominator both change with a vote.
    `NetKeepsOrder` compares before and after by cross-multiplication, and rounding
    down and clamping keep the order (`QuotientsKeepOrder`).
- `FiguresProofs`. Its figures are recursive over a series or a set. The library's
  induction theorems take an operator, so induction is stated about a *set* of
  numbers or of subsets (`NaturalInduction`, `FiniteInduction`,
  `IntervalInduction`, from the well-foundedness of `<` on `Nat`). It gives what a
  recursive function returns (`Recursion`) and what a sum is (`SumIsSum`).
  - *Backtests*. Rows appear in one commit, so at each position of the task the
    stored rows are none or all. `DrawdownIs` relates the running peak and the
    worst fall so far, at each day, to all falls up to that day, with the order of
    exact fractions as its lemmas (`OrderIsTransitive`, `RatioFalls`).
    `OneStockAgrees`: `RankedIs` says a finite set of rows is put in order by its
    ranks, without gaps or repetitions; rows of one stock have each their own date
    (`DaysAreRows`), so each day's mean is that of one row and both routes compound
    the same series (`SeriesAgree`).
  - *PortfolioReports*. `ListedByRequest`: what a request has seen listed contains
    the present listing and the value on its way into the cache, without which
    `DividendIsRecent` is not inductive.
    `AveragesLieWithin` follows from `MeanLies`: the ratio of two sums lies between
    the least and the greatest of the ratios, by induction on the set
    (`SumsCompare`).
- `RecChangeProofs`. The two latest dates exist and are ordered (a maximum of a
  finite set), pending rows belong to the comparison under way, a watcher who
  stayed has the row, pending or stored, or is still to be told (`Owed`), and
  dates only grow, so that a later list of the same day only adds. Also implements `InboxSpec`.
- `UserRequestsProofs`. One part per table, each about what the requests in
  flight have read: counted presets and creations in flight together stay within
  the limit and the overlap; when all want the subscription on, what a request
  takes for written already is, and stays; a PUT has each type still to write or
  written. A step of one component leaves the requests of the others untouched
  (`Untouched`), so their parts are kept by one lemma each.

Model-checked only: liveness under fairness (`EventuallyTriggers`,
`EventuallyFires`, `PricesKeepComing`, `DeadAreReleased`, `SettlesUnlessHit`,
`RunsEnd`), which is beyond the prover, as is `ENABLED`. The
theorems about figures hold for the exact fractions of the models, not for the
floats of the code.

## 6. Not modelled, and why

- Texts, layouts, validation of request bodies, authentication and migrations:
  no state that steps of several actors share. Prompts of the language model and
  the parsing of its answers and of the feeds: one nondeterministic result.
- Floats are integers or exact fractions. The text of a mail and whether a server
  takes it: best effort in the code, no state depends on it.
- The single-stock WebSocket, which shares nothing. Read-only queries (search,
  stock pages, the screening itself, listings, histories).
- `minmax_normalize`, `time_decay_weights`, `trend_aggregator.py`, `EtfRecommender`
  and `evaluate_alerts`: nothing in the running program reaches them.
- The Redis cache of prices: a price is whatever a lookup returns at that moment.
- The creation of a portfolio and its uncached analysis: one insert, one answer.
- The web client: one tab; its reconnection meets the server as a new session.
