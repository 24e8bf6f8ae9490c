---------------------------- MODULE NewsPipeline ----------------------------
(***************************************************************************)
(* News: CollectorService stores the articles of the feeds, AnalysisWorker *)
(* has each collected article analysed, aggregate_sector_trends sums up    *)
(* the analyses of the day, and get_market_sentiment answers from a cache  *)
(* of their aggregate.                                                     *)
(*                                                                         *)
(* POST /news/fetch needs no login and runs in any number of requests at   *)
(* once; a worker runs per pipeline, and nothing keeps two apart.  Every   *)
(* one of them has a transaction that it commits at its very end.          *)
(*                                                                         *)
(* A worker is one made with a client, as the class and its tests make it: *)
(* POST /news/fetch makes it without, see AnalyzeWithoutClient.            *)
(***************************************************************************)
EXTENDS Integers, FiniteSets, Sequences, FiniteSetsExt

CONSTANTS
  Urls,          \* articles, by the unique column url
  Oversized,     \* those whose title the column does not hold
  PublishedToday,\* those whose pubDate falls on the day that is aggregated
  SourceOrder,   \* the keys of CollectorService.collectors, in their order
  Feed,          \* what each source publishes
  Sectors,       \* names of sectors, as Claude words them
  Outputs,       \* what Claude may answer; sector_tags is a list and may repeat
  Failed,        \* "no answer": analyze returned None
  Nothing,       \* no cached value, no article in hand
  Fetchers, Workers, SentimentReaders,
  BATCH_SIZE, MAX_RETRIES,
  MaxStarts,     \* bound on fetches, worker runs and aggregates of the sentiment
  MaxFaults    \* bound on database failures, restarts and Redis failures

ASSUME NewsPipelineAssumption ==
  /\ IsFiniteSet(Urls) /\ IsFiniteSet(Workers)
  /\ Oversized \subseteq Urls /\ PublishedToday \subseteq Urls
  /\ SourceOrder \in Seq(DOMAIN Feed) /\ \A s \in DOMAIN Feed : Feed[s] \subseteq Urls
  /\ Outputs \subseteq [sentiment : {"positive", "negative", "neutral"}, sector_tags : Seq(Sectors)]
  /\ Failed \notin Outputs /\ Nothing \notin Outputs \cup Urls
  /\ BATCH_SIZE \in Nat \ {0} /\ MAX_RETRIES \in Nat \ {0}
  /\ MaxStarts \in Nat /\ MaxFaults \in Nat

VARIABLES
  status,     \* articles.status, "absent" without a row
  results,    \* the rows of analysis_results of each article
  fetch,      \* POST /news/fetch
  work,       \* runs of AnalysisWorker
  trends,     \* sector_trends of the day
  rows,       \* what a running aggregation is about to upsert, or Nothing
  market,     \* market_sentiment:24h in Redis, or Nothing
  reader,     \* the aggregate each reader is about to cache, or Nothing
  overlap,    \* the most workers that ever ran at once
  starts, faults   \* bounds

newsVars == <<status, results, fetch, work, trends, rows, market, reader, overlap, starts, faults>>

Statuses == {"absent", "collected", "analyzed", "analysis_failed"}

(* A fetch: how many sources it has gone through, the rows its transaction has
   inserted, and whether a statement failed, after which the database refuses
   every other one and turns the final COMMIT into a rollback. *)
FetchState == [pc : {"idle", "collect", "analyze"}, sources : 0..Len(SourceOrder),
               inserted : SUBSET Urls, aborted : BOOLEAN]

NoFetch == [pc |-> "idle", sources |-> 0, inserted |-> {}, aborted |-> FALSE]

(* A run: the articles not yet put into a batch, those to be analysed one by
   one, the one in hand and its failed attempts, and what the transaction holds. *)
WorkState == [pc : {"idle", "run"}, todo : SUBSET Urls, single : SUBSET Urls,
              cur : Urls \cup {Nothing}, attempt : 0..(MAX_RETRIES - 1),
              saved : UNION {[U -> Outputs \cup {Failed}] : U \in SUBSET Urls}]

NoWork == [pc |-> "idle", todo |-> {}, single |-> {}, cur |-> Nothing, attempt |-> 0, saved |-> <<>>]

Trend == [news_volume : Nat, positive : Nat]

NewsInit ==
  /\ status = [u \in Urls |-> "absent"]
  /\ results = [u \in Urls |-> <<>>]
  /\ fetch = [f \in Fetchers |-> NoFetch]
  /\ work = [w \in Workers |-> NoWork]
  /\ trends = [s \in {} |-> Nothing]
  /\ rows = Nothing
  /\ market = Nothing
  /\ reader = [r \in SentimentReaders |-> Nothing]
  /\ overlap = 0
  /\ starts = 0
  /\ faults = 0

Start == starts < MaxStarts /\ starts' = starts + 1
Fault == faults < MaxFaults /\ faults' = faults + 1

Collected == {u \in Urls : status[u] = "collected"}

WithStatus(U, st) == [u \in Urls |-> IF u \in U THEN st ELSE status[u]]
-----------------------------------------------------------------------------
(***************************************************************************)
(* trigger_news_fetch: CollectorService.collect_all, then the worker.      *)
(***************************************************************************)
StartFetch(f) ==
  /\ fetch[f].pc = "idle"
  /\ Start
  /\ fetch' = [fetch EXCEPT ![f].pc = "collect"]
  /\ UNCHANGED <<status, results, work, trends, rows, market, reader, overlap, faults>>

(* Rows another transaction has inserted and not committed: ON CONFLICT waits. *)
Locked(f) == UNION {IF fetch[g].aborted THEN {} ELSE fetch[g].inserted : g \in Fetchers \ {f}}

(* The next source: collect() returns what it got, nothing after an HTTP or XML
   error, and _save_articles inserts those that are new.  An INSERT that fails
   is caught for its source, but the transaction is lost. *)
CollectSource(f) ==
  /\ fetch[f].pc = "collect"
  /\ fetch[f].sources < Len(SourceOrder)
  /\ \E got \in SUBSET Feed[SourceOrder[fetch[f].sources + 1]] :
       LET fails == fetch[f].aborted \/ got \cap Oversized # {}
           new == {u \in got : status[u] = "absent"} IN
       /\ fails \/ got \cap Locked(f) = {}
       /\ fetch' = [fetch EXCEPT ![f].sources = @ + 1,
                                 ![f].inserted = IF fails THEN @ ELSE @ \cup new,
                                 ![f].aborted = @ \/ (fails /\ got # {})]
  /\ UNCHANGED <<status, results, work, trends, rows, market, reader, overlap, starts, faults>>

(* A statement is refused: a deadlock broken by the server, a lost connection. *)
InsertFails(f) ==
  /\ fetch[f].pc = "collect"
  /\ fetch[f].sources < Len(SourceOrder)
  /\ Fault
  /\ fetch' = [fetch EXCEPT ![f].sources = @ + 1, ![f].aborted = TRUE]
  /\ UNCHANGED <<status, results, work, trends, rows, market, reader, overlap, starts>>

CommitFetch(f) ==
  /\ fetch[f].pc = "collect"
  /\ fetch[f].sources = Len(SourceOrder)
  /\ fetch' = [fetch EXCEPT ![f] = [NoFetch EXCEPT !.pc = "analyze"]]
  /\ status' = IF fetch[f].aborted THEN status ELSE WithStatus(fetch[f].inserted, "collected")
  /\ UNCHANGED <<results, work, trends, rows, market, reader, overlap, starts, faults>>

(* AnalysisWorker() has no client: with a collected article run raises before
   it writes anything, the handler swallows it, and the request answers with
   what collect_all counted. *)
AnalyzeWithoutClient(f) ==
  /\ fetch[f].pc = "analyze"
  /\ fetch' = [fetch EXCEPT ![f] = NoFetch]
  /\ UNCHANGED <<status, results, work, trends, rows, market, reader, overlap, starts, faults>>

(* The process restarts, or the COMMIT fails. *)
FetchLost(f) ==
  /\ fetch[f].pc = "collect"
  /\ Fault
  /\ fetch' = [fetch EXCEPT ![f] = NoFetch]
  /\ UNCHANGED <<status, results, work, trends, rows, market, reader, overlap, starts>>
-----------------------------------------------------------------------------
(***************************************************************************)
(* AnalysisWorker.run and run_batch.                                       *)
(***************************************************************************)
Running == {w \in Workers : work[w].pc = "run"}

(* run takes the articles one by one, run_batch in batches; the list is read
   once. *)
StartWork(w) ==
  /\ work[w].pc = "idle"
  /\ Start
  /\ \/ work' = [work EXCEPT ![w] = [NoWork EXCEPT !.pc = "run", !.single = Collected]]
     \/ work' = [work EXCEPT ![w] = [NoWork EXCEPT !.pc = "run", !.todo = Collected]]
  /\ overlap' = Max({overlap, Cardinality(Running) + 1})
  /\ UNCHANGED <<status, results, fetch, trends, rows, market, reader, faults>>

(* The next batch: no answer sends its articles to be analysed one by one; an
   answer that is too short leaves the last ones as they were. *)
AnalyzeBatch(w) ==
  /\ work[w].pc = "run"
  /\ work[w].single = {}
  /\ \E batch \in SUBSET work[w].todo :
       /\ Cardinality(batch) = Min({BATCH_SIZE, Cardinality(work[w].todo)})
       /\ batch # {}
       /\ \/ work' = [work EXCEPT ![w].todo = @ \ batch, ![w].single = batch]
          \/ \E answered \in SUBSET batch : \E out \in [answered -> Outputs \cup {Failed}] :
               work' = [work EXCEPT ![w].todo = @ \ batch,
                          ![w].saved = [u \in DOMAIN @ \cup answered |-> IF u \in answered THEN out[u] ELSE @[u]]]
  /\ UNCHANGED <<status, results, fetch, trends, rows, market, reader, overlap, starts, faults>>

Chosen(w, u) == /\ work[w].pc = "run"
                /\ u \in work[w].single
                /\ work[w].cur \in {Nothing, u}

(* ClaudeAnalysisClient.analyze answers, or gives up: at its last attempt, or at
   any other error than a rate limit or an answer that does not parse. *)
Analyze(w) ==
  /\ \E u \in Urls, out \in Outputs \cup {Failed} :
       /\ Chosen(w, u)
       /\ work' = [work EXCEPT ![w].single = @ \ {u}, ![w].cur = Nothing, ![w].attempt = 0,
                     ![w].saved = [v \in DOMAIN @ \cup {u} |-> IF v = u THEN out ELSE @[v]]]
  /\ UNCHANGED <<status, results, fetch, trends, rows, market, reader, overlap, starts, faults>>

(* Mutant: the attempts are not counted. *)
RetryForever(w) ==
  /\ \E u \in Urls : Chosen(w, u) /\ work' = [work EXCEPT ![w].cur = u, ![w].attempt = 1 - @]
  /\ UNCHANGED <<status, results, fetch, trends, rows, market, reader, overlap, starts, faults>>

(* A rate limit, or an answer that does not parse: try again after a pause. *)
Retry(w) ==
  /\ work[w].attempt < MAX_RETRIES - 1
  /\ \E u \in Urls : Chosen(w, u) /\ work' = [work EXCEPT ![w].cur = u, ![w].attempt = @ + 1]
  /\ UNCHANGED <<status, results, fetch, trends, rows, market, reader, overlap, starts, faults>>

(* The answers a run has, and the articles it has to set aside. *)
WithAnswer(w) == {u \in DOMAIN work[w].saved : work[w].saved[u] # Failed}
SetAside(w) == DOMAIN work[w].saved \ WithAnswer(w)

Finished(w) == work[w].pc = "run" /\ work[w].todo = {} /\ work[w].single = {}

(* Mutant: the statuses are committed apart from the results. *)
CommitWorkStatusOnly(w) ==
  /\ Finished(w)
  /\ status' = [u \in Urls |-> IF u \in WithAnswer(w) THEN "analyzed"
                               ELSE IF u \in SetAside(w) THEN "analysis_failed" ELSE status[u]]
  /\ \/ UNCHANGED results
     \/ results' = [u \in Urls |-> IF u \in WithAnswer(w) THEN Append(results[u], work[w].saved[u]) ELSE results[u]]
  /\ work' = [work EXCEPT ![w] = NoWork]
  /\ UNCHANGED <<fetch, trends, rows, market, reader, overlap, starts, faults>>

(* Mutant: an article without an answer is left for the next run, which finds
   the results of this one too. *)
CommitWorkKeepsCollected(w) ==
  /\ Finished(w)
  /\ UNCHANGED status
  /\ results' = [u \in Urls |-> IF u \in WithAnswer(w) THEN Append(results[u], work[w].saved[u]) ELSE results[u]]
  /\ work' = [work EXCEPT ![w] = NoWork]
  /\ UNCHANGED <<fetch, trends, rows, market, reader, overlap, starts, faults>>

CommitWork(w) ==
  /\ Finished(w)
  /\ status' = [u \in Urls |-> IF u \in WithAnswer(w) THEN "analyzed"
                               ELSE IF u \in SetAside(w) THEN "analysis_failed" ELSE status[u]]
  /\ results' = [u \in Urls |-> IF u \in WithAnswer(w) THEN Append(results[u], work[w].saved[u]) ELSE results[u]]
  /\ work' = [work EXCEPT ![w] = NoWork]
  /\ UNCHANGED <<fetch, trends, rows, market, reader, overlap, starts, faults>>

(* A restart or a database failure: the transaction of the run is gone. *)
WorkLost(w) ==
  /\ work[w].pc = "run"
  /\ Fault
  /\ work' = [work EXCEPT ![w] = NoWork]
  /\ UNCHANGED <<status, results, fetch, trends, rows, market, reader, overlap, starts>>
-----------------------------------------------------------------------------
(***************************************************************************)
(* aggregate_sector_trends, by run_sector_aggregation.  The caches it      *)
(* clears afterwards are read by the sector routes and written by nobody.  *)
(***************************************************************************)
(* The rows of analysis_results of the articles U. *)
Analyses(U) == UNION {{u} \X DOMAIN results[u] : u \in U}
Output(a) == results[a[1]][a[2]]

Positive(a) == Output(a).sentiment = "positive"

(* The entries of sector_sentiments[s]: one for every place of a list of tags
   that names s, in every analysis of the day. *)
Places(a, s) == {j \in DOMAIN Output(a).sector_tags : Output(a).sector_tags[j] = s}
Tagged(s) == UNION {{a} \X Places(a, s) : a \in Analyses(PublishedToday)}

(* The rows of the upsert; the average of the scores is kept as the number of
   entries that come from a positive analysis. *)
SectorRows ==
  [s \in {x \in Sectors : Tagged(x) # {}} |->
     [news_volume |-> Cardinality(Tagged(s)),
      positive |-> Cardinality({t \in Tagged(s) : Positive(t[1])})]]

ReadAnalyses ==
  /\ rows = Nothing
  /\ rows' = SectorRows
  /\ UNCHANGED <<status, results, fetch, work, trends, market, reader, overlap, starts, faults>>

(* Mutant: the upsert adds to the row it finds. *)
UpsertTrendsAdds ==
  /\ rows # Nothing
  /\ trends' = [s \in DOMAIN trends \cup DOMAIN rows |->
                  IF s \notin DOMAIN rows THEN trends[s]
                  ELSE IF s \notin DOMAIN trends THEN rows[s]
                  ELSE [rows[s] EXCEPT !.news_volume = @ + trends[s].news_volume]]
  /\ rows' = Nothing
  /\ UNCHANGED <<status, results, fetch, work, market, reader, overlap, starts, faults>>

(* ON CONFLICT (sector, trade_date) DO UPDATE. *)
UpsertTrends ==
  /\ rows # Nothing
  /\ trends' = [s \in DOMAIN trends \cup DOMAIN rows |-> IF s \in DOMAIN rows THEN rows[s] ELSE trends[s]]
  /\ rows' = Nothing
  /\ UNCHANGED <<status, results, fetch, work, market, reader, overlap, starts, faults>>

AggregationFails ==
  /\ rows # Nothing
  /\ Fault
  /\ rows' = Nothing
  /\ UNCHANGED <<status, results, fetch, work, trends, market, reader, overlap, starts>>
-----------------------------------------------------------------------------
(***************************************************************************)
(* get_market_sentiment.                                                   *)
(***************************************************************************)
MarketSentiment == [total |-> Cardinality(Analyses(Urls)),
                    positive |-> Cardinality({a \in Analyses(Urls) : Positive(a)})]

(* A miss, or Redis does not answer. *)
AggregateSentiment(r) ==
  /\ reader[r] = Nothing
  /\ Start
  /\ \/ market = Nothing /\ UNCHANGED faults
     \/ market # Nothing /\ Fault
  /\ reader' = [reader EXCEPT ![r] = MarketSentiment]
  /\ UNCHANGED <<status, results, fetch, work, trends, rows, market, overlap>>

CacheSentiment(r) ==
  /\ reader[r] # Nothing
  /\ \/ market' = reader[r] /\ UNCHANGED faults
     \/ UNCHANGED market /\ Fault
  /\ reader' = [reader EXCEPT ![r] = Nothing]
  /\ UNCHANGED <<status, results, fetch, work, trends, rows, overlap, starts>>

ExpireSentiment ==
  /\ market # Nothing
  /\ market' = Nothing
  /\ UNCHANGED <<status, results, fetch, work, trends, rows, reader, overlap, starts, faults>>
-----------------------------------------------------------------------------
FetchRuns(f) == CollectSource(f) \/ InsertFails(f) \/ CommitFetch(f) \/ AnalyzeWithoutClient(f) \/ FetchLost(f)

WorkRuns(w) == AnalyzeBatch(w) \/ Analyze(w) \/ Retry(w) \/ CommitWork(w) \/ WorkLost(w)

NewsNext == \/ \E f \in Fetchers : StartFetch(f) \/ FetchRuns(f)
        \/ \E w \in Workers : StartWork(w) \/ WorkRuns(w)
        \/ ReadAnalyses \/ UpsertTrends \/ AggregationFails
        \/ \E r \in SentimentReaders : AggregateSentiment(r) \/ CacheSentiment(r)
        \/ ExpireSentiment

NewsSpec == NewsInit /\ [][NewsNext]_newsVars

(* A worker that is started goes on. *)
NewsFairSpec == NewsSpec /\ \A w \in Workers : WF_newsVars(WorkRuns(w))
-----------------------------------------------------------------------------
NewsTypeOK ==
  /\ status \in [Urls -> Statuses]
  /\ results \in [Urls -> Seq(Outputs)]
  /\ fetch \in [Fetchers -> FetchState]
  /\ work \in [Workers -> WorkState]
  /\ DOMAIN trends \subseteq Sectors /\ \A s \in DOMAIN trends : trends[s] \in Trend
  /\ rows = Nothing \/ \A s \in DOMAIN rows : s \in Sectors /\ rows[s] \in Trend
  /\ overlap \in 0..Cardinality(Workers)
  /\ starts \in 0..MaxStarts
  /\ faults \in 0..MaxFaults

(***************************************************************************)
(* An article is analysed exactly when a result of it is stored, and a     *)
(* collected one has none: results and statuses become visible together,   *)
(* however runs overlap or are lost.  Only a second run that got no answer *)
(* may set an article aside that has a result.                             *)
(***************************************************************************)
StatusTellsResults ==
  \A u \in Urls :
    /\ status[u] = "analyzed" => results[u] # <<>>
    /\ status[u] \in {"absent", "collected"} => results[u] = <<>>
    /\ status[u] = "analysis_failed" /\ results[u] # <<>> => overlap > 1

(***************************************************************************)
(* An article has at most as many results as runs ever overlapped: a run   *)
(* never repeats what an earlier one has done.                             *)
(***************************************************************************)
RepeatedOnlyByOverlap == \A u \in Urls : Len(results[u]) =< overlap

(***************************************************************************)
(* A sector's row of the day counts every tag of every stored analysis at   *)
(* most once, however often the day is aggregated while workers add results.*)
(* So it is the number of the sector's articles that db/models.py:144 calls *)
(* it, or less, as long as no runs overlapped and no answer repeated the    *)
(* tag; otherwise an article may count again.                               *)
(***************************************************************************)
TrendsCountOnce ==
  \A s \in DOMAIN trends :
    /\ trends[s].news_volume =< Cardinality(Tagged(s))
    /\ trends[s].positive =< trends[s].news_volume
    /\ overlap < 2 /\ (\A a \in Analyses(PublishedToday) : \A i, j \in Places(a, s) : i = j) =>
         trends[s].news_volume =< Cardinality({u \in PublishedToday : \E a \in Analyses({u}) : Places(a, s) # {}})

(***************************************************************************)
(* A run ends, whatever Claude answers and however often it must retry.    *)
(***************************************************************************)
RunsEnd == \A w \in Workers : work[w].pc = "run" ~> work[w].pc = "idle"
=============================================================================
