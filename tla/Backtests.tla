----------------------------- MODULE Backtests -----------------------------
(***************************************************************************)
(* The backtests: the rows of backtest_runs and backtest_daily_results,    *)
(* run_backtest, which carries a run from "pending" to "done" or "failed", *)
(* the two strategies, and the figures the routes compute from the rows.   *)
(*                                                                         *)
(* POST /backtest/run is served in a worker thread, where there is no      *)
(* event loop: the row is stored as "pending" and the task is not made     *)
(* (the warning it logs says the run has to be executed by hand).  Execute *)
(* is that call of run_backtest by hand.                                   *)
(*                                                                         *)
(* A price is a small natural number, a return is kept as the growth factor*)
(* 1 + return, an exact fraction <<numerator, denominator>>.               *)
(***************************************************************************)
EXTENDS Integers, Sequences, FiniteSets

CONSTANTS
  Runs,        \* ids of backtest_runs
  Stocks,      \* the universe of the run
  Place,       \* [Stocks -> Nat], the order of _get_krx_universe
  Series,      \* price series a data source may return for a stock
  Lookback,    \* _LOOKBACK_DAYS
  Strategies,  \* strategies a user may ask for
  MaxFailures  \* bound on database failures and restarts

ASSUME BacktestsAssumption ==
  /\ IsFiniteSet(Stocks)
  /\ Place \in [Stocks -> Nat] /\ \A s, t \in Stocks : Place[s] = Place[t] => s = t
  /\ Lookback \in Nat \ {0, 1} /\ MaxFailures \in Nat
  /\ Strategies \subseteq {"momentum", "volume"}
  /\ Series \subseteq Seq([close : Nat \ {0}, volume : Nat \ {0}])

VARIABLES
  runs,       \* status and strategy of each run
  results,    \* the rows of backtest_daily_results of each run
  task,       \* where run_backtest is with each run
  found,      \* the price data the run's task works on
  failures    \* bound

vars == <<runs, results, task, found, failures>>

Absent == "absent"

Run == [status : {Absent, "pending", "running", "done", "failed"},
        strategy : {"momentum", "volume"}]

TaskStates == {"none", "starting", "prices", "benchmark", "save", "finish", "raised"}
-----------------------------------------------------------------------------
(***************************************************************************)
(* The strategies.  A row is a date, a stock, a signal and a growth factor; *)
(* the date is the index of the day in the series.                         *)
(***************************************************************************)
RowOf(code, s, i, signal) ==
  [trade_date |-> i, krx_code |-> code, signal |-> signal,
   growth |-> <<s[i].close, s[i - 1].close>>]

(* _run_momentum_strategy: a row for each day with a price Lookback days ago. *)
MomentumRows(code, s) ==
  {RowOf(code, s, i, IF s[i].close > s[i - Lookback].close THEN "buy" ELSE "sell") :
     i \in {j \in DOMAIN s : Len(s) >= Lookback /\ j > Lookback}}

(* The rolling sum over the Lookback days that end with day i. *)
Volume(s, i) ==
  LET upTo[j \in 0..i] == IF j = 0 THEN 0 ELSE upTo[j - 1] + s[j].volume
  IN  upTo[i] - upTo[i - Lookback]

(* _run_volume_strategy: a row for each day with a full window; the window
   includes the day itself. *)
VolumeRows(code, s) ==
  {RowOf(code, s, i, IF s[i].volume * Lookback > Volume(s, i) THEN "buy" ELSE "hold") :
     i \in {j \in DOMAIN s : j >= Lookback}}

(* What run_backtest stores for the data it found: all rows of all stocks;
   top_n is handed to the strategies, which do not look at it. *)
TradeRecords(strategy, data) ==
  UNION {IF strategy = "momentum" THEN MomentumRows(c, data[c]) ELSE VolumeRows(c, data[c]) :
           c \in DOMAIN data}
-----------------------------------------------------------------------------
(***************************************************************************)
(* Fractions and the figures of metrics.py and of the two read routes.     *)
(***************************************************************************)
Times(a, b) == <<a[1] * b[1], a[2] * b[2]>>
Plus(a, b) == <<a[1] * b[2] + b[1] * a[2], a[2] * b[2]>>
LessEq(a, b) == a[1] * b[2] =< b[1] * a[2]
SameAs(a, b) == a[1] * b[2] = b[1] * a[2]
One == <<1, 1>>

(* The rows in the order of the query.  Rows of one date are returned in any
   order; the stock's place in the universe stands for it. *)
Before(x, y) == \/ x.trade_date < y.trade_date
                \/ x.trade_date = y.trade_date /\ Place[x.krx_code] < Place[y.krx_code]

Ranked(S) == [i \in 1..Cardinality(S) |->
                CHOOSE x \in S : Cardinality({y \in S : Before(y, x)}) = i - 1]

(* _build_cumulative: the value after each growth factor, starting from one. *)
Cumulative(factors) ==
  LET value[i \in 0..Len(factors)] ==
        IF i = 0 THEN One ELSE Times(value[i - 1], factors[i])
  IN  [i \in 1..(Len(factors) + 1) |-> value[i - 1]]

(* get_run compounds the rows one after another. *)
RunSeries(r) == Cumulative([i \in 1..Cardinality(results[r]) |-> Ranked(results[r])[i].growth])

(* Mutant: the mean is taken over the universe. *)
MeanOverUniverse(S) ==
  LET q == Ranked(S)
      sum[i \in 0..Len(q)] == IF i = 0 THEN <<0, 1>> ELSE Plus(sum[i - 1], q[i].growth)
  IN  Times(sum[Len(q)], <<1, Cardinality(Stocks)>>)

(* get_results compounds, date by date, the mean over the stocks. *)
Mean(S) ==
  LET q == Ranked(S)
      sum[i \in 0..Len(q)] == IF i = 0 THEN <<0, 1>> ELSE Plus(sum[i - 1], q[i].growth)
  IN  Times(sum[Len(q)], <<1, Cardinality(S)>>)

PortfolioSeries(r) ==
  LET dates == {x.trade_date : x \in results[r]}
      first(i) == CHOOSE d \in dates : Cardinality({e \in dates : e < d}) = i - 1
  IN  Cumulative([i \in 1..Cardinality(dates) |->
                    Mean({x \in results[r] : x.trade_date = first(i)})])

(* Mutant: the peak stays at the first value. *)
PeakIsFirst(v) == [i \in DOMAIN v |-> v[1]]

(* calculate_max_drawdown, as the ratio value / peak: the highest value so far
   and the smallest ratio to it. *)
Peak(v) ==
  LET peak[i \in DOMAIN v] ==
        IF i = 1 THEN v[1] ELSE IF LessEq(v[i], peak[i - 1]) THEN peak[i - 1] ELSE v[i]
  IN  peak

Ratio(a, b) == <<a[1] * b[2], a[2] * b[1]>>

Drawdown(v) ==
  LET worst[i \in DOMAIN v] ==
        LET here == Ratio(v[i], Peak(v)[i])
        IN  IF i = 1 THEN One ELSE IF LessEq(worst[i - 1], here) THEN worst[i - 1] ELSE here
  IN  worst[Len(v)]

(* calculate_total_return, plus one. *)
TotalReturn(v) == Ratio(v[Len(v)], v[1])

-----------------------------------------------------------------------------
Init ==
  /\ runs = [r \in Runs |-> [status |-> Absent, strategy |-> "momentum"]]
  /\ results = [r \in Runs |-> {}]
  /\ task = [r \in Runs |-> "none"]
  /\ found = [r \in Runs |-> <<>>]
  /\ failures = 0

Failure == failures < MaxFailures /\ failures' = failures + 1

(* start_backtest. *)
StartBacktest(r) ==
  /\ runs[r].status = Absent
  /\ \E s \in Strategies : runs' = [runs EXCEPT ![r] = [status |-> "pending", strategy |-> s]]
  /\ UNCHANGED <<results, task, found, failures>>

(* run_backtest(r, ...) is called by hand on a run that waits. *)
Execute(r) ==
  /\ runs[r].status = "pending"
  /\ task[r] = "none"
  /\ task' = [task EXCEPT ![r] = "starting"]
  /\ UNCHANGED <<runs, results, found, failures>>

(* _update_status and its commit. *)
SetStatus(r, s) == runs' = [runs EXCEPT ![r].status = s]

SetRunning(r) ==
  /\ task[r] = "starting"
  /\ SetStatus(r, "running")
  /\ task' = [task EXCEPT ![r] = "prices"]
  /\ UNCHANGED <<results, found, failures>>

(* _fetch_price_data in the thread pool: a stock whose lookup fails or returns
   nothing is left out. *)
FetchPrices(r) ==
  /\ task[r] = "prices"
  /\ \E S \in SUBSET Stocks : \E data \in [S -> Series] : found' = [found EXCEPT ![r] = data]
  /\ task' = [task EXCEPT ![r] = "benchmark"]
  /\ UNCHANGED <<runs, results, failures>>

(* _fetch_benchmark_data never raises, and nothing of it is stored. *)
FetchBenchmark(r) ==
  /\ task[r] = "benchmark"
  /\ task' = [task EXCEPT ![r] = "save"]
  /\ UNCHANGED <<runs, results, found, failures>>

(* Mutant: an exception of the computation is not caught. *)
ComputationRaisesUncaught(r) ==
  /\ task[r] \in {"prices", "benchmark"}
  /\ task' = [task EXCEPT ![r] = "none"]
  /\ UNCHANGED <<runs, results, found, failures>>

(* The strategy or the import of its libraries raises, with no statement of the
   transaction pending: the handler can write the status. *)
ComputationRaises(r) ==
  /\ task[r] \in {"prices", "benchmark"}
  /\ task' = [task EXCEPT ![r] = "raised"]
  /\ UNCHANGED <<runs, results, found, failures>>

(* Mutant: each row is committed by itself, and a failure leaves some. *)
SaveRowByRow(r) ==
  /\ task[r] = "save"
  /\ \E S \in SUBSET TradeRecords(runs[r].strategy, found[r]) :
       results' = [results EXCEPT ![r] = @ \cup S]
  /\ task' = [task EXCEPT ![r] = "finish"]
  /\ UNCHANGED <<runs, found, failures>>

(* _save_results: every row in one transaction. *)
SaveResults(r) ==
  /\ task[r] = "save"
  /\ results' = [results EXCEPT ![r] = @ \cup TradeRecords(runs[r].strategy, found[r])]
  /\ task' = [task EXCEPT ![r] = "finish"]
  /\ UNCHANGED <<runs, found, failures>>

Finish(r) ==
  /\ task[r] = "finish"
  /\ SetStatus(r, "done")
  /\ task' = [task EXCEPT ![r] = "none"]
  /\ UNCHANGED <<results, found, failures>>

MarkFailed(r) ==
  /\ task[r] = "raised"
  /\ SetStatus(r, "failed")
  /\ task' = [task EXCEPT ![r] = "none"]
  /\ UNCHANGED <<results, found, failures>>

(* A statement or commit fails.  The handler asks the same session, which was
   not rolled back and refuses, so the exception leaves the task and the status
   stays what it was.  The server may have committed when only the answer was
   lost. *)
DatabaseFails(r) ==
  /\ task[r] \in {"starting", "save", "finish", "raised"}
  /\ Failure
  /\ task' = [task EXCEPT ![r] = "none"]
  /\ \/ UNCHANGED <<runs, results>>
     \/ task[r] = "save" /\ UNCHANGED runs
        /\ results' = [results EXCEPT ![r] = @ \cup TradeRecords(runs[r].strategy, found[r])]
     \/ task[r] = "finish" /\ SetStatus(r, "done") /\ UNCHANGED results
  /\ UNCHANGED found

(* The process stops; nothing takes the tasks up again. *)
Restart ==
  /\ Failure
  /\ task' = [r \in Runs |-> "none"]
  /\ UNCHANGED <<runs, results, found>>

RunBacktest(r) ==
  \/ SetRunning(r) \/ FetchPrices(r) \/ FetchBenchmark(r) \/ ComputationRaises(r)
  \/ SaveResults(r) \/ Finish(r) \/ MarkFailed(r) \/ DatabaseFails(r)

Next == (\E r \in Runs : StartBacktest(r) \/ Execute(r) \/ RunBacktest(r)) \/ Restart

Spec == Init /\ [][Next]_vars

(* The event loop resumes a task whose awaited call has returned. *)
FairSpec == Spec /\ \A r \in Runs : WF_vars(RunBacktest(r))
-----------------------------------------------------------------------------
TypeOK ==
  /\ runs \in [Runs -> Run]
  /\ \A r \in Runs : \A x \in results[r] :
       /\ x.krx_code \in Stocks
       /\ x.signal \in {"buy", "sell", "hold"}
       /\ x.trade_date \in Nat /\ x.growth \in (Nat \ {0}) \X (Nat \ {0})
  /\ task \in [Runs -> TaskStates]
  /\ failures \in 0..MaxFailures

(***************************************************************************)
(* A run that says "done" has the rows of its strategy on the data it      *)
(* found, all of them and no others; one that has not come to its save, or *)
(* failed, has none: the figures of get_run rest on nothing half-saved.    *)
(***************************************************************************)
StatusTellsRows ==
  \A r \in Runs :
    /\ runs[r].status = "done" => results[r] = TradeRecords(runs[r].strategy, found[r])
    /\ runs[r].status \in {Absent, "pending", "failed"} => results[r] = {}

(***************************************************************************)
(* A run whose execution began ends as "done" or "failed", unless a        *)
(* database failure or a restart hit it: those leave it where it is.       *)
(***************************************************************************)
SettlesUnlessHit ==
  \A r \in Runs : task[r] # "none" ~>
    runs[r].status \in {"done", "failed"} \/ (failures > 0 /\ task[r] = "none")

(***************************************************************************)
(* The running peak of calculate_max_drawdown finds the worst fall from    *)
(* any value to any later one.                                             *)
(***************************************************************************)
DrawdownIsWorstFall ==
  \A r \in Runs : runs[r].status = "done" =>
    LET v == RunSeries(r)
        later == UNION {{Ratio(v[j], v[i]) : j \in i..Len(v)} : i \in DOMAIN v}
    IN  /\ \A f \in later : LessEq(Drawdown(v), f)
        /\ \E f \in later : SameAs(Drawdown(v), f)

(***************************************************************************)
(* The two routes agree on a run of one stock: what get_run calls the      *)
(* total return is where the series of get_results ends, though one        *)
(* compounds row by row and the other date by date.                        *)
(***************************************************************************)
OneStockAgrees ==
  \A r \in Runs :
    runs[r].status = "done" /\ Cardinality({x.krx_code : x \in results[r]}) = 1 =>
      SameAs(TotalReturn(RunSeries(r)), TotalReturn(PortfolioSeries(r)))
=============================================================================
