-------------------------- MODULE PortfolioReports --------------------------
(***************************************************************************)
(* The two reports on a portfolio: its performance, out of the current     *)
(* prices, and its dividends, out of the listing of the exchange and a     *)
(* cache of one day per stock.  The dividend route awaits the cache and    *)
(* the listing for each holding in turn, while other requests use them.    *)
(* Money is exact; the rounding of the reports is left out.                *)
(***************************************************************************)
EXTENDS Integers, FiniteSets, Functions

CONSTANTS
  Slots,      \* ids of portfolio_holdings
  Rows,       \* [krx_code, quantity, avg_buy_price] with positive numbers
  Codes,
  get_sector, \* the sector of a code, by its prefix
  Prices,     \* positive prices
  Infos,      \* [dps, dividend_yield, ex_month] the listing may carry for a stock
  Readers,    \* requests of the dividend report
  Nothing,    \* no row, no price, no cache entry, no number
  MaxSurprises \* bound on failing look-ups and changes of the listing

ASSUME ReportsAssumption ==
  /\ MaxSurprises \in Nat
  /\ IsFiniteSet(Slots)
  /\ DOMAIN get_sector = Codes
  /\ Rows \subseteq [krx_code : Codes, quantity : Nat \ {0}, avg_buy_price : Nat \ {0}]
  /\ Prices \subseteq Nat \ {0}
  /\ Infos \subseteq [dps : Nat \cup {Nothing}, dividend_yield : Nat \cup {Nothing},
                      ex_month : 1..12 \cup {Nothing}]

VARIABLES
  holdings,  \* the rows of the portfolio
  listing,   \* what FinanceDataReader lists of each stock
  cached,    \* dividends:{krx_code}
  listed,    \* history: what was listed of each stock, or that it failed, since a request came in
  carried,   \* history: that, of the request that stored the cached entry
  req,       \* the dividend requests: rows to look up, rows looked up, value to store
  surprises,
  answer     \* the report this step answers with

reportsVars == <<holdings, listing, cached, listed, carried, req, surprises, answer>>

NoReport == [kind |-> "none"]

Surprise == surprises < MaxSurprises /\ surprises' = surprises + 1

Idle == [todo |-> {}, got |-> {}, stores |-> Nothing, busy |-> FALSE]

NothingListed == [c \in Codes |-> {}]

ReportsInit ==
  /\ holdings = [h \in Slots |-> Nothing]
  /\ listing \in [Codes -> Infos]
  /\ cached = [c \in Codes |-> Nothing]
  /\ listed = [r \in Readers |-> NothingListed]
  /\ carried = NothingListed
  /\ req = [r \in Readers |-> Idle]
  /\ surprises = 0
  /\ answer = NoReport

Held == {h \in Slots : holdings[h] # Nothing}
Invested(row) == row.avg_buy_price * row.quantity
-----------------------------------------------------------------------------
(* add_holding and remove_holding. *)
ChangeHoldings ==
  /\ \E h \in Slots, row \in Rows \cup {Nothing} : holdings' = [holdings EXCEPT ![h] = row]
  /\ answer' = NoReport
  /\ UNCHANGED <<listing, cached, listed, carried, req, surprises>>

(* A row at its current price, or at what was paid without one. *)
Current(row, price) == row.quantity * (IF price = Nothing THEN row.avg_buy_price ELSE price)

Sectors == {get_sector[c] : c \in Codes}

Sector(parts, x) == {p \in parts : get_sector[p.row.krx_code] = x}

(* calculate_performance: each price is asked for on its own. *)
Performance(price) ==
  LET parts == {[slot |-> h, row |-> holdings[h],
                 current |-> Current(holdings[h], price[h])] : h \in Held}
      Sum(S) == [invested |-> SumFunction([p \in S |-> Invested(p.row)]),
                 current |-> SumFunction([p \in S |-> p.current])]
  IN  [kind |-> "performance", price |-> price, rows |-> holdings, total |-> Sum(parts),
       sectors |-> [x \in Sectors |-> Sum(Sector(parts, x))]]

AskPerformance ==
  /\ \E price \in [Held -> Prices \cup {Nothing}] : answer' = Performance(price)
  /\ UNCHANGED <<holdings, listing, cached, listed, carried, req, surprises>>
-----------------------------------------------------------------------------
(* The answer of a look-up that failed, and of a stock that has neither a
   dividend per share nor a yield. *)
Empty == [dps |-> Nothing, dividend_yield |-> Nothing, ex_month |-> Nothing]

Extract(i) == IF i.dps = Nothing /\ i.dividend_yield = Nothing THEN Empty ELSE i

Available(i) == i # Empty

(* A dividend request reads the holdings. *)
AskDividends(r) ==
  /\ ~req[r].busy
  /\ req' = [req EXCEPT ![r] = [Idle EXCEPT !.busy = TRUE, !.todo = {[slot |-> h, row |-> holdings[h]] : h \in Held}]]
  /\ listed' = [listed EXCEPT ![r] = [c \in Codes |-> {Extract(listing[c])}]]
  /\ answer' = NoReport
  /\ UNCHANGED <<holdings, listing, cached, carried, surprises>>

Got(r, h, i) == [req[r] EXCEPT !.todo = @ \ {h}, !.got = @ \cup {[slot |-> h.slot, row |-> h.row, info |-> i]}]

(* Mutant: a hit stores the entry again, for another day. *)
HitDividendRenews(r) ==
  /\ req[r].stores = Nothing
  /\ \E h \in req[r].todo :
       LET c == h.row.krx_code IN
       /\ cached[c] # Nothing
       /\ req' = [req EXCEPT ![r] = [Got(r, h, cached[c]) EXCEPT !.stores = [code |-> c, info |-> cached[c]]]]
  /\ answer' = NoReport
  /\ UNCHANGED <<holdings, listing, cached, listed, carried, surprises>>

(* get_dividend_info: a hit, *)
HitDividend(r) ==
  /\ req[r].stores = Nothing
  /\ \E h \in req[r].todo :
       /\ cached[h.row.krx_code] # Nothing
       /\ req' = [req EXCEPT ![r] = Got(r, h, cached[h.row.krx_code])]
  /\ answer' = NoReport
  /\ UNCHANGED <<holdings, listing, cached, listed, carried, surprises>>

(* or, on a miss or with Redis away, the listing, which may fail; *)
FetchDividend(r) ==
  /\ req[r].stores = Nothing
  /\ \E h \in req[r].todo, failed \in BOOLEAN :
       LET c == h.row.krx_code
           i == IF failed THEN Empty ELSE Extract(listing[c])
       IN  /\ IF failed THEN Surprise ELSE UNCHANGED surprises
           /\ req' = [req EXCEPT ![r] = [Got(r, h, i) EXCEPT !.stores = [code |-> c, info |-> i]]]
           /\ listed' = [listed EXCEPT ![r][c] = @ \cup {i}]
           /\ answer' = NoReport
           /\ UNCHANGED <<holdings, listing, cached, carried>>

(* and whatever that gave, a failure too, is stored, or Redis is away. *)
StoreDividend(r) ==
  /\ req[r].stores # Nothing
  /\ LET c == req[r].stores.code IN
     \/ /\ cached' = [cached EXCEPT ![c] = req[r].stores.info]
        /\ carried' = [carried EXCEPT ![c] = listed[r][c]]
     \/ UNCHANGED <<cached, carried>>
  /\ req' = [req EXCEPT ![r].stores = Nothing]
  /\ answer' = NoReport
  /\ UNCHANGED <<holdings, listing, listed, surprises>>

(* Mutant: every holding weighs in the average yield. *)
YieldingAll(got) == got

(* Only holdings with a yield weigh in its average. *)
Yielding(got) == {g \in got : g.info.dividend_yield # Nothing}

Yield(g) == IF g.info.dividend_yield = Nothing THEN 0 ELSE g.info.dividend_yield
Income(g) == IF g.info.dps = Nothing THEN 0 ELSE g.info.dps * g.row.quantity
Months == {i.ex_month : i \in Infos} \ {Nothing}

(* calculate_portfolio_dividends, when all holdings are looked up. *)
Dividends(got) ==
  [kind |-> "dividends", got |-> got,
   total_annual_income |-> SumFunction([g \in got |-> Income(g)]),
   weighted |-> SumFunction([g \in Yielding(got) |-> Yield(g) * Invested(g.row)]),
   weight |-> SumFunction([g \in Yielding(got) |-> Invested(g.row)]),
   calendar |-> [m \in Months |-> SumFunction([g \in {x \in got : x.info.ex_month = m} |-> Income(g)])],
   coverage_count |-> Cardinality({g \in got : Available(g.info)})]

AnswerDividends(r) ==
  /\ req[r].busy
  /\ req[r].todo = {}
  /\ req[r].stores = Nothing
  /\ answer' = Dividends(req[r].got)
  /\ req' = [req EXCEPT ![r] = Idle]
  /\ listed' = [listed EXCEPT ![r] = NothingListed]
  /\ UNCHANGED <<holdings, listing, cached, carried, surprises>>
-----------------------------------------------------------------------------
(* The day of an entry is over. *)
DividendExpires(c) ==
  /\ cached[c] # Nothing
  /\ cached' = [cached EXCEPT ![c] = Nothing]
  /\ carried' = [carried EXCEPT ![c] = {}]
  /\ answer' = NoReport
  /\ UNCHANGED <<holdings, listing, listed, req, surprises>>

ListingChanges(c) ==
  /\ \E i \in Infos : listing' = [listing EXCEPT ![c] = i]
  /\ listed' = [r \in Readers |-> [listed[r] EXCEPT ![c] = IF req[r].busy THEN @ \cup {Extract(listing[c]')} ELSE @]]
  /\ Surprise
  /\ answer' = NoReport
  /\ UNCHANGED <<holdings, cached, carried, req>>

ReportsNext == \/ ChangeHoldings \/ AskPerformance
        \/ \E r \in Readers : \/ AskDividends(r) \/ HitDividend(r) \/ FetchDividend(r)
                              \/ StoreDividend(r) \/ AnswerDividends(r)
        \/ \E c \in Codes : DividendExpires(c) \/ ListingChanges(c)

ReportsSpec == ReportsInit /\ [][ReportsNext]_reportsVars
-----------------------------------------------------------------------------
(***************************************************************************)
(* A cached dividend is what the exchange listed of that very stock, or a   *)
(* failed look-up of it, at some time while the request that stored it was  *)
(* in flight.  So a failure or an old value may outlive that request by one *)
(* time to live, and no request that hits it prolongs its life.             *)
(***************************************************************************)
DividendIsRecent == \A c \in Codes : cached[c] # Nothing => cached[c] \in carried[c]

(* num1 / den1 <= num2 / den2, for positive denominators. *)
AtMost(num1, den1, num2, den2) == num1 * den2 =< num2 * den1

(* The return of the rows H of a report is among those of its rows. *)
ReturnLies(a, sum, H) ==
  LET now(h) == Current(a.rows[h], a.price[h])
      paid(h) == Invested(a.rows[h])
  IN  H # {} => /\ \E h \in H : AtMost(now(h), paid(h), sum.current, sum.invested)
                /\ \E h \in H : AtMost(sum.current, sum.invested, now(h), paid(h))

YieldLies(a) ==
  LET with == {g \in a.got : g.info.dividend_yield # Nothing}
  IN  with # {} => /\ \E g \in with : a.weighted >= Yield(g) * a.weight
                   /\ \E g \in with : a.weighted =< Yield(g) * a.weight

(***************************************************************************)
(* An average lies among what it averages: the return of the portfolio and *)
(* of each sector between those of its worst and its best holding, where a  *)
(* holding without a price counts as bought for what it is worth, so as one *)
(* with no return (REQ-PERF-007), and pulls the return towards that; and    *)
(* the yield between those of the holdings that have one, whatever the      *)
(* others are: they do not pull it.                                         *)
(***************************************************************************)
AveragesLieWithin ==
  /\ answer.kind = "performance" =>
       LET priced == DOMAIN answer.price
       IN  /\ ReturnLies(answer, answer.total, priced)
           /\ \A x \in Sectors :
                ReturnLies(answer, answer.sectors[x], {h \in priced : get_sector[answer.rows[h].krx_code] = x})
  /\ answer.kind = "dividends" => YieldLies(answer)
=============================================================================
