----------------------------- MODULE Portfolios -----------------------------
(***************************************************************************)
(* The optimisation of a portfolio: cached under the portfolio and the day *)
(* for an hour, made by Claude otherwise.  Nothing drops it when the       *)
(* holdings change; they change in threads, while requests wait.           *)
(***************************************************************************)
EXTENDS Requests

CONSTANTS Portfolio, Holding   \* ids of portfolios and of portfolio_holdings

VARIABLES
  holdings,   \* the holdings of each portfolio
  optimized,  \* the holdings the cached optimisation is about, or Nothing
  since,      \* history: what its portfolio has held since an optimisation was asked for
  had         \* history: that, of the request that stored the cached optimisation

portfolioVars == <<holdings, optimized, since, had>>

PortfoliosInit ==
  /\ holdings = [p \in Portfolio |-> {}]
  /\ optimized = [p \in Portfolio |-> Nothing]
  /\ since = [r \in Requests |-> {}]
  /\ had = [p \in Portfolio |-> {}]

Remember ==
  since' = [r \in Requests |-> IF req'[r].op = "optimize" THEN since[r] \cup {holdings[req[r].key]'} ELSE {}]

(* add_holding and remove_holding of the owner. *)
ChangeHoldings(r) ==
  /\ AnswerAtOnce(r)
  /\ \E p \in Portfolio, h \in Holding :
       /\ \A q \in Portfolio \ {p} : h \notin holdings[q]
       /\ holdings' = [holdings EXCEPT ![p] = (@ \ {h}) \cup ({h} \ @)]
  /\ UNCHANGED <<optimized, had>>
  /\ Remember

(* Mutant: a hit stores the entry again, for another hour. *)
AskOptimizationRenews(r, p) ==
  /\ \/ optimized[p] # Nothing /\ Begin(r, "optimize", p, optimized[p])
     \/ holdings[p] # {} /\ Begin(r, "optimize", p, holdings[p])
  /\ UNCHANGED <<holdings, optimized, had>>
  /\ Remember

(* The owner asks, with refresh or without: a hit answers, a portfolio without
   holdings is refused, otherwise Claude is asked about the holdings read here. *)
AskOptimization(r, p) ==
  /\ \/ optimized[p] # Nothing /\ AnswerAtOnce(r)
     \/ holdings[p] = {} /\ AnswerAtOnce(r)
     \/ holdings[p] # {} /\ Begin(r, "optimize", p, holdings[p])
  /\ UNCHANGED <<holdings, optimized, had>>
  /\ Remember

CacheOptimization(r) ==
  /\ req[r].op = "optimize"
  /\ optimized' = [optimized EXCEPT ![req[r].key] = req[r].seen]
  /\ had' = [had EXCEPT ![req[r].key] = since[r]]
  /\ Answer(r)
  /\ UNCHANGED holdings
  /\ Remember

(* Claude's answer raises (no key, no JSON), or Redis does: a 500. *)
OptimizationFails(r) ==
  /\ req[r].op = "optimize"
  /\ Answer(r)
  /\ UNCHANGED <<holdings, optimized, had>>
  /\ Remember

(* The hour is over, or the day is. *)
ExpireOptimization(p) ==
  /\ optimized[p] # Nothing
  /\ optimized' = [optimized EXCEPT ![p] = Nothing]
  /\ had' = [had EXCEPT ![p] = {}]
  /\ UNCHANGED <<holdings, since, reqVars>>

PortfoliosNext ==
  \/ \E r \in Requests : \/ ChangeHoldings(r) \/ CacheOptimization(r) \/ OptimizationFails(r)
                         \/ \E p \in Portfolio : AskOptimization(r, p)
  \/ \E p \in Portfolio : ExpireOptimization(p)

(***************************************************************************)
(* A cached optimisation is about holdings that its own portfolio had while *)
(* the request that stored it was in flight.  Holdings change beside the    *)
(* request and after it, so the entry may be older than that request's end  *)
(* by the request itself, and by one time to live, but by no more: nothing  *)
(* stores an entry again.                                                   *)
(***************************************************************************)
OptimizationIsRecent == \A p \in Portfolio : optimized[p] # Nothing => optimized[p] \in had[p]
=============================================================================
