------------------------------ MODULE Scoring -------------------------------
(***************************************************************************)
(* How RecommendationService.run scores and ranks the stocks: four factors *)
(* out of the news and the market, weighted, then moved by the votes of    *)
(* the users; and how the detail page takes the score apart again.  Here   *)
(* the inputs change one at a time; the scores are functions of them.      *)
(*                                                                         *)
(* Factors are in units of 1/UNIT and scores in units of 1/ONE: exact with *)
(* up to eight mentions and eight votes of a stock, rounded down with more; *)
(* floats are not modelled.                                                *)
(***************************************************************************)
EXTENDS Integers, FiniteSetsExt

CONSTANTS
  Stocks,
  Sentiments,    \* sentiment_score of an analysed article, in -1..1
  Quotes,        \* [change: per cent, volume: millions of shares]
  NoQuote,       \* the look-up of a price failed
  MaxMentions, MaxVotes   \* bounds on mentions and votes, over all stocks

ASSUME ScoringAssumption ==
  /\ Sentiments \subseteq -1..1
  /\ Quotes \subseteq [change : Int, volume : Nat] /\ NoQuote \notin Quotes
  /\ MaxMentions \in Nat /\ MaxVotes \in Nat

VARIABLES
  mentions,   \* per stock the number of mapped mentions in analysed articles, and their sum
  quote,      \* what get_stock_price_data answers
  votes       \* recommendation_feedback, as get_bulk_feedback counts it

scoringVars == <<mentions, quote, votes>>

UNIT == 840
ONE == 100 * UNIT

Clamp(x, low, high) == Max({low, Min({high, x})})

ScoringInit ==
  /\ mentions = [s \in Stocks |-> [n |-> 0, sum |-> 0]]
  /\ quote = [s \in Stocks |-> NoQuote]
  /\ votes = [s \in Stocks |-> [up |-> 0, down |-> 0]]
-----------------------------------------------------------------------------
(* StockAggregator.aggregate: only stocks that are mentioned are scored. *)
Aggregated == {s \in Stocks : mentions[s].n > 0}

Sentiment(s) == ((mentions[s].sum + mentions[s].n) * (UNIT \div 2)) \div mentions[s].n
Volume(s) == Min({mentions[s].n * (UNIT \div 10), UNIT})
Momentum(s) == IF quote[s] = NoQuote THEN 0
               ELSE Clamp((quote[s].change + 10) * (UNIT \div 20), 0, UNIT)
Anomaly(s) == IF quote[s] = NoQuote THEN 0
              ELSE Min({quote[s].volume * (UNIT \div 20), UNIT})

(* calculate_stock_score and decompose_score weigh alike. *)
Weighted(sentiment, volume, momentum, anomaly) ==
  40 * sentiment + 20 * volume + 25 * momentum + 15 * anomaly

Base(s) == Weighted(Sentiment(s), Volume(s), Momentum(s), Anomaly(s))

MAX_ADJ == 15 * UNIT
MIN_VOTES_FOR_CONFIDENCE == 5

(* Mutant: the confidence grows with the votes for the stock. *)
CoefficientOfUps(v) ==
  LET total == v.up + v.down
  IN  IF total = 0 THEN 0
      ELSE ((v.up - v.down) * Min({v.up, MIN_VOTES_FOR_CONFIDENCE}) * MAX_ADJ)
             \div (total * MIN_VOTES_FOR_CONFIDENCE)

(* calculate_feedback_coefficient: the net share of the votes times the
   confidence, which is full from five votes on. *)
Coefficient(v) ==
  LET total == v.up + v.down
  IN  IF total = 0 THEN 0
      ELSE Clamp(((v.up - v.down) * Min({total, MIN_VOTES_FOR_CONFIDENCE}) * MAX_ADJ)
                   \div (total * MIN_VOTES_FOR_CONFIDENCE), -MAX_ADJ, MAX_ADJ)

(* apply_feedback_adjustment: the score, and the part of the coefficient that
   the clamp lets through. *)
Total(s) == Clamp(Base(s) + Coefficient(votes[s]), 0, ONE)

(* Mutant: what the votes asked for is reported. *)
FeedbackUnclamped(s) == Coefficient(votes[s])

Feedback(s) == Total(s) - Base(s)

(* rank_stocks sorts by score; equals stay in the order of the database. *)
Outranks(s, t) == {s, t} \subseteq Aggregated /\ Total(s) > Total(t)

(* round(x, 3) of a number in units of 1/one, in thousandths. *)
Rounded(x, one) == (2000 * x + one) \div (2 * one)

(* The detail page weighs the stored, rounded factors again. *)
Breakdown(s) == Weighted(Rounded(Sentiment(s), UNIT), Rounded(Volume(s), UNIT),
                         Rounded(Momentum(s), UNIT), Rounded(Anomaly(s), UNIT))
-----------------------------------------------------------------------------
MentionAnalyzed(s, sentiment) ==
  /\ MapThenSumSet(LAMBDA t : mentions[t].n, Stocks) < MaxMentions
  /\ mentions' = [mentions EXCEPT ![s] = [n |-> @.n + 1, sum |-> @.sum + sentiment]]
  /\ UNCHANGED <<quote, votes>>

MarketMoves(s) ==
  /\ \E q \in Quotes \cup {NoQuote} : quote' = [quote EXCEPT ![s] = q]
  /\ UNCHANGED <<mentions, votes>>

(* save_feedback: a row per vote, any number by anybody; nothing withdraws one. *)
SaveFeedback(s, vote) ==
  /\ MapThenSumSet(LAMBDA t : votes[t].up + votes[t].down, Stocks) < MaxVotes
  /\ votes' = [votes EXCEPT ![s][vote] = @ + 1]
  /\ UNCHANGED <<mentions, quote>>

ScoringNext == \E s \in Stocks : \/ \E x \in Sentiments : MentionAnalyzed(s, x)
                          \/ MarketMoves(s)
                          \/ \E vote \in {"up", "down"} : SaveFeedback(s, vote)

ScoringSpec == ScoringInit /\ [][ScoringNext]_scoringVars
-----------------------------------------------------------------------------
(***************************************************************************)
(* A vote never works against its sense: after a vote for a stock nothing  *)
(* outranks it that did not, after one against it nothing is outranked by   *)
(* it that was not, although each vote changes the share and the            *)
(* confidence at once.                                                      *)
(***************************************************************************)
VotesPullTheirWay ==
  [][\A s, t \in Stocks :
       /\ votes'[s].up > votes[s].up => (Outranks(t, s)' => Outranks(t, s))
       /\ votes'[s].down > votes[s].down => (Outranks(s, t)' => Outranks(s, t))]_scoringVars

(***************************************************************************)
(* The contributions and the feedback delta the detail page shows add up to *)
(* the total score it shows, but for three roundings: 1.5 thousandths.      *)
(***************************************************************************)
BreakdownAddsUp ==
  \A s \in Aggregated :
    LET gap == 100 * Rounded(Total(s), ONE) - 100 * Rounded(Feedback(s), ONE) - Breakdown(s)
    IN  gap \in -150..150
=============================================================================
