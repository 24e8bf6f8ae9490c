SPECIFICATION ScoringSpec
CONSTANTS
  Stocks = {s1, s2}
  Sentiments <- MCSentiments
  Quotes <- MCQuotes
  NoQuote = NoQuote
  MaxMentions = 3
  MaxVotes = 6
SYMMETRY Symmetry
INVARIANTS BreakdownAddsUp
PROPERTIES VotesPullTheirWay
CHECK_DEADLOCK FALSE
