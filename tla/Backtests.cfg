SPECIFICATION FairSpec
CONSTANTS
  s1 = s1
  s2 = s2
  Runs = {r1}
  Stocks = {s1, s2}
  Place <- MCPlace
  Series <- MCSeries
  Lookback = 2
  Strategies = {"momentum", "volume"}
  MaxFailures = 1
CHECK_DEADLOCK FALSE
INVARIANTS StatusTellsRows DrawdownIsWorstFall OneStockAgrees
PROPERTY SettlesUnlessHit
