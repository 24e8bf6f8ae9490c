SPECIFICATION ReportsSpec
CONSTANTS
  Slots = {h1, h2}
  Rows <- MCRows
  Codes = {"a", "b"}
  get_sector <- MCSectors
  Prices = {1, 4}
  Infos <- MCInfos
  Readers = {r1}
  Nothing = Nothing
  MaxSurprises = 1
SYMMETRY Symmetry
INVARIANTS DividendIsRecent AveragesLieWithin
CHECK_DEADLOCK FALSE
