SPECIFICATION FairSpec
CONSTANTS
  Conns = {w1, w2}
  Symbols = {s1, s2}
  Unsteady = {s1}
  NoSymbol = NoSymbol
INVARIANTS IndexesAgree NoGhosts
PROPERTIES RelationSpec PricesKeepComing DeadAreReleased
