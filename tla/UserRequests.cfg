SPECIFICATION Spec
CONSTANTS
  Requests = {r1, r2}
  Nothing = Nothing
  MaxStarts = 4
  AdviceKeys = {rebalance, briefing}
  NeedsHoldings = {rebalance}
  Advices = {advised, error}
  Portfolio = {p1, p2}
  Holding = {h1, h2}
  PresetNames = {n1, n2, n3}
  MAX_PRESETS_PER_USER = 2
  Emails = {e1, e2}
  Off = Off
  Types = {t1, t2}
  Settings = {on, off}
SYMMETRY Symmetry
INVARIANTS OneAdviceADay PresetsWithinRace UnanimousMailHolds PreferencesAreOneRequests OptimizationIsRecent
CHECK_DEADLOCK FALSE
