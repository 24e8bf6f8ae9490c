SPECIFICATION FairSpec
CONSTANTS
  u1 = u1
  k1 = k1
  Users = {u1}
  Topics = {k1}
  Days <- MCDays
  MaxDay = 2
  NoQuote = NoQuote
  NoAlert = NoAlert
  Alerts = {a1, a2}
  OwnerOf <- MCOwnerOf
  CodeOf <- MCCodeOf
  Prices = {1, 2}
  Targets = {2}
  MaxChurn = 2
  MaxFailures = 1
INVARIANTS FiredHasInbox RelatedIsFired RepeatedOnlyAfterFailure
PROPERTY EventuallyFires
