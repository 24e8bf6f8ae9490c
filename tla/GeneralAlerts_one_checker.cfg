SPECIFICATION FairSpec
CONSTANTS
  Users = {u1}
  u1 = u1
  k1 = k1
  a1 = a1
  a2 = a2
  c1 = c1
  c2 = c2
  Topics <- MCTopics
  Days <- MCDays
  NoQuote = NoQuote
  NoAlert = NoAlert
  Codes = {k1}
  OwnerOf <- MCOwnerOf
  CodeOf <- MCCodeOf
  UserDirections <- MCUserDirections
  Quotes <- TwoQuotes
  Alerts = {a1, a2}
  Checkers = {c1}
  TypeOf <- MixedTypes
  Values = {2}
  MaxDay = 1
  MaxChurn = 2
  MaxFailures = 2
INVARIANT AtMostOneSend
PROPERTY EventuallyTriggers
