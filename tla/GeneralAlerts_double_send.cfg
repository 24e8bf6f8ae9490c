SPECIFICATION Spec
CONSTANTS
  Users = {u1}
  u1 = u1
  k1 = k1
  a1 = a1
  a2 = a2
  c1 = c1
  c2 = c2
  Topics <- MCTopics
  Days <- MCDays
  NoQuote = NoQuote
  NoAlert = NoAlert
  Codes = {k1}
  OwnerOf <- MCOwnerOf
  CodeOf <- MCCodeOf
  UserDirections <- MCUserDirections
  Quotes <- OneQuote
  Alerts = {a1}
  Checkers = {c1, c2}
  TypeOf <- SameType
  Values = {2}
  MaxDay = 1
  MaxChurn = 0
  MaxFailures = 0
INVARIANT AtMostOneSend
