SPECIFICATION Spec
CONSTANTS
  Users = {u1}
  Codes = {k1, k2}
  Scores = {0, 2}
  Threshold = 2
  Topics <- MCTopics
  Days <- MCDays
  MaxDay = 2
  MaxRuns = 3
  MaxFailures = 1
SYMMETRY CodeSymmetry
INVARIANTS NewStaysTrue SteadyWatchersAreTold MailedIsRecorded
PROPERTY InboxRowsOnlyAdvance
