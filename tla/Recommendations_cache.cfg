SPECIFICATION Spec
CONSTANTS
  Readers = {r1, r2}
  Queries <- TwoQueries
  None = None
  MaxDay = 2
  MaxBatches = 2
  MaxFailures = 1
SYMMETRY ReaderSymmetry
INVARIANTS DefaultIsCurrent CleanRunPurges UnstoredOnlyAfterFailure
