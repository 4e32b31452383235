SPECIFICATION Spec
CONSTANTS
  Jobs = {j1, j2}
  Procs = {w1, w2}
  MAX_RETRIES = 2
  ProcessingTimeout = 2
  TaskTimeout = 2
  Scores <- DeepPage
  Waits = {900}
  MaxLag = 1
  Budgets <- Pairs
  Null = Null
SYMMETRY Symmetric
INVARIANTS
  TypeOK
  NoJobLost
  SingleOwner
  RetryBudget
  NoGhostEntries
  KeyHasOwner
  InFlightIsTracked
