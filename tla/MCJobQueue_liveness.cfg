SPECIFICATION FairSpec
CONSTANTS
  Jobs = {j1, j2}
  Procs = {w1, w2}
  MAX_RETRIES = 2
  ProcessingTimeout = 2
  TaskTimeout = 2
  Scores <- SeedOrDocs
  Waits = {0, 900}
  MaxLag = 0
  Budgets <- Stops
  Null = Null
INVARIANTS
  QueuedByScore
  ReaperIdle
PROPERTIES
  FailureNeverPromotes
  ServedInOrder
  Settles
  Drains
  ImplementsLifecycle
