SPECIFICATION FairSpec
CONSTANTS
  Jobs = {j1}
  Procs = {w1, w2}
  MAX_RETRIES = 2
  ProcessingTimeout = 2
  TaskTimeout = 2
  Scores <- DeepDocs
  Waits = {0}
  MaxLag = 0
  Budgets <- CrashOnly
  Null = Null
PROPERTIES
  VisibilityTimerRecovers
