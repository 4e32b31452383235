SPECIFICATION Spec
CONSTANTS
  j1 = j1
  j2 = j2
  p1 = p1
  p2 = p2
  d1 = d1
  Jobs <- TwoJobs
  Runs = {r1, r2}
  Domains = {d1}
  DomainOf <- OneDomain
  GithubJobs <- Repositories
  Pages <- TwoPages
  Served <- Serving
  Near <- NearThemselves
  MaxRuns <- TwoRunsEach
  MaxRestarts = 0
  MAX_RETRIES = 2
  MaxFaults = 2
  None = None
INVARIANTS
  DroppedIsKept
CHECK_DEADLOCK FALSE
