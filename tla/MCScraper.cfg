SPECIFICATION FairSpec
CONSTANTS
  u1 = u1
  u2 = u2
  d1 = d1
  Urls <- TwoUrls
  Seeds = {u1}
  LinksOf <- Linking
  CanonicalOf <- NoCanonical
  Near <- NearThemselves
  Domains = {d1}
  DomainOf <- OneDomain
  CrawlRuns = {r1}
  ParseRuns = {q1}
  MaxRuns <- SeedTwice
  MaxParses = 2
  MaxRestarts = 1
  MaxFaults = 2
  MAX_RETRIES = 2
  None = None
INVARIANTS
  Accounted
  CrawlIsComplete
  PublishedOnce
PROPERTIES
  Settles
CHECK_DEADLOCK FALSE
