SPECIFICATION Spec
CONSTANTS
  Domains = {d1}
  Requests = {r1, r2, r3}
  DomainOf <- OneDomain
  CrawlDelays = {0, 2}
  MinDelay = 1
  ArgPerMs = 3
  NsPerMs = 3
  DurationRange = 32
  MaxLag = 0
  MaxTime = 4
  MaxSlot = 9
  Never = Never
SYMMETRY Symmetric
PROPERTIES
  RateLimited
