SPECIFICATION Spec
CONSTANTS
  seed = seed
  page = page
  other = other
  Urls <- ThreeUrls
  Seeds = {seed}
  LinksOf <- Linking
  CanonicalOf <- CanonicalOther
  ParsedAs <- Itself
  Runs = {r1, r2}
  MaxParses = 3
  MaxCrashes = 1
  None = None
SYMMETRY Symmetric
INVARIANTS
  FoundOnce
  KnownIsQueued
  DepthIsJustified
  LinksAreFollowed
CHECK_DEADLOCK FALSE
