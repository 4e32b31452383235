SPECIFICATION FairSpec
CONSTANTS
  MaxMsgs = 2
  HashOf <- TwoTexts
  UrlOf <- OneUrl
  Wordless = {}
  Procs = {w1, w2}
  Count = 2
  MAX_RETRIES = 1
  Budgets <- Singles
INVARIANTS
  NoMsgLost
  PendingIsHeld
  CopiesBounded
  DeadWasRetried
PROPERTIES
  Settles
  StrandedStays
