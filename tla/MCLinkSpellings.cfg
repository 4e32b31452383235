SPECIFICATION Spec
CONSTANTS
  Words <- SomeWords
  BannedWords = {"networkx"}
  LocaleWords = {"en-us"}
  DottedWords = {"v1.2"}
  Params = {"tab", "q", "utm_source"}
  Tracking = {"utm_source"}
  Fragments = {"top", "L10"}
  LineNumbers = {"L10"}
  PlainHosts = {"docs.dev", "10.0.0.1"}
  NumberHosts = {"10.0.0.1"}
  Pages <- SomePages
  MaxRespelled = 4
INVARIANTS
  SpellingsMeet
  PagesApart
  KeyIsStable
CHECK_DEADLOCK FALSE
