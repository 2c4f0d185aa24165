\* Three rows behind pages of one, with two clicks; every corpus of three concepts;
\* three concepts behind pages of one and two; three requests of one tab.
SPECIFICATION PortalSpec
CONSTANTS
  Pages = {"events", "jobs", "audit", "knowledge", "timeline"}
  Ids = {1, 2, 3}
  MaxTime = 1
  MaxRewrites = 1
  MaxClicks = 2
  MaxFailures = 1
  WritersPause = TRUE
  Limit = 1
  NoValue = NoValue
  Found = {1, 2, 3}
  Sims <- SimsUnderTest
  Ranks = {Absent, 604, 608, 12000}
  Limits = {2, 3}
  MULTIPLIER = 1
  MAX_BATCH = 3
  MAX_NEIGHBOURS = 2
  Lengths = {1570, 1590}
  TOKEN_BUDGET = 800
  CHARS_PER_TOKEN = 4
  MaxPages = 3
  MaxEdits = 1
  Absent = Absent
  Concepts = {1, 2, 3}
  RelPath <- RelPathUnderTest
  Links = {0, 2}
  Citations = {1}
  PageLimits = {1, 2}
  NAME_FIELD = 100
  MaxCreations = 3
  MaxMerges = 1
  MaxPurged = 1
  Canonical = Canonical
  Records = {1, 2}
  MaxCalls = 3
  MaxRetries = 1
  Missing = Missing
CHECK_DEADLOCK FALSE
INVARIANTS
  WalkIsExact
  CalmPageIsOfItsFilter
  KeywordWalkIsExact
  DigestIsShown
  DownloadIsWhole
  PayloadsAreAudited
  EventIsOfItsAddress
