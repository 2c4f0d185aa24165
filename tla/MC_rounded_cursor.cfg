\* What a cursor says is not what the rows behind it are compared with.
SPECIFICATION PortalSpec
CONSTANTS
  Pages = {"events", "jobs", "audit", "knowledge", "timeline"}
  Ids = {1, 2, 3}
  MaxTime = 1
  MaxRewrites = 1
  MaxClicks = 2
  MaxFailures = 1
  WritersPause = TRUE
  Limit = 1
  NoValue = NoValue
  Found = {1, 2}
  Sims <- SimsThatRound
  Ranks = {Absent, 604, 12000}
  Limits = {1}
  MULTIPLIER = 2
  MAX_BATCH = 4
  MAX_NEIGHBOURS = 4
  Lengths = {1570, 1590}
  TOKEN_BUDGET = 800
  CHARS_PER_TOKEN = 4
  MaxPages = 3
  MaxEdits = 1
  Absent = Absent
  Concepts = {1, 2, 3}
  RelPath <- RelPathUnderTest
  Links = {0, 2}
  Citations = {1}
  PageLimits = {1, 2}
  NAME_FIELD = 100
  MaxCreations = 3
  MaxMerges = 1
  MaxPurged = 1
  Canonical = Canonical
  Records = {1, 2}
  MaxCalls = 3
  MaxRetries = 1
  Missing = Missing
CHECK_DEADLOCK FALSE

\* A similarity that the cursor rounds up: the next page is the same page.
INVARIANT FusedWalkIsExact

\* Two concepts that rank above 1, behind pages of one: the second is never shown.
\* INVARIANT KeywordWalkIsWhole
