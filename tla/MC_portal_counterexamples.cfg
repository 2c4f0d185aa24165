\* What readers of the code may expect and TLC refutes; one at a time, since the
\* first one found hides the others.
SPECIFICATION PortalSpec
CONSTANTS
  Pages = {"events", "jobs", "audit", "knowledge", "timeline"}
  Ids = {1, 2, 3}
  MaxTime = 1
  MaxRewrites = 1
  MaxClicks = 2
  MaxFailures = 1
  WritersPause = TRUE
  Limit = 1
  NoValue = NoValue
  Found = {1, 2, 3}
  Sims <- SimsUnderTest
  Ranks = {Absent, 604, 608}
  Limits = {2, 3}
  MULTIPLIER = 1
  MAX_BATCH = 3
  MAX_NEIGHBOURS = 2
  Lengths = {1570, 1590}
  TOKEN_BUDGET = 800
  CHARS_PER_TOKEN = 4
  MaxPages = 3
  MaxEdits = 1
  Absent = Absent
  Concepts = {1, 2, 3}
  RelPath <- RelPathUnderTest
  Links = {0, 2}
  Citations = {1}
  PageLimits = {1, 2}
  NAME_FIELD = 100
  MaxCreations = 3
  MaxMerges = 1
  MaxPurged = 1
  Canonical = Canonical
  Records = {1, 2}
  MaxCalls = 3
  MaxRetries = 1
  Missing = Missing
CHECK_DEADLOCK FALSE

\* A link or another project is followed while the concept is on its way.
INVARIANT ConceptIsOfItsAddress

\* The filter is changed while a page of a list is on its way.
\* INVARIANT PageIsOfItsFilter

\* The first page of the audit log fails to load.
\* INVARIANT ErrorsCanBeRetried

\* A filter by type, and a neighbour of another type.
\* INVARIANT FiltersApply

\* A page so large that the neighbours cannot be asked for.
\* INVARIANT DegradationIsExplicit

\* A purge between two pages of a download.
\* INVARIANT CursorStaysValid

\* The project is changed while its download runs.
\* INVARIANT FeedbackIsOfProject
