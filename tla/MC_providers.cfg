\* Two deliveries about one number and one thread, which arrive twice in all; two
\* calls to the API over four ticks; one answer of a model of up to three
\* items; two admins with five clicks between them on the provider settings.
SPECIFICATION ProvidersSpec
CONSTANTS
  Numbers = {7}
  Threads = {t1}
  Shas = {s1}
  Deliveries = {1, 2}
  MaxArrivals = 2
  Nil = Nil
  Calls = {c1, c2}
  Pulls = {1, 2}
  Repos <- ReposUnderTest
  PageSize = 2
  MAX_PAGES = 2
  Life = 3
  Margin = 1
  Latency = 1
  MaxNow = 3
  MaxEdits = 1
  Nothing = Nothing
  MaxSaid = 3
  MaxLost = 4
  ADMINS = {a1, a2}
  None = None
  MaxClicks = 5
CHECK_DEADLOCK FALSE
INVARIANTS
  EvidenceMatchesObject
  ProviderOrder
  TokensAreLive
  ListingIsComplete
  OutputIsWritten
  LegibleIsRead
  AcknowledgedKeyIsUsed
