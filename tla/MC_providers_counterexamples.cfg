\* What readers of the code may expect and TLC refutes; one at a time, since the
\* first one found hides the others.
SPECIFICATION ProvidersSpec
CONSTANTS
  Numbers = {7}
  Threads = {t1}
  Shas = {s1, s2}
  Deliveries = {1, 2}
  MaxArrivals = 3
  Nil = Nil
  Calls = {c1, c2}
  Pulls = {1, 2}
  Repos <- ReposUnderTest
  PageSize = 2
  MAX_PAGES = 2
  Life = 3
  Margin = 1
  Latency = 1
  MaxNow = 3
  MaxEdits = 1
  Nothing = Nothing
  MaxSaid = 3
  MaxLost = 4
  ADMINS = {a1, a2}
  None = None
  MaxClicks = 5
CHECK_DEADLOCK FALSE

\* The list of models comes back after another provider was chosen.
INVARIANT ModelIsOfProvider

\* Two references in one phrase: the second is not linked.
\* INVARIANT ReferencesAreLinked

\* A pull request gets a commit between the reference and its resolution.
\* INVARIANT OpenHeadIsTip

\* A backslash before the end of a line in a string of the model.
\* INVARIANT BackslashesAreRepaired

\* A remark in braces or in brackets, or an example, before a whole answer.
\* INVARIANT PayloadIsRecovered
