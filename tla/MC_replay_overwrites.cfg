\* Two requests with one key: the later one resets the outcomes.
SPECIFICATION Spec
CONSTANTS
  NoJob = NoJob
  Jobs = {j1}
  Events = {e1, e2}
  Handlers = {h1}
  Admins = {a1}
  Producers = {p1, p2}
  Sweepers = {s1}
  RetryLimit = 1
  MaxResets = 0
  Faults = {}
  MaxFaults = 0
SYMMETRY Symmetry
PROPERTIES
  ReplayKeepsOutcomes
