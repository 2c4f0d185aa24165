\* No fault: three handlers, two admins and two retries interleave freely.
SPECIFICATION Spec
CONSTANTS
  NoJob = NoJob
  Jobs = {j1}
  Events = {e1, e2}
  Handlers = {h1, h2, h3}
  Admins = {a1, a2}
  Producers = {p1}
  Sweepers = {s1}
  RetryLimit = 1
  MaxResets = 2
  Faults = {}
  MaxFaults = 0
SYMMETRY Symmetry
PROPERTIES
  WritesOnlyPending
