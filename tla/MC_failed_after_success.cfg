\* 'Retry failed' leaves a job `failed` whose other events compiled.
SPECIFICATION Spec
CONSTANTS
  NoJob = NoJob
  Jobs = {j1}
  Events = {e1, e2}
  Handlers = {h1}
  Admins = {a1}
  Producers = {p1}
  Sweepers = {s1}
  RetryLimit = 1
  MaxResets = 1
  Faults = {}
  MaxFaults = 0
SYMMETRY Symmetry
INVARIANTS
  FailedMeansAllFailed
