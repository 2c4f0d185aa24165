\* The sweep fails a job whose handler is alive.
SPECIFICATION Spec
CONSTANTS
  NoJob = NoJob
  Jobs = {j1}
  Events = {e1, e2}
  Handlers = {h1}
  Admins = {a1}
  Producers = {p1}
  Sweepers = {s1}
  RetryLimit = 1
  MaxResets = 0
  Faults = {"overrun"}
  MaxFaults = 1
SYMMETRY Symmetry
PROPERTIES
  SweepSparesLiveJobs
