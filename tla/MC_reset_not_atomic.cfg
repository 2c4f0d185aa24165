\* A redelivered message is claimed between the two statements of a reset.
SPECIFICATION Spec
CONSTANTS
  NoJob = NoJob
  Jobs = {j1}
  Events = {e1, e2}
  Handlers = {h1}
  Admins = {a1}
  Producers = {p1}
  Sweepers = {s1}
  RetryLimit = 1
  MaxResets = 1
  Faults = {"dbError"}
  MaxFaults = 1
SYMMETRY Symmetry
PROPERTIES
  ResetSparesRunningJobs
