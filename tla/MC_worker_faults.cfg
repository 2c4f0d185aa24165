\* Workers and sweeps fail, twice; two admins retry the job.
SPECIFICATION Spec
CONSTANTS
  NoJob = NoJob
  Jobs = {j1}
  Events = {e1, e2}
  Handlers = {h1, h2}
  Admins = {a1, a2}
  Producers = {p1}
  Sweepers = {s1}
  RetryLimit = 2
  MaxResets = 1
  Faults = {"workerCrash", "dbError", "sweeperCrash"}
  MaxFaults = 2
SYMMETRY Symmetry
INVARIANTS
  TypeOK
  SingleOwner
  QueuedIsAnnounced
PROPERTIES
  CompiledStays
