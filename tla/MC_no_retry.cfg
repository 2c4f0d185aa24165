\* Up to three worker faults and no retry: what the sweep leaves behind.
SPECIFICATION Spec
CONSTANTS
  NoJob = NoJob
  Jobs = {j1}
  Events = {e1, e2}
  Handlers = {h1, h2}
  Admins = {a1}
  Producers = {p1}
  Sweepers = {s1}
  RetryLimit = 2
  MaxResets = 0
  Faults = {"workerCrash", "dbError"}
  MaxFaults = 3
SYMMETRY Symmetry
INVARIANTS
  TypeOK
  InterruptedIsRetryable
