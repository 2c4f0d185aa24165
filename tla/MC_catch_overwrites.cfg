\* The catch block fails a job that is completed.
SPECIFICATION Spec
CONSTANTS
  NoJob = NoJob
  Jobs = {j1}
  Events = {e1, e2}
  Handlers = {h1}
  Admins = {a1}
  Producers = {p1}
  Sweepers = {s1}
  RetryLimit = 1
  MaxResets = 0
  Faults = {"ackLost"}
  MaxFaults = 1
SYMMETRY Symmetry
PROPERTIES
  CatchOnlyFailsProcessing
