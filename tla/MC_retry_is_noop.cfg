\* The redelivery of a failed job is dropped.
SPECIFICATION FairSpec
CONSTANTS
  NoJob = NoJob
  Jobs = {j1}
  Events = {e1, e2}
  Handlers = {h1}
  Admins = {a1}
  Producers = {p1}
  Sweepers = {s1}
  RetryLimit = 1
  MaxResets = 0
  Faults = {"dbError"}
  MaxFaults = 1
PROPERTIES
  FailureIsRetried
