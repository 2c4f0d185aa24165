\* Every kind of fault, one of them per behaviour, one retry, two submitters.
SPECIFICATION Spec
CONSTANTS
  NoJob = NoJob
  Jobs = {j1}
  Events = {e1, e2}
  Handlers = {h1, h2}
  Admins = {a1}
  Producers = {p1, p2}
  Sweepers = {s1}
  RetryLimit = 1
  MaxResets = 1
  Faults = {"workerCrash", "overrun", "dbError", "ackLost", "sweeperCrash", "senderCrash"}
  MaxFaults = 1
SYMMETRY Symmetry
INVARIANTS
  ClaimsWithinRetries
  PagesAccounted
PROPERTIES
  KeepsLedger
