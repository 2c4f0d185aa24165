\* Any fault but the loss of a send: processing ends, and a queued job is claimed.
SPECIFICATION FairSpec
CONSTANTS
  NoJob = NoJob
  Jobs = {j1}
  Events = {e1, e2}
  Handlers = {h1}
  Admins = {a1}
  Producers = {p1}
  Sweepers = {s1}
  RetryLimit = 2
  MaxResets = 1
  Faults = {"workerCrash", "overrun", "dbError", "ackLost", "sweeperCrash"}
  MaxFaults = 2
PROPERTIES
  ProcessingEnds
  QueuedEnds
