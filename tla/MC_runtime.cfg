\* An all-in-one server and a worker, two requests, one signal or failing start; one restart.
SPECIFICATION Spec
CONSTANTS
    server = server
    worker = worker
    r1 = r1
    r2 = r2
    Processes = {server, worker}
    Servers = {server}
    AllInOne = TRUE
    Requests = {r1, r2}
    MaxBoots = 1
    None = None
CHECK_DEADLOCK FALSE
INVARIANTS
  PoolOutlivesWork
PROPERTIES
  CleanExitSettles
  TeardownEnds
