\* Three requests with one key: every pair of paths, replays and one fault.
SPECIFICATION Spec
CONSTANTS
  None = None
  Counts = Counts
  k1 = k1
  p1 = p1
  p2 = p2
  Requests = {r1, r2, r3}
  Bodies <- AllBodies
  Channels = {"cli", "mcp", "github"}
  Keys = {k1}
  Items = {"root", "second"}
  Payloads = {p1, p2}
  MaxItems = 2
  MaxInFlight = 2
  Faults = {"crash", "sendFails", "itemFails", "jobFails"}
  MaxFaults = 1
SYMMETRY Symmetry
CHECK_DEADLOCK FALSE

\* A batch is replayed after its job has completed.
INVARIANT BatchReplayIsIdentical

\* Not of the run: two batches with compile=false race for one key.
\* INVARIANT BatchJobIsNullWithoutCompile
