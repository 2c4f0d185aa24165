\* Two workers, an owner who purges and a reader; one crash.
SPECIFICATION Spec
CONSTANTS
  None = None
  e1 = e1
  e2 = e2
  f1 = f1
  f2 = f2
  alice = alice
  w1 = w1
  w2 = w2
  Workers = {w1, w2}
  Events = {e1, e2}
  Paths = {"decisions/a", "decisions/b"}
  Facts = {f1, f2}
  Principals = {alice}
  Cites <- SharedCites
  Author <- OneAuthor
  MaxRuns = 3
  MaxPurges = 1
  MaxCrashes = 1
SYMMETRY Symmetry
INVARIANTS
  EvidenceUnique
  BodyIsSupported
  CompiledHasPage
  AnswerIsSupported
  AuditedPurgesHappened
