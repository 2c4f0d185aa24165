\* Two requests and two connections: a statement runs between two of a rotation.
SPECIFICATION AccessSpec
CONSTANTS
  None = None
  u1 = u1
  u2 = u2
  u3 = u3
  t1 = t1
  t2 = t2
  Users = {u1, u2, u3}
  Teams = {t1, t2}
  Invites = {c1, c2}
  Requests = {}
  InitialMembers <- SmallTeams
  MaxInFlight = 0
  MaxExpiries = 0
  Nil = Nil
  Keys = {k1, k2, k3}
  InitialKeys = {k1}
  KeyRequests = {r1, r2}
  Conns = {c1, c2}
  MaxErrors = 0
  MaxTimeouts = 0
SYMMETRY Symmetry
CHECK_DEADLOCK FALSE
INVARIANTS
  RotatesSimultaneously
