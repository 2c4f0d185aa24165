\* Two owners, each removing or demoting one of them at the same time.
SPECIFICATION AccessSpec
CONSTANTS
  None = None
  u1 = u1
  u2 = u2
  u3 = u3
  t1 = t1
  t2 = t2
  Users = {u1, u2, u3}
  Teams = {t1, t2}
  Invites = {c1}
  Requests = {r1, r2}
  InitialMembers <- SmallTeams
  MaxInFlight = 2
  MaxExpiries = 0
  Nil = Nil
  Keys = {k1, k2, k3}
  InitialKeys = {k1}
  KeyRequests = {}
  Conns = {c1, c2}
  MaxErrors = 1
  MaxTimeouts = 1
SYMMETRY Symmetry
CHECK_DEADLOCK FALSE
PROPERTIES
  TeamKeepsAnOwner
