\* Three users, three requests side by side, an invitation may expire; or one API
\* key, three requests and two connections, a statement fails and one times out.
\* The two parts share model values, so that one symmetry serves both.
SPECIFICATION AccessSpec
CONSTANTS
  None = None
  u1 = u1
  u2 = u2
  u3 = u3
  t1 = t1
  t2 = t2
  Users = {u1, u2, u3}
  Teams = {t1, t2}
  Invites = {c1, c2}
  Requests = {r1, r2, r3}
  InitialMembers <- SmallTeams
  MaxInFlight = 3
  MaxExpiries = 1
  Nil = Nil
  Keys = {k1, k2, k3}
  InitialKeys = {k1}
  KeyRequests = {r1, r2, r3}
  Conns = {c1, c2}
  MaxErrors = 1
  MaxTimeouts = 1
SYMMETRY Symmetry
CHECK_DEADLOCK FALSE
INVARIANTS
  InviteUsedOnce
PROPERTIES
  OnlyOwnersChangeRoles
  OwnersLostOnlyByRace
  LoneRotationIsAtomic
