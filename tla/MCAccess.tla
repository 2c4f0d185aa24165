------------------------------- MODULE MCAccess -------------------------------
(***************************************************************************)
(* Memberships and API keys, side by side: a behaviour is one of either,   *)
(* the other part stays as it began; the keys are looked at under a server *)
(* that nobody has signed in to.                                           *)
(***************************************************************************)
EXTENDS Membership, ApiKeys, TLC

CONSTANTS u1, u2, u3, t1, t2

In(role) == <<[team |-> t1, role |-> role]>>

\* A new server, and a team of two owners or of an owner and an admin.
SmallTeams ==
  { [u \in Users |-> << >>],
    [u \in Users |-> CASE u = u1 -> In("owner") [] u = u2 -> In("owner") [] OTHER -> << >>],
    [u \in Users |-> CASE u = u1 -> In("owner") [] u = u2 -> In("admin") [] OTHER -> << >>] }

NobodyCame == team = {} /\ \A r \in Requests : request[r] = Fresh
NoKeyUsed == \A r \in KeyRequests : turn[r] = Unsent

AccessInit == Init /\ KeysInit

AccessNext == \/ NoKeyUsed /\ Next /\ UNCHANGED keysVars
              \/ NobodyCame /\ KeysNext /\ UNCHANGED vars

AccessSpec == AccessInit /\ [][AccessNext]_<<vars, keysVars>>

Symmetry == UNION {Permutations(Requests \union KeyRequests), Permutations(Invites \union Conns),
                   Permutations(Keys \ InitialKeys)}
=============================================================================
