----------------------------- MODULE Membership -----------------------------
(***************************************************************************)
(* Who belongs to a team and as what: sign-in with the bootstrap of the    *)
(* first team, self-served teams, invitations and their acceptance, role   *)
(* changes, removals and sign-out.                                         *)
(*                                                                         *)
(* One action is one statement with the code up to the next await. Only    *)
(* acceptInvite has a transaction on a connection of its own, and its row  *)
(* lock makes it one step; the BEGIN of a self-served team goes to the     *)
(* pool (see ApiKeys), so its two rows are two steps as well.             *)
(* Every request runs its middleware: the session is verified, then the    *)
(* membership is read, and what was read then is what the handler goes by. *)
(***************************************************************************)
EXTENDS Naturals, Sequences, FiniteSets, SequencesExt

CONSTANTS
  Users,
  Teams,
  Invites,
  Requests,       \* requests in flight or answered, each used once
  InitialMembers, \* the memberships an instance may start from
  None,
  MaxInFlight,    \* bound: requests handled at once
  MaxExpiries     \* bound: invitations that expire

Roles == <<"viewer", "member", "admin", "owner">>
Rank(role) == CHOOSE k \in 1..4 : Roles[k] = role
CheckRole(role, minimum) == Rank(role) >= Rank(minimum)

Memberships == [team : Teams, role : ToSet(Roles)]
Ops == {"login", "create", "invite", "accept", "change", "remove", "logout"}

ASSUME InitialAssumption ==
  /\ InitialMembers \subseteq [Users -> Seq(Memberships)]
  /\ \A m \in InitialMembers, u \in Users :
       \A k, n \in 1..Len(m[u]) : m[u][k].team = m[u][n].team => k = n
  /\ {MaxInFlight, MaxExpiries} \subseteq Nat

\* Nothing is not a role.
ASSUME NoneAssumption == None \notin ToSet(Roles)

VARIABLES
  member,    \* per user, the memberships in the order they were joined
  team,      \* rows of teams
  signedIn,  \* users with a session that is neither revoked nor expired
  invite,    \* rows of invites: a function on some of Invites
  request,   \* what each request is doing
  claims,    \* per invite, how often acceptInvite has succeeded
  owners     \* per team, who has been its owner

vars == <<member, team, signedIn, invite, request, claims, owners>>

Fresh == [pc |-> "new", op |-> None, user |-> None, team |-> None, target |-> None,
          role |-> None, invite |-> None, overtaken |-> FALSE]
Done == [Fresh EXCEPT !.pc = "done"]

Init ==
  /\ member \in InitialMembers
  /\ team = {m.team : m \in UNION {ToSet(member[u]) : u \in Users}}
  /\ signedIn \in {{}, Users}
  /\ signedIn = {} <=> team = {}
  /\ invite = << >>
  /\ request = [r \in Requests |-> Fresh]
  /\ claims = [i \in Invites |-> 0]
  /\ owners = [t \in Teams |-> {u \in Users : [team |-> t, role |-> "owner"] \in ToSet(member[u])}]

----------------------------------------------------------------------------

TeamsOf(u) == {m.team : m \in ToSet(member[u])}
RoleIn(u, t) == IF t \in TeamsOf(u)
                THEN (CHOOSE m \in ToSet(member[u]) : m.team = t).role
                ELSE None
OwnersOf(t) == {u \in Users : RoleIn(u, t) = "owner"}

Join(u, t, role) == member' = [member EXCEPT ![u] = Append(@, [team |-> t, role |-> role])]
SetRole(u, t, role) ==
  member' = [member EXCEPT ![u] =
    [k \in DOMAIN @ |-> IF @[k].team = t THEN [@[k] EXCEPT !.role = role] ELSE @[k]]]
Leave(u, t) == member' = [member EXCEPT ![u] =
  IF t \in TeamsOf(u) THEN RemoveAt(@, CHOOSE k \in DOMAIN @ : @[k].team = t) ELSE @]
RecordOwners == owners' = [t \in Teams |->
  owners[t] \union {u \in Users : [team |-> t, role |-> "owner"] \in ToSet(member'[u])}]

Goto(r, pc) == request' = [request EXCEPT ![r].pc = pc]
End(r) == request' = [request EXCEPT ![r] = Done]
InFlight == {r \in Requests : request[r].pc \notin {"new", "done"}}

\* r ends with a write to the memberships of t; the requests that have read one
\* of them and not yet written have been overtaken.
EndWriting(r, t) == request' = [q \in Requests |->
  IF q = r THEN Done
  ELSE IF request[q].pc \in {"count", "write"} /\ request[q].team = t
       THEN [request[q] EXCEPT !.overtaken = TRUE]
       ELSE request[q]]
KeepRows == UNCHANGED <<member, team, signedIn, invite, claims, owners>>

At(r, op, pc) == request[r].pc = pc /\ request[r].op = op

----------------------------------------------------------------------------
(* Requests arrive and pass the middleware                                  *)

Send(r, body) ==
  /\ request[r].pc = "new"
  /\ Cardinality(InFlight) < MaxInFlight
  /\ request' = [request EXCEPT ![r] = body]
  /\ KeepRows

\* What the exchange of the code with GitHub yields: a user, or a failure.
Vouched == Users \union {None}

\* The callback: anyone GitHub vouches for may sign in, and is upserted.
Login(r) ==
  \E u \in Vouched :
    Send(r, IF u = None THEN Done
            ELSE [Fresh EXCEPT !.op = "login", !.user = u, !.pc = "count_teams"])

\* verifySession: the session is neither revoked nor expired.
HasSession(u) == u \in signedIn

\* requireSession, requireWebSession: 401 without a live session.
WithSession(r) ==
  \E op \in Ops \ {"login"}, u \in Users :
    HasSession(u) /\ Send(r, [Fresh EXCEPT !.op = op, !.user = u, !.pc = "session"])

\* The members routes take the team the user joined first, and an owner.
AuthorizeMembers(r) ==
  /\ request[r].pc = "session"
  /\ request[r].op \in {"change", "remove"}
  /\ LET first == member[request[r].user] IN
     IF first = << >> \/ Head(first).role # "owner"
     THEN End(r)
     ELSE \E v \in Users, role \in {"admin", "owner"} :
              request' = [request EXCEPT ![r].pc = "target",
                 ![r].team = Head(first).team, ![r].target = v,
                 ![r].role = IF request[r].op = "change" THEN role ELSE None]
  /\ KeepRows

\* Invitations name their team; admins invite, and only owners invite owners.
AuthorizeInvite(r) ==
  /\ At(r, "invite", "session")
  /\ \E t \in team, role \in {"member", "owner"} :
       LET held == RoleIn(request[r].user, t) IN
       IF held = None \/ (held # None /\ ~CheckRole(held, IF role = "owner" THEN "owner" ELSE "admin"))
       THEN End(r)
       ELSE request' = [request EXCEPT ![r].pc = "insert", ![r].team = t, ![r].role = role]
  /\ KeepRows

----------------------------------------------------------------------------
(* Sign-in and new teams: ensureTeamMembership, createSession, POST teams   *)

\* Only someone who belongs to a team already, or the very first, makes one.
CheckCreator(r) ==
  /\ At(r, "create", "session")
  /\ Goto(r, IF member[request[r].user] = << >> THEN "count_teams" ELSE "team")
  /\ KeepRows

CountTeams(r) ==
  /\ request[r].pc = "count_teams"
  /\ IF team = {}
     THEN Goto(r, "team")
     ELSE IF request[r].op = "login" THEN Goto(r, "open") ELSE End(r)
  /\ KeepRows

InsertTeam(r) ==
  /\ request[r].pc = "team"
  /\ \E t \in Teams \ team :
       /\ team' = team \union {t}
       /\ request' = [request EXCEPT ![r].pc = "owner", ![r].team = t]
  /\ UNCHANGED <<member, signedIn, invite, claims, owners>>

InsertOwner(r) ==
  /\ request[r].pc = "owner"
  /\ Join(request[r].user, request[r].team, "owner")
  /\ RecordOwners
  /\ IF request[r].op = "login" THEN Goto(r, "open") ELSE End(r)
  /\ UNCHANGED <<team, signedIn, invite, claims>>

CreateSession(r) ==
  /\ At(r, "login", "open")
  /\ signedIn' = signedIn \union {request[r].user}
  /\ End(r)
  /\ UNCHANGED <<member, team, invite, claims, owners>>

\* The server dies between the two rows of a team.
Crash(r) ==
  /\ request[r].pc = "owner"
  /\ End(r)
  /\ KeepRows

\* Sign-out revokes the session; a failure of that is answered as a success.
RevokeSession(r) ==
  /\ At(r, "logout", "session")
  /\ signedIn' \in {signedIn \ {request[r].user}, signedIn}
  /\ End(r)
  /\ UNCHANGED <<member, team, invite, claims, owners>>

----------------------------------------------------------------------------
(* Invitations                                                              *)

CreateInvite(r) ==
  /\ At(r, "invite", "insert")
  /\ \E i \in Invites \ DOMAIN invite :
       invite' = [j \in DOMAIN invite \union {i} |->
         IF j = i THEN [team |-> request[r].team, role |-> request[r].role,
                        by |-> request[r].user, state |-> "valid"]
                  ELSE invite[j]]
  /\ End(r)
  /\ UNCHANGED <<member, team, signedIn, claims, owners>>

Expire(i) ==
  /\ i \in DOMAIN invite
  /\ invite[i].state = "valid"
  /\ Cardinality({j \in DOMAIN invite : invite[j].state = "expired"}) < MaxExpiries
  /\ invite' = [invite EXCEPT ![i].state = "expired"]
  /\ UNCHANGED <<member, team, signedIn, request, claims, owners>>

\* lookupInviteByToken: used comes before expired.
StatusOf(i) == IF i \in DOMAIN invite THEN invite[i].state ELSE "not_found"

\* A look without a lock, for the error to answer with.
LookupInvite(r) ==
  /\ At(r, "accept", "session")
  /\ \E i \in Invites :
       IF StatusOf(i) = "valid"
       THEN request' = [request EXCEPT ![r].pc = "claim", ![r].invite = i]
       ELSE End(r)
  /\ KeepRows

\* Mutant: the row is not looked at again under the lock.
AcceptInvite_NoRecheck(r) ==
  LET i == request[r].invite
      u == request[r].user
  IN
  /\ At(r, "accept", "claim")
  /\ invite' = [invite EXCEPT ![i].state = "used"]
  /\ claims' = [claims EXCEPT ![i] = @ + 1]
  /\ IF invite[i].team \in TeamsOf(u)
     THEN UNCHANGED member
     ELSE Join(u, invite[i].team, invite[i].role)
  /\ RecordOwners
  /\ EndWriting(r, invite[i].team)
  /\ UNCHANGED <<team, signedIn>>

\* Mutant: an existing membership takes the role of the invitation.
AcceptInvite_Upserts(r) ==
  LET i == request[r].invite
      u == request[r].user
  IN
  /\ At(r, "accept", "claim")
  /\ invite[i].state = "valid"
  /\ invite' = [invite EXCEPT ![i].state = "used"]
  /\ claims' = [claims EXCEPT ![i] = @ + 1]
  /\ IF invite[i].team \in TeamsOf(u)
     THEN SetRole(u, invite[i].team, invite[i].role)
     ELSE Join(u, invite[i].team, invite[i].role)
  /\ RecordOwners
  /\ EndWriting(r, invite[i].team)
  /\ UNCHANGED <<team, signedIn>>

\* SELECT ... FOR UPDATE, the membership unless there is one, used_at; a member
\* keeps the role there is, and the invitation is used up all the same.
AcceptInvite(r) ==
  LET i == request[r].invite
      u == request[r].user
  IN
  /\ At(r, "accept", "claim")
  /\ IF invite[i].state # "valid"
     THEN End(r) /\ UNCHANGED <<member, invite, claims, owners>>
     ELSE /\ invite' = [invite EXCEPT ![i].state = "used"]
          /\ claims' = [claims EXCEPT ![i] = @ + 1]
          /\ IF invite[i].team \in TeamsOf(u)
             THEN UNCHANGED member
             ELSE Join(u, invite[i].team, invite[i].role)
          /\ RecordOwners
          /\ EndWriting(r, invite[i].team)
  /\ UNCHANGED <<team, signedIn>>

----------------------------------------------------------------------------
(* PATCH and DELETE /v1/members/:userId                                     *)

\* The membership that will change is read; a change to the role it has ends here.
ReadTarget(r) ==
  /\ request[r].pc = "target"
  /\ LET role == RoleIn(request[r].target, request[r].team) IN
     IF role = None \/ (request[r].op = "change" /\ role = request[r].role)
     THEN End(r)
     ELSE Goto(r, IF role = "owner" THEN "count" ELSE "write")
  /\ KeepRows

\* Mutant: the count is compared with zero.
CountOwners_OffByOne(r) ==
  /\ request[r].pc = "count"
  /\ IF Cardinality(OwnersOf(request[r].team)) <= 0 THEN End(r) ELSE Goto(r, "write")
  /\ KeepRows

\* Last-owner protection: another owner must exist.
CountOwners(r) ==
  /\ request[r].pc = "count"
  /\ IF Cardinality(OwnersOf(request[r].team)) <= 1 THEN End(r) ELSE Goto(r, "write")
  /\ KeepRows

ChangeRole(r) ==
  /\ At(r, "change", "write")
  /\ SetRole(request[r].target, request[r].team, request[r].role)
  /\ RecordOwners
  /\ EndWriting(r, request[r].team)
  /\ UNCHANGED <<team, signedIn, invite, claims>>

RemoveMember(r) ==
  /\ At(r, "remove", "write")
  /\ Leave(request[r].target, request[r].team)
  /\ EndWriting(r, request[r].team)
  /\ UNCHANGED <<team, signedIn, invite, claims, owners>>

----------------------------------------------------------------------------

Handle(r) ==
  \/ Login(r) \/ WithSession(r)
  \/ AuthorizeMembers(r) \/ AuthorizeInvite(r)
  \/ CheckCreator(r) \/ CountTeams(r) \/ InsertTeam(r) \/ InsertOwner(r) \/ Crash(r)
  \/ CreateSession(r) \/ RevokeSession(r)
  \/ CreateInvite(r) \/ LookupInvite(r) \/ AcceptInvite(r)
  \/ ReadTarget(r) \/ CountOwners(r) \/ ChangeRole(r) \/ RemoveMember(r)

Next == (\E r \in Requests : Handle(r)) \/ (\E i \in Invites : Expire(i))
Spec == Init /\ [][Next]_vars

----------------------------------------------------------------------------
(* Properties                                                               *)

\* Rows keep their types and keys: one membership per user and team, and no
\* membership or invitation of a team that is not there.
TypeOK ==
  /\ \A u \in Users : \A k \in DOMAIN member[u] : member[u][k] \in Memberships
  /\ \A u \in Users : Cardinality(TeamsOf(u)) = Len(member[u])
  /\ UNION {TeamsOf(u) : u \in Users} \subseteq team
  /\ team \subseteq Teams
  /\ signedIn \subseteq Users
  /\ \A i \in DOMAIN invite :
       invite[i] \in [team : team, role : ToSet(Roles), by : Users,
                      state : {"valid", "used", "expired"}]
  /\ \A t \in Teams : OwnersOf(t) \subseteq owners[t]

\* An invitation lets one user in once, however many follow its link at the same
\* time, and none after it has expired (the FOR UPDATE of acceptInvite).
InviteUsedOnce ==
  \A i \in Invites :
    claims[i] <= (IF i \in DOMAIN invite /\ invite[i].state = "used" THEN 1 ELSE 0)

\* The role of a member is changed only by a request of someone who has been an
\* owner: accepting an invitation never raises or lowers who is a member by then.
OnlyOwnersChangeRoles ==
  [][\A u \in Users, t \in Teams :
       (RoleIn(u, t) # None /\ RoleIn(u, t)' # None /\ RoleIn(u, t)' # RoleIn(u, t)) =>
         \E r \in Requests :
           /\ At(r, "change", "write") /\ request'[r].pc = "done"
           /\ request[r].user \in owners[t]]_vars

\* Nobody becomes an owner except as the maker of the team or by the act of
\* someone who has been an owner of that team, whatever requests run side by side.
OwnersMakeOwners ==
  [][\A t \in Teams : \A u \in owners'[t] \ owners[t] :
       \E r \in Requests :
         /\ request[r].pc # request'[r].pc
         /\ \/ request[r].pc = "owner" /\ request[r].user = u /\ owners[t] = {}
            \/ request[r].op = "change" /\ request[r].user \in owners[t]
            \/ request[r].op = "accept" /\ invite[request[r].invite].by \in owners[t]]_vars

\* A team loses its last owner only to a request that another write to its
\* memberships has overtaken: one change or removal on its own never does it.
OwnersLostOnlyByRace ==
  [][\A t \in Teams :
       (OwnersOf(t) # {} /\ OwnersOf(t)' = {}) =>
         \E r \in Requests :
           /\ request[r].pc = "write" /\ request'[r].pc = "done"
           /\ request[r].team = t /\ request[r].overtaken]_vars

\* What the routes' comments promise, "Last-owner protection enforced": a team
\* that has an owner keeps one.
TeamKeepsAnOwner ==
  [][\A t \in Teams : OwnersOf(t) # {} => OwnersOf(t)' # {}]_vars
=============================================================================
