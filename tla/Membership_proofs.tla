-------------------------- MODULE Membership_proofs --------------------------
(***************************************************************************)
(* For any users, teams, invitations and requests: an invitation lets one  *)
(* user in, only owners change roles or make owners, a team loses its last *)
(* owner only to a race, and rows keep their keys.                         *)
(*                                                                         *)
(* OneUse makes the first inductive: only LookupInvite sends a request to  *)
(* claim, and only with a row there is.  RolesInv does it for the others:  *)
(* what the middleware established for a request still holds when it       *)
(* writes (Granted, because who has been an owner is remembered), one that *)
(* nobody has overtaken leaves another owner behind (Spares), and a team   *)
(* just inserted is nobody's but its maker's (TeamsFounded).               *)
(*                                                                         *)
(* And for any keys, requests and connections: a rotation that is alone is *)
(* atomic.  KeysInv follows it: the connection that its last statement ran *)
(* on is the one that became idle last (Alone), no other request can touch *)
(* it, and what it has written is held back there (Progress); a new key is *)
(* nowhere before it is minted, and no row is held on two connections      *)
(* (Rows).                                                                 *)
(***************************************************************************)
EXTENDS Membership, ApiKeys, FiniteSetTheorems, SequenceTheorems, TLAPS

RowsOK ==
  /\ claims \in [Invites -> Nat]
  /\ DOMAIN invite \subseteq Invites
  /\ \A i \in DOMAIN invite : "state" \in DOMAIN invite[i]

\* A request that will claim an invitation has seen its row.
ClaimsSeenRow(rows, q) ==
  /\ {"pc", "op", "invite"} \subseteq DOMAIN q
  /\ q.pc = "claim" => q.invite \in rows

RequestsOK ==
  /\ DOMAIN request = Requests
  /\ \A r \in Requests : ClaimsSeenRow(DOMAIN invite, request[r])

OneUse == RowsOK /\ RequestsOK /\ InviteUsedOnce

----------------------------------------------------------------------------

\* Rows are added and never taken away, so a row seen stays seen.
LEMMA SeenStays ==
  ASSUME NEW rows, NEW more, rows \subseteq more, NEW q, ClaimsSeenRow(rows, q)
  PROVE  ClaimsSeenRow(more, q)
BY DEF ClaimsSeenRow

\* A request that moves on, anywhere but to a claim, needs no row.
LEMMA Moves ==
  ASSUME NEW rows, NEW q, ClaimsSeenRow(rows, q), NEW pc, pc # "claim"
  PROVE  ClaimsSeenRow(rows, [q EXCEPT !.pc = pc])
BY DEF ClaimsSeenRow

\* Nor does one that has been answered.
LEMMA DoneSeen ==
  ASSUME NEW rows
  PROVE  ClaimsSeenRow(rows, Done)
BY DEF ClaimsSeenRow, Done, Fresh

\* A step of one request that leaves the rows of the invitations alone.
LEMMA OneMoves ==
  ASSUME RequestsOK, NEW r \in Requests, NEW q,
         request' = [request EXCEPT ![r] = q],
         ClaimsSeenRow(DOMAIN invite, q), UNCHANGED invite
  PROVE  RequestsOK'
BY DEF RequestsOK

\* The actions that touch neither the invitations nor their count.
LEMMA OthersKeep ==
  ASSUME OneUse, UNCHANGED <<invite, claims>>, RequestsOK'
  PROVE  OneUse'
BY DEF OneUse, RowsOK, InviteUsedOnce

\* Goto and End, the ways most actions end.
LEMMA GotoKeeps ==
  ASSUME RequestsOK, NEW r \in Requests, NEW pc, pc # "claim",
         Goto(r, pc), UNCHANGED invite
  PROVE  RequestsOK'
<1>1. ClaimsSeenRow(DOMAIN invite, [request[r] EXCEPT !.pc = pc])
  BY Moves DEF RequestsOK
<1>2. request' = [request EXCEPT ![r] = [request[r] EXCEPT !.pc = pc]]
  BY DEF Goto
<1> QED BY <1>1, <1>2, OneMoves

LEMMA EndKeeps ==
  ASSUME RequestsOK, NEW r \in Requests, End(r), UNCHANGED invite
  PROVE  RequestsOK'
BY OneMoves, DoneSeen DEF End

\* A request that arrives has not looked at an invitation.
LEMMA SendKeeps ==
  ASSUME OneUse, NEW r \in Requests, NEW q, Send(r, q), ClaimsSeenRow(DOMAIN invite, q)
  PROVE  OneUse'
<1>1. UNCHANGED <<invite, claims>> /\ request' = [request EXCEPT ![r] = q]
  BY DEF Send, KeepRows
<1> QED BY <1>1, OneMoves, OthersKeep DEF OneUse

\* The writes to the memberships mark requests as overtaken and nothing else.
LEMMA EndWritingKeeps ==
  ASSUME RequestsOK, NEW r \in Requests, NEW t, EndWriting(r, t),
         DOMAIN invite' = DOMAIN invite
  PROVE  RequestsOK'
<1>1. ASSUME NEW q \in Requests
      PROVE  ClaimsSeenRow(DOMAIN invite, [request[q] EXCEPT !.overtaken = TRUE])
  BY DEF RequestsOK, ClaimsSeenRow
<1>2. ASSUME NEW q \in Requests
      PROVE  ClaimsSeenRow(DOMAIN invite, request'[q])
  BY <1>1, DoneSeen DEF EndWriting, RequestsOK
<1>3. DOMAIN request' = Requests
  BY DEF EndWriting
<1> QED BY <1>2, <1>3 DEF RequestsOK

----------------------------------------------------------------------------

\* The middleware and the routes of members and teams.
LEMMA RoutesKeep ==
  ASSUME OneUse, NEW r \in Requests,
         \/ Login(r) \/ WithSession(r) \/ AuthorizeMembers(r) \/ AuthorizeInvite(r)
         \/ CheckCreator(r) \/ CountTeams(r) \/ InsertTeam(r) \/ InsertOwner(r) \/ Crash(r)
         \/ CreateSession(r) \/ RevokeSession(r)
         \/ ReadTarget(r) \/ CountOwners(r) \/ ChangeRole(r) \/ RemoveMember(r)
  PROVE  OneUse'
<1> USE DEF OneUse
<1>0. RequestsOK /\ ClaimsSeenRow(DOMAIN invite, request[r])
  BY DEF RequestsOK
<1>1. CASE Login(r)
  <2>1. PICK u \in Vouched :
          Send(r, IF u = None THEN Done
                  ELSE [Fresh EXCEPT !.op = "login", !.user = u, !.pc = "count_teams"])
    BY <1>1 DEF Login
  <2>2. ClaimsSeenRow(DOMAIN invite,
          [Fresh EXCEPT !.op = "login", !.user = u, !.pc = "count_teams"])
    BY DEF ClaimsSeenRow, Fresh
  <2>3. CASE u = None
    BY <2>1, <2>3, SendKeeps, DoneSeen
  <2>4. CASE u # None
    BY <2>1, <2>2, <2>4, SendKeeps
  <2> QED BY <2>3, <2>4
<1>2. CASE WithSession(r)
  <2>1. PICK op \in Ops \ {"login"}, u \in Users :
          Send(r, [Fresh EXCEPT !.op = op, !.user = u, !.pc = "session"])
    BY <1>2 DEF WithSession
  <2>2. ClaimsSeenRow(DOMAIN invite, [Fresh EXCEPT !.op = op, !.user = u, !.pc = "session"])
    BY DEF ClaimsSeenRow, Fresh
  <2> QED BY <2>1, <2>2, SendKeeps
<1>3. CASE AuthorizeMembers(r)
  <2>1. UNCHANGED <<invite, claims>>
    BY <1>3 DEF AuthorizeMembers, KeepRows
  <2>2. CASE End(r)
    BY <2>1, <2>2, EndKeeps, OthersKeep
  <2>3. CASE ~ End(r)
    <3> DEFINE t == Head(member[request[r].user]).team
    <3>1. PICK v \in Users, role \in {"admin", "owner"} :
            request' = [request EXCEPT ![r].pc = "target",
              ![r].team = t, ![r].target = v,
              ![r].role = IF request[r].op = "change" THEN role ELSE None]
      BY <1>3, <2>3 DEF AuthorizeMembers
    <3> DEFINE to == IF request[r].op = "change" THEN role ELSE None
    <3> HIDE DEF t
    <3>2. request' = [request EXCEPT ![r] =
            [[[[request[r] EXCEPT !.pc = "target"] EXCEPT !.team = t]
               EXCEPT !.target = v] EXCEPT !.role = to]]
      BY <3>1 DEF RequestsOK
    <3>3. ClaimsSeenRow(DOMAIN invite,
            [[[[request[r] EXCEPT !.pc = "target"] EXCEPT !.team = t]
               EXCEPT !.target = v] EXCEPT !.role = to])
      <4> HIDE DEF to
      <4> QED BY <1>0 DEF ClaimsSeenRow
    <3> QED BY <2>1, <3>2, <3>3, OneMoves, OthersKeep
  <2> QED BY <2>2, <2>3
<1>4. CASE AuthorizeInvite(r)
  <2>1. UNCHANGED <<invite, claims>>
    BY <1>4 DEF AuthorizeInvite, KeepRows
  <2>2. CASE End(r)
    BY <2>1, <2>2, EndKeeps, OthersKeep
  <2>3. CASE ~ End(r)
    <3>1. PICK t, role :
            request' = [request EXCEPT ![r].pc = "insert", ![r].team = t, ![r].role = role]
      BY <1>4, <2>3 DEF AuthorizeInvite
    <3>2. request' = [request EXCEPT ![r] =
            [[[request[r] EXCEPT !.pc = "insert"] EXCEPT !.team = t] EXCEPT !.role = role]]
      BY <3>1 DEF RequestsOK
    <3>3. ClaimsSeenRow(DOMAIN invite,
            [[[request[r] EXCEPT !.pc = "insert"] EXCEPT !.team = t] EXCEPT !.role = role])
      BY <1>0 DEF ClaimsSeenRow
    <3> QED BY <2>1, <3>2, <3>3, OneMoves, OthersKeep
  <2> QED BY <2>2, <2>3
<1>5. CASE CheckCreator(r)
  BY <1>5, GotoKeeps, OthersKeep DEF CheckCreator, KeepRows
<1>6. CASE CountTeams(r)
  <2>1. UNCHANGED <<invite, claims>>
    BY <1>6 DEF CountTeams, KeepRows
  <2>2. Goto(r, "team") \/ Goto(r, "open") \/ End(r)
    BY <1>6 DEF CountTeams
  <2> QED BY <2>1, <2>2, GotoKeeps, EndKeeps, OthersKeep
<1>7. CASE InsertTeam(r)
  <2>1. PICK t \in Teams : request' = [request EXCEPT ![r].pc = "owner", ![r].team = t]
    BY <1>7 DEF InsertTeam
  <2>2. request' = [request EXCEPT ![r] =
          [[request[r] EXCEPT !.pc = "owner"] EXCEPT !.team = t]]
    BY <2>1 DEF RequestsOK
  <2>3. ClaimsSeenRow(DOMAIN invite, [[request[r] EXCEPT !.pc = "owner"] EXCEPT !.team = t])
    BY <1>0 DEF ClaimsSeenRow
  <2>4. UNCHANGED <<invite, claims>>
    BY <1>7 DEF InsertTeam
  <2> QED BY <2>2, <2>3, <2>4, OneMoves, OthersKeep
<1>8. CASE InsertOwner(r)
  <2>1. UNCHANGED <<invite, claims>>
    BY <1>8 DEF InsertOwner
  <2>2. Goto(r, "open") \/ End(r)
    BY <1>8 DEF InsertOwner
  <2> QED BY <2>1, <2>2, GotoKeeps, EndKeeps, OthersKeep
<1>9. CASE Crash(r)
  BY <1>9, EndKeeps, OthersKeep DEF Crash, KeepRows
<1>10. CASE CreateSession(r)
  BY <1>10, EndKeeps, OthersKeep DEF CreateSession
<1>11. CASE RevokeSession(r)
  BY <1>11, EndKeeps, OthersKeep DEF RevokeSession
<1>12. CASE ReadTarget(r)
  <2>1. UNCHANGED <<invite, claims>>
    BY <1>12 DEF ReadTarget, KeepRows
  <2>2. Goto(r, "count") \/ Goto(r, "write") \/ End(r)
    BY <1>12 DEF ReadTarget
  <2> QED BY <2>1, <2>2, GotoKeeps, EndKeeps, OthersKeep
<1>13. CASE CountOwners(r)
  <2>1. UNCHANGED <<invite, claims>>
    BY <1>13 DEF CountOwners, KeepRows
  <2>2. Goto(r, "write") \/ End(r)
    BY <1>13 DEF CountOwners
  <2> QED BY <2>1, <2>2, GotoKeeps, EndKeeps, OthersKeep
<1>14. CASE ChangeRole(r)
  BY <1>14, EndWritingKeeps, OthersKeep DEF ChangeRole
<1>15. CASE RemoveMember(r)
  BY <1>15, EndWritingKeeps, OthersKeep DEF RemoveMember
<1> QED BY <1>1, <1>2, <1>3, <1>4, <1>5, <1>6, <1>7, <1>8, <1>9, <1>10, <1>11, <1>12,
           <1>13, <1>14, <1>15

\* A new invitation has never been used.
LEMMA CreateKeeps ==
  ASSUME OneUse, NEW r \in Requests, CreateInvite(r)
  PROVE  OneUse'
<1> USE DEF OneUse
<1>1. PICK i \in Invites \ DOMAIN invite :
        invite' = [j \in DOMAIN invite \union {i} |->
          IF j = i THEN [team |-> request[r].team, role |-> request[r].role,
                         by |-> request[r].user, state |-> "valid"]
                   ELSE invite[j]]
  BY DEF CreateInvite
<1>2. End(r) /\ UNCHANGED claims
  BY DEF CreateInvite
<1>3. RowsOK'
  BY <1>1, <1>2 DEF RowsOK
<1>4. RequestsOK'
  <2>1. ASSUME NEW q \in Requests
        PROVE  ClaimsSeenRow(DOMAIN invite', request'[q])
    <3>1. ClaimsSeenRow(DOMAIN invite, request'[q])
      BY <1>2, DoneSeen DEF End, RequestsOK
    <3>2. DOMAIN invite \subseteq DOMAIN invite'
      BY <1>1
    <3> QED BY <3>1, <3>2, SeenStays
  <2>2. DOMAIN request' = Requests
    BY <1>2 DEF End, RequestsOK
  <2> QED BY <2>1, <2>2 DEF RequestsOK
<1>5. InviteUsedOnce'
  <2> SUFFICES ASSUME NEW j \in Invites
               PROVE  claims[j] <= (IF j \in DOMAIN invite' /\ invite'[j].state = "used"
                                    THEN 1 ELSE 0)
    BY <1>2 DEF InviteUsedOnce
  <2>1. claims[j] <= (IF j \in DOMAIN invite /\ invite[j].state = "used" THEN 1 ELSE 0)
    BY DEF InviteUsedOnce
  <2>2. CASE j = i
    BY <1>1, <2>1, <2>2
  <2>3. CASE j # i
    BY <1>1, <2>1, <2>3
  <2> QED BY <2>2, <2>3
<1> QED BY <1>3, <1>4, <1>5

\* The look before the claim: what it sends on has a row.
LEMMA LookupKeeps ==
  ASSUME OneUse, NEW r \in Requests, LookupInvite(r)
  PROVE  OneUse'
<1> USE DEF OneUse
<1>1. UNCHANGED <<invite, claims>>
  BY DEF LookupInvite, KeepRows
<1>2. CASE End(r)
  BY <1>1, <1>2, EndKeeps, OthersKeep
<1>3. CASE ~ End(r)
  <2>1. PICK i \in Invites :
          /\ StatusOf(i) = "valid"
          /\ request' = [request EXCEPT ![r].pc = "claim", ![r].invite = i]
    BY <1>3 DEF LookupInvite
  <2>2. i \in DOMAIN invite
    BY <2>1 DEF StatusOf
  <2>3. request' = [request EXCEPT ![r] =
          [[request[r] EXCEPT !.pc = "claim"] EXCEPT !.invite = i]]
    BY <2>1 DEF RequestsOK
  <2>4. ClaimsSeenRow(DOMAIN invite, [[request[r] EXCEPT !.pc = "claim"] EXCEPT !.invite = i])
    BY <2>2 DEF RequestsOK, ClaimsSeenRow
  <2> QED BY <1>1, <2>3, <2>4, OneMoves, OthersKeep
<1> QED BY <1>2, <1>3

\* The claim: under the lock the row is still unused, or nothing happens.
LEMMA AcceptKeeps ==
  ASSUME OneUse, NEW r \in Requests, AcceptInvite(r)
  PROVE  OneUse'
<1> USE DEF OneUse
<1> DEFINE i == request[r].invite
<1>1. i \in DOMAIN invite
  BY DEF AcceptInvite, At, RequestsOK, ClaimsSeenRow
<1>2. CASE invite[i].state # "valid"
  <2>1. End(r) /\ UNCHANGED <<invite, claims>>
    BY <1>2 DEF AcceptInvite
  <2> QED BY <2>1, EndKeeps, OthersKeep
<1>3. CASE invite[i].state = "valid"
  <2>1. /\ invite' = [invite EXCEPT ![i].state = "used"]
        /\ claims' = [claims EXCEPT ![i] = @ + 1]
        /\ EndWriting(r, invite[i].team)
    BY <1>3 DEF AcceptInvite
  <2>2. /\ DOMAIN invite' = DOMAIN invite
        /\ invite'[i].state = "used"
        /\ \A j \in DOMAIN invite : "state" \in DOMAIN invite'[j]
        /\ \A j \in DOMAIN invite \ {i} : invite'[j] = invite[j]
    BY <1>1, <2>1 DEF RowsOK
  <2>3. RowsOK'
    <3>1. claims \in [Invites -> Nat] /\ i \in Invites
      BY <1>1 DEF RowsOK
    <3>2. claims' = [claims EXCEPT ![i] = claims[i] + 1]
      BY <2>1
    <3> HIDE DEF i
    <3>3. claims' \in [Invites -> Nat]
      BY <3>1, <3>2
    <3> QED BY <2>2, <3>1, <3>3 DEF RowsOK
  <2>4. RequestsOK'
    BY <2>1, <2>2, EndWritingKeeps
  <2>5. InviteUsedOnce'
    <3> SUFFICES ASSUME NEW j \in Invites
                 PROVE  claims'[j] <= (IF j \in DOMAIN invite' /\ invite'[j].state = "used"
                                       THEN 1 ELSE 0)
      BY DEF InviteUsedOnce
    <3>1. claims[j] \in Nat
            /\ claims[j] <= (IF j \in DOMAIN invite /\ invite[j].state = "used" THEN 1 ELSE 0)
      BY DEF InviteUsedOnce, RowsOK
    <3>2. CASE j = i
      <4>1. claims[j] = 0
        BY <1>3, <3>1, <3>2
      <4>2. claims'[j] = 1
        BY <2>1, <3>2, <4>1 DEF RowsOK
      <4> QED BY <1>1, <2>2, <3>2, <4>2
    <3>3. CASE j # i
      <4>1. claims'[j] = claims[j]
        BY <2>1, <3>3 DEF RowsOK
      <4> QED BY <2>2, <3>1, <3>3, <4>1
    <3> QED BY <3>2, <3>3
  <2> QED BY <2>3, <2>4, <2>5
<1> QED BY <1>2, <1>3

\* Only an invitation that nobody has used can still expire.
LEMMA ExpireKeeps ==
  ASSUME OneUse, NEW i \in Invites, Expire(i)
  PROVE  OneUse'
<1> USE DEF OneUse
<1>1. /\ i \in DOMAIN invite /\ invite[i].state = "valid"
      /\ invite' = [invite EXCEPT ![i].state = "expired"]
      /\ UNCHANGED <<request, claims>>
  BY DEF Expire
<1>2. /\ DOMAIN invite' = DOMAIN invite
      /\ \A j \in DOMAIN invite : "state" \in DOMAIN invite'[j]
      /\ \A j \in DOMAIN invite \ {i} : invite'[j] = invite[j]
  BY <1>1 DEF RowsOK
<1>3. RowsOK' /\ RequestsOK'
  BY <1>1, <1>2 DEF RowsOK, RequestsOK
<1>4. InviteUsedOnce'
  <2> SUFFICES ASSUME NEW j \in Invites
               PROVE  claims[j] <= (IF j \in DOMAIN invite' /\ invite'[j].state = "used"
                                    THEN 1 ELSE 0)
    BY <1>1 DEF InviteUsedOnce
  <2>1. claims[j] \in Nat
          /\ claims[j] <= (IF j \in DOMAIN invite /\ invite[j].state = "used" THEN 1 ELSE 0)
    BY DEF InviteUsedOnce, RowsOK
  <2>2. CASE j = i
    <3>1. claims[j] = 0
      BY <1>1, <2>1, <2>2
    <3> QED BY <3>1
  <2>3. CASE j # i
    BY <1>2, <2>1, <2>3
  <2> QED BY <2>2, <2>3
<1> QED BY <1>3, <1>4

----------------------------------------------------------------------------

\* However many requests follow the link of an invitation at once, and whatever
\* expires meanwhile, acceptInvite succeeds at most once for it.
THEOREM InvitesAreSingleUse == Spec => []InviteUsedOnce
<1>1. Init => OneUse
  <2> SUFFICES ASSUME Init PROVE OneUse
    OBVIOUS
  <2>1. invite = << >> /\ DOMAIN invite = {}
    BY DEF Init
  <2>2. claims = [i \in Invites |-> 0] /\ request = [r \in Requests |-> Fresh]
    BY DEF Init
  <2>3. ClaimsSeenRow(DOMAIN invite, Fresh)
    BY DEF ClaimsSeenRow, Fresh
  <2> QED BY <2>1, <2>2, <2>3 DEF OneUse, RowsOK, RequestsOK, InviteUsedOnce
<1>2. OneUse /\ [Next]_vars => OneUse'
  <2> SUFFICES ASSUME OneUse, [Next]_vars PROVE OneUse'
    OBVIOUS
  <2>1. ASSUME NEW r \in Requests, Handle(r) PROVE OneUse'
    BY <2>1, RoutesKeep, CreateKeeps, LookupKeeps, AcceptKeeps DEF Handle
  <2>2. ASSUME NEW i \in Invites, Expire(i) PROVE OneUse'
    BY <2>2, ExpireKeeps
  <2>3. CASE UNCHANGED vars
    BY <2>3 DEF vars, OneUse, RowsOK, RequestsOK, InviteUsedOnce
  <2> QED BY <2>1, <2>2, <2>3 DEF Next
<1>3. OneUse => InviteUsedOnce
  BY DEF OneUse
<1> QED BY <1>1, <1>2, <1>3, PTL DEF Spec

----------------------------------------------------------------------------
(* What roles a user has                                                   *)

LEMMA RoleNames == ToSet(Roles) = {"viewer", "member", "admin", "owner"} /\ None \notin ToSet(Roles)
<1>1. /\ DOMAIN Roles = 1..4
      /\ Roles[1] = "viewer" /\ Roles[2] = "member" /\ Roles[3] = "admin" /\ Roles[4] = "owner"
  BY DEF Roles
<1> QED BY <1>1, NoneAssumption DEF ToSet

\* Only an owner has the rank of one.
LEMMA OwnersRank ==
  ASSUME NEW role \in ToSet(Roles), CheckRole(role, "owner")
  PROVE  role = "owner"
<1>1. /\ Roles[1] = "viewer" /\ Roles[2] = "member" /\ Roles[3] = "admin" /\ Roles[4] = "owner"
  BY DEF Roles
<1>2. Rank("owner") = 4
  BY <1>1 DEF Rank
<1>3. Rank(role) \in 1..4 /\ Roles[Rank(role)] = role
  BY <1>1, RoleNames DEF Rank
<1> QED BY <1>1, <1>2, <1>3 DEF CheckRole

\* More owners than one are not all the same.
LEMMA ManyOwners ==
  ASSUME NEW t, NEW u, ~(Cardinality(OwnersOf(t)) <= 1)
  PROVE  ~(OwnersOf(t) \subseteq {u})
<1> SUFFICES ASSUME OwnersOf(t) \subseteq {u} PROVE FALSE
  OBVIOUS
<1>1. OwnersOf(t) = {} \/ OwnersOf(t) = {u}
  OBVIOUS
<1>2. Cardinality(OwnersOf(t)) \in {0, 1}
  BY <1>1, FS_EmptySet, FS_Singleton
<1> QED BY <1>2

----------------------------------------------------------------------------
(* A user's memberships                                                     *)

\* One for each team, in the order of joining.
OneEach(s) ==
  /\ s \in Seq(Memberships)
  /\ \A k, n \in 1..Len(s) : s[k].team = s[n].team => k = n
Joined(s, t) == \E k \in 1..Len(s) : s[k].team = t
RoleOf(s, t) == IF t \in {m.team : m \in ToSet(s)}
                THEN (CHOOSE m \in ToSet(s) : m.team = t).role
                ELSE None

LEMMA RoleIsOf ==
  ASSUME NEW u, NEW t
  PROVE  RoleIn(u, t) = RoleOf(member[u], t) /\ RoleIn(u, t)' = RoleOf(member'[u], t)
BY DEF RoleIn, RoleOf, TeamsOf

LEMMA TeamsAreJoined ==
  ASSUME NEW u, OneEach(member[u]), NEW t
  PROVE  t \in TeamsOf(u) <=> Joined(member[u], t)
BY DEF TeamsOf, Joined, ToSet, OneEach

LEMMA RoleOfEntry ==
  ASSUME NEW s, OneEach(s), NEW k \in 1..Len(s)
  PROVE  RoleOf(s, s[k].team) = s[k].role
<1>1. ToSet(s) = {s[n] : n \in 1..Len(s)}
  BY DEF OneEach, ToSet
<1>2. \A m \in ToSet(s) : m.team = s[k].team => m = s[k]
  BY <1>1 DEF OneEach
<1>3. s[k] \in ToSet(s)
  BY <1>1
<1> QED BY <1>2, <1>3 DEF RoleOf

LEMMA NoRoleOf ==
  ASSUME NEW s, OneEach(s), NEW t, ~Joined(s, t)
  PROVE  RoleOf(s, t) = None
BY DEF RoleOf, Joined, ToSet, OneEach

\* A role that is held is that of an entry.
LEMMA RoleHasEntry ==
  ASSUME NEW s, OneEach(s), NEW t, NEW role, RoleOf(s, t) = role, role # None
  PROVE  \E k \in 1..Len(s) : s[k].team = t /\ s[k].role = role
<1>1. Joined(s, t)
  BY NoRoleOf
<1> QED BY <1>1, RoleOfEntry DEF Joined

\* Joining a team adds its role and leaves the others.
LEMMA JoinRoles ==
  ASSUME NEW s, OneEach(s), NEW m \in Memberships, ~Joined(s, m.team),
         NEW new \in Seq(Memberships), Len(new) = Len(s) + 1,
         \A k \in 1..Len(s) : new[k] = s[k], new[Len(s) + 1] = m, NEW x
  PROVE  /\ OneEach(new)
         /\ RoleOf(new, m.team) = m.role
         /\ x # m.team => RoleOf(new, x) = RoleOf(s, x)
         /\ Joined(new, x) <=> Joined(s, x) \/ x = m.team
<1> DEFINE t == m.team
           role == m.role
<1>0. s \in Seq(Memberships) /\ Len(s) \in Nat
  BY DEF OneEach
<1>1. /\ new \in Seq(Memberships) /\ Len(new) = Len(s) + 1
      /\ \A k \in 1..Len(s) : new[k] = s[k]
      /\ new[Len(s) + 1] = m
  OBVIOUS
<1>2. OneEach(new)
  <2> SUFFICES ASSUME NEW k \in 1..Len(new), NEW n \in 1..Len(new), new[k].team = new[n].team
               PROVE  k = n
    BY <1>1 DEF OneEach
  <2>1. \A i \in 1..Len(s) : new[i].team # t
    BY <1>1 DEF Joined
  <2>2. CASE k \in 1..Len(s) /\ n \in 1..Len(s)
    BY <1>1, <2>2 DEF OneEach
  <2>3. CASE k = Len(s) + 1 /\ n \in 1..Len(s)
    BY <1>1, <2>1, <2>3
  <2>4. CASE n = Len(s) + 1 /\ k \in 1..Len(s)
    BY <1>1, <2>1, <2>4
  <2> QED BY <1>0, <1>1, <2>2, <2>3, <2>4
<1>3. Len(s) + 1 \in 1..Len(new)
  BY <1>0, <1>1
<1>4. RoleOf(new, t) = role
  BY <1>1, <1>2, <1>3, RoleOfEntry
<1>5. Joined(new, x) <=> Joined(s, x) \/ x = t
  BY <1>0, <1>1, <1>3 DEF Joined
<1>6. ASSUME x # t PROVE RoleOf(new, x) = RoleOf(s, x)
  <2>1. CASE Joined(s, x)
    <3>1. PICK k \in 1..Len(s) : s[k].team = x
      BY <2>1 DEF Joined
    <3>2. k \in 1..Len(new)
      BY <1>0, <1>1
    <3>3. RoleOf(new, new[k].team) = new[k].role
      BY <1>2, <3>2, RoleOfEntry
    <3> QED BY <1>1, <3>1, <3>3, RoleOfEntry
  <2>2. CASE ~Joined(s, x)
    BY <1>2, <1>5, <1>6, <2>2, NoRoleOf
  <2> QED BY <2>1, <2>2
<1> QED BY <1>2, <1>4, <1>5, <1>6

\* A change of role is of the team's entry only.
LEMMA SetRoles ==
  ASSUME NEW s, OneEach(s), NEW t \in Teams, NEW role \in ToSet(Roles),
         NEW new,
         new = [k \in DOMAIN s |-> IF s[k].team = t THEN [s[k] EXCEPT !.role = role] ELSE s[k]]
  PROVE  /\ OneEach(new)
         /\ Joined(s, t) => RoleOf(new, t) = role
         /\ \A x : x # t => RoleOf(new, x) = RoleOf(s, x)
         /\ \A x : Joined(new, x) <=> Joined(s, x)
<1>0. s \in Seq(Memberships) /\ Len(s) \in Nat /\ DOMAIN s = 1..Len(s)
  BY DEF OneEach
<1>1. \A k \in 1..Len(s) : s[k] \in Memberships
  BY <1>0
<1>2. /\ \A k \in 1..Len(s) : new[k] \in Memberships /\ new[k].team = s[k].team
      /\ \A k \in 1..Len(s) : s[k].team = t => new[k].role = role
      /\ \A k \in 1..Len(s) : s[k].team # t => new[k] = s[k]
  BY <1>0, <1>1 DEF Memberships
<1>3. new \in Seq(Memberships) /\ Len(new) = Len(s)
  <2>1. new \in [1..Len(s) -> Memberships]
    BY <1>0, <1>2
  <2> QED BY <1>0, <2>1
<1>4. OneEach(new)
  BY <1>2, <1>3 DEF OneEach
<1>5. \A x : Joined(new, x) <=> Joined(s, x)
  BY <1>2, <1>3 DEF Joined
<1>6. \A k \in 1..Len(s) : RoleOf(new, s[k].team) = new[k].role
  <2> TAKE k \in 1..Len(s)
  <2>1. k \in 1..Len(new) /\ new[k].team = s[k].team
    BY <1>2, <1>3
  <2>2. RoleOf(new, new[k].team) = new[k].role
    BY <1>4, <2>1, RoleOfEntry
  <2> QED BY <2>1, <2>2
<1>7. Joined(s, t) => RoleOf(new, t) = role
  BY <1>2, <1>6 DEF Joined
<1>8. ASSUME NEW x, x # t PROVE RoleOf(new, x) = RoleOf(s, x)
  <2>1. CASE Joined(s, x)
    <3>1. PICK k \in 1..Len(s) : s[k].team = x
      BY <2>1 DEF Joined
    <3>2. RoleOf(new, x) = new[k].role /\ new[k] = s[k]
      BY <1>2, <1>6, <1>8, <3>1
    <3> QED BY <3>1, <3>2, RoleOfEntry, ZenonT(60)
  <2>2. CASE ~Joined(s, x)
    BY <1>4, <1>5, <2>2, NoRoleOf
  <2> QED BY <2>1, <2>2
<1> QED BY <1>4, <1>5, <1>7, <1>8

\* Leaving a team takes its entry only.
LEMMA LeaveRoles ==
  ASSUME NEW s, OneEach(s), NEW j \in 1..Len(s), NEW new, new = RemoveAt(s, j)
  PROVE  /\ OneEach(new)
         /\ ~Joined(new, s[j].team)
         /\ \A x : x # s[j].team => RoleOf(new, x) = RoleOf(s, x)
         /\ \A x : x # s[j].team => (Joined(new, x) <=> Joined(s, x))
<1> DEFINE t == s[j].team
           Old(k) == IF k < j THEN k ELSE k + 1
<1>0. s \in Seq(Memberships) /\ Len(s) \in Nat /\ j \in Nat /\ 1 <= j /\ j <= Len(s)
  BY DEF OneEach
<1>1. /\ new \in Seq(Memberships) /\ Len(new) = Len(s) - 1
      /\ \A k \in 1..(Len(s) - 1) : new[k] = s[Old(k)]
  <2>1. /\ SubSeq(s, 1, j - 1) \in Seq(Memberships) /\ Len(SubSeq(s, 1, j - 1)) = j - 1
        /\ \A k \in 1..(j - 1) : SubSeq(s, 1, j - 1)[k] = s[k]
    BY <1>0
  <2>2. /\ SubSeq(s, j + 1, Len(s)) \in Seq(Memberships)
        /\ Len(SubSeq(s, j + 1, Len(s))) = Len(s) - j
        /\ \A k \in 1..(Len(s) - j) : SubSeq(s, j + 1, Len(s))[k] = s[j + k]
    BY <1>0
  <2> DEFINE a == SubSeq(s, 1, j - 1)
             b == SubSeq(s, j + 1, Len(s))
  <2> HIDE DEF a, b
  <2>3. new = a \o b
    BY DEF RemoveAt, a, b
  <2>4. /\ a \in Seq(Memberships) /\ Len(a) = j - 1
        /\ \A k \in 1..(j - 1) : a[k] = s[k]
        /\ b \in Seq(Memberships) /\ Len(b) = Len(s) - j
        /\ \A k \in 1..(Len(s) - j) : b[k] = s[j + k]
    BY <2>1, <2>2 DEF a, b
  <2>5. new \in Seq(Memberships) /\ Len(new) = Len(s) - 1
    BY <1>0, <2>3, <2>4
  <2>6. ASSUME NEW k \in 1..(Len(s) - 1) PROVE new[k] = s[Old(k)]
    <3>1. CASE k < j
      BY <1>0, <2>3, <2>4, <2>6, <3>1
    <3>2. CASE ~(k < j)
      <4>1. new[k] = b[k - (j - 1)]
        BY <1>0, <2>3, <2>4, <2>6, <3>2
      <4>2. k - (j - 1) \in 1..(Len(s) - j)
        BY <1>0, <2>6, <3>2
      <4> QED BY <1>0, <2>4, <3>2, <4>1, <4>2
    <3> QED BY <3>1, <3>2
  <2> QED BY <2>5, <2>6
<1>2. /\ \A k \in 1..Len(new) : Old(k) \in 1..Len(s) /\ Old(k) # j
      /\ \A k, n \in 1..Len(new) : Old(k) = Old(n) => k = n
      /\ \A n \in 1..Len(s) : n # j => \E k \in 1..Len(new) : Old(k) = n
  <2>1. ASSUME NEW n \in 1..Len(s), n # j PROVE \E k \in 1..Len(new) : Old(k) = n
    <3>1. CASE n < j
      BY <1>0, <1>1, <2>1, <3>1
    <3>2. CASE n > j
      <4>1. n - 1 \in 1..Len(new) /\ Old(n - 1) = n
        BY <1>0, <1>1, <2>1, <3>2
      <4> QED BY <4>1
    <3> QED BY <1>0, <2>1, <3>1, <3>2
  <2> QED BY <1>0, <1>1, <2>1
<1>a. \A k \in 1..Len(new) : new[k] = s[Old(k)]
  BY <1>1
<1> HIDE DEF Old, t
<1>3. OneEach(new)
  <2> SUFFICES ASSUME NEW k \in 1..Len(new), NEW n \in 1..Len(new), new[k].team = new[n].team
               PROVE  k = n
    BY <1>1 DEF OneEach
  <2>1. Old(k) = Old(n)
    <3>1. new[k] = s[Old(k)] /\ new[n] = s[Old(n)]
      BY <1>a
    <3>2. Old(k) \in 1..Len(s) /\ Old(n) \in 1..Len(s)
      BY <1>2
    <3> QED BY <3>1, <3>2 DEF OneEach
  <2> QED BY <1>2, <2>1
<1>4. ~Joined(new, t)
  <2> SUFFICES ASSUME NEW k \in 1..Len(new), new[k].team = t PROVE FALSE
    BY DEF Joined
  <2>1. s[Old(k)].team = s[j].team
    BY <1>a DEF t
  <2> QED BY <1>2, <2>1 DEF OneEach
<1>5. \A x : x # t => (Joined(new, x) <=> Joined(s, x))
  <2> SUFFICES ASSUME NEW x, x # t PROVE Joined(new, x) <=> Joined(s, x)
    OBVIOUS
  <2>1. ASSUME NEW k \in 1..Len(new), new[k].team = x PROVE Joined(s, x)
    BY <1>2, <1>a, <2>1 DEF Joined
  <2>2. ASSUME NEW n \in 1..Len(s), s[n].team = x PROVE Joined(new, x)
    BY <1>2, <1>a, <2>2 DEF Joined, t
  <2> QED BY <2>1, <2>2 DEF Joined
<1>6. ASSUME NEW x, x # t PROVE RoleOf(new, x) = RoleOf(s, x)
  <2>1. CASE Joined(s, x)
    <3>1. PICK k \in 1..Len(new) : new[k].team = x
      BY <1>5, <1>6, <2>1 DEF Joined
    <3>2. RoleOf(new, x) = new[k].role
      BY <1>3, <3>1, RoleOfEntry
    <3>3. RoleOf(s, s[Old(k)].team) = s[Old(k)].role
      BY <1>2, RoleOfEntry
    <3> QED BY <1>a, <3>1, <3>2, <3>3
  <2>2. CASE ~Joined(s, x)
    BY <1>3, <1>5, <1>6, <2>2, NoRoleOf
  <2> QED BY <2>1, <2>2
<1> QED BY <1>3, <1>4, <1>5, <1>6 DEF t

----------------------------------------------------------------------------
(* The invariant of the roles                                               *)

Pcs == {"new", "done", "count_teams", "team", "owner", "open", "session", "insert",
        "claim", "target", "count", "write"}
RequestRecords ==
  [pc : Pcs, op : Ops \union {None}, user : Users \union {None}, team : Teams \union {None},
   target : Users \union {None}, role : ToSet(Roles) \union {None},
   invite : Invites \union {None}, overtaken : BOOLEAN]
InviteRows ==
  [team : Teams, role : ToSet(Roles), by : Users, state : {"valid", "used", "expired"}]

\* What the middleware has established for a request, and still holds: owners are
\* remembered, and rows are there once they were seen.
Granted(q, known, rows) ==
  /\ q.pc \notin {"new", "done"} => q.user \in Users
  /\ q.pc \in {"target", "count", "write"} =>
       /\ q.team \in Teams /\ q.target \in Users
       /\ q.user \in known[q.team]
       /\ q.op = "change" => q.role \in ToSet(Roles)
  /\ q.pc = "insert" =>
       /\ q.team \in Teams /\ q.role \in ToSet(Roles)
       /\ q.role = "owner" => q.user \in known[q.team]
  /\ q.pc = "claim" => q.invite \in rows
  /\ q.pc = "owner" => q.team \in Teams

\* A request about to write that nobody has overtaken leaves an owner behind.
Spares(q, members) ==
  q.pc = "write" /\ ~q.overtaken /\ RoleOf(members[q.target], q.team) = "owner" =>
    \E v \in Users : v # q.target /\ RoleOf(members[v], q.team) = "owner"

MembersOK == member \in [Users -> Seq(Memberships)] /\ \A u \in Users : OneEach(member[u])
OwnersOK ==
  /\ owners \in [Teams -> SUBSET Users]
  /\ \A u \in Users, t \in Teams : RoleOf(member[u], t) = "owner" => u \in owners[t]
InvitesOK ==
  /\ DOMAIN invite \subseteq Invites
  /\ \A i \in DOMAIN invite :
       /\ invite[i] \in InviteRows
       /\ invite[i].role = "owner" => invite[i].by \in owners[invite[i].team]
RequestsGranted ==
  /\ request \in [Requests -> RequestRecords]
  /\ \A r \in Requests :
       Granted(request[r], owners, DOMAIN invite) /\ Spares(request[r], member)

\* A team that has just been inserted is nobody's yet but its maker's.
Founds(r, t) == request[r].pc = "owner" /\ request[r].team = t
Named(t) ==
  \/ \E u \in Users : Joined(member[u], t)
  \/ \E i \in DOMAIN invite : invite[i].team = t
  \/ \E r \in Requests : request[r].pc = "insert" /\ request[r].team = t
  \/ owners[t] # {}
TeamsFounded ==
  \A t \in Teams :
    /\ Named(t) => t \in team
    /\ \A r \in Requests : Founds(r, t) => t \in team /\ ~Named(t)
    /\ \A r, s \in Requests : Founds(r, t) /\ Founds(s, t) => r = s

RolesInv == MembersOK /\ OwnersOK /\ InvitesOK /\ RequestsGranted /\ TeamsFounded

\* What no step but one can do: the memberships of one user in one team change.
Changes(u, t) ==
  /\ MembersOK'
  /\ \A v \in Users : \A x \in Teams : v # u \/ x # t =>
       /\ RoleOf(member'[v], x) = RoleOf(member[v], x)
       /\ Joined(member'[v], x) <=> Joined(member[v], x)

LEMMA JoinChanges ==
  ASSUME MembersOK, NEW u \in Users, NEW t \in Teams, NEW role \in ToSet(Roles),
         ~Joined(member[u], t), Join(u, t, role)
  PROVE  /\ Changes(u, t)
         /\ RoleOf(member'[u], t) = role
<1> DEFINE new == Append(member[u], [team |-> t, role |-> role])
<1>0. new = Append(member[u], [team |-> t, role |-> role]) /\ OneEach(member[u])
  BY DEF MembersOK
<1>2. member' = [member EXCEPT ![u] = new]
  BY DEF Join
<1> HIDE DEF new
<1>1. /\ OneEach(new) /\ RoleOf(new, t) = role
      /\ \A x : x # t => RoleOf(new, x) = RoleOf(member[u], x)
      /\ \A x : Joined(new, x) <=> Joined(member[u], x) \/ x = t
  <2> DEFINE s == member[u]
             m == [team |-> t, role |-> role]
  <2>1. /\ OneEach(s) /\ ~Joined(s, t) /\ new = Append(s, m)
        /\ m \in Memberships /\ m.team = t /\ m.role = role
    BY <1>0 DEF Memberships
  <2>3. s \in Seq(Memberships)
    BY <2>1 DEF OneEach
  <2> HIDE DEF s, m
  <2>4. /\ new \in Seq(Memberships) /\ Len(new) = Len(s) + 1
        /\ \A k \in 1..Len(s) : new[k] = s[k]
        /\ new[Len(s) + 1] = m
    BY <2>1, <2>3
  <2>2. /\ OneEach(new) /\ RoleOf(new, m.team) = m.role
        /\ \A x : x # m.team => RoleOf(new, x) = RoleOf(s, x)
        /\ \A x : Joined(new, x) <=> Joined(s, x) \/ x = m.team
    BY <2>1, <2>4, JoinRoles, ZenonT(60)
  <2> QED BY <2>1, <2>2 DEF s
<1>3. member'[u] = new /\ \A v \in Users : v # u => member'[v] = member[v]
  BY <1>2 DEF MembersOK
<1>4. member' \in [Users -> Seq(Memberships)]
  BY <1>1, <1>2 DEF MembersOK, OneEach
<1> QED BY <1>1, <1>3, <1>4 DEF Changes, MembersOK

LEMMA SetRoleChanges ==
  ASSUME MembersOK, NEW u \in Users, NEW t \in Teams, NEW role \in ToSet(Roles),
         SetRole(u, t, role)
  PROVE  /\ Changes(u, t)
         /\ Joined(member[u], t) => RoleOf(member'[u], t) = role
         /\ Joined(member'[u], t) <=> Joined(member[u], t)
<1> DEFINE new == [k \in DOMAIN member[u] |->
                    IF member[u][k].team = t THEN [member[u][k] EXCEPT !.role = role]
                    ELSE member[u][k]]
<1>0. /\ OneEach(member[u])
      /\ new = [k \in DOMAIN member[u] |->
                  IF member[u][k].team = t THEN [member[u][k] EXCEPT !.role = role]
                  ELSE member[u][k]]
  BY DEF MembersOK
<1>2. member' = [member EXCEPT ![u] = new]
  BY DEF SetRole
<1> HIDE DEF new
<1>1. /\ OneEach(new)
      /\ Joined(member[u], t) => RoleOf(new, t) = role
      /\ \A x : x # t => RoleOf(new, x) = RoleOf(member[u], x)
      /\ \A x : Joined(new, x) <=> Joined(member[u], x)
  BY <1>0, SetRoles
<1>3. member'[u] = new /\ \A v \in Users : v # u => member'[v] = member[v]
  BY <1>2 DEF MembersOK
<1>4. member' \in [Users -> Seq(Memberships)]
  BY <1>1, <1>2 DEF MembersOK, OneEach
<1> QED BY <1>1, <1>3, <1>4 DEF Changes, MembersOK

LEMMA LeaveChanges ==
  ASSUME MembersOK, NEW u \in Users, NEW t \in Teams, Leave(u, t)
  PROVE  Changes(u, t) /\ ~Joined(member'[u], t)
<1>1. t \in TeamsOf(u) <=> Joined(member[u], t)
  BY TeamsAreJoined DEF MembersOK
<1>2. CASE ~Joined(member[u], t)
  <2>1. member' = member
    BY <1>1, <1>2 DEF Leave, MembersOK
  <2> QED BY <1>2, <2>1 DEF Changes, MembersOK
<1>3. CASE Joined(member[u], t)
  <2> DEFINE j == CHOOSE k \in DOMAIN member[u] : member[u][k].team = t
             new == RemoveAt(member[u], j)
  <2>1. DOMAIN member[u] = 1..Len(member[u])
    BY DEF MembersOK
  <2>2. j \in 1..Len(member[u]) /\ member[u][j].team = t
    BY <1>3, <2>1 DEF Joined
  <2>3. member' = [member EXCEPT ![u] = new]
    BY <1>1, <1>3 DEF Leave
  <2> HIDE DEF j
  <2>4. /\ OneEach(new) /\ ~Joined(new, t)
        /\ \A x : x # t => RoleOf(new, x) = RoleOf(member[u], x)
        /\ \A x : x # t => (Joined(new, x) <=> Joined(member[u], x))
    BY <2>2, LeaveRoles DEF MembersOK
  <2> HIDE DEF new
  <2>5. member'[u] = new /\ \A v \in Users : v # u => member'[v] = member[v]
    BY <2>3 DEF MembersOK
  <2>6. member' \in [Users -> Seq(Memberships)]
    BY <2>3, <2>4 DEF MembersOK, OneEach
  <2> QED BY <2>4, <2>5, <2>6 DEF Changes, MembersOK
<1> QED BY <1>2, <1>3

\* The record of the owners keeps up with the memberships.
LEMMA OwnersRecorded ==
  ASSUME OwnersOK, MembersOK', RecordOwners
  PROVE  /\ OwnersOK'
         /\ \A t \in Teams : owners[t] \subseteq owners'[t]
         /\ \A t \in Teams : \A u \in owners'[t] \ owners[t] :
              u \in Users /\ Joined(member'[u], t) /\ RoleOf(member'[u], t) = "owner"
<1>1. owners' = [t \in Teams |-> owners[t] \union
        {u \in Users : [team |-> t, role |-> "owner"] \in ToSet(member'[u])}]
  BY DEF RecordOwners
<1>2. owners' \in [Teams -> SUBSET Users]
  BY <1>1 DEF OwnersOK
<1>3. \A t \in Teams : owners[t] \subseteq owners'[t]
  BY <1>1
<1>4. ASSUME NEW u \in Users, NEW t \in Teams, RoleOf(member'[u], t) = "owner"
      PROVE  u \in owners'[t]
  <2>1. "owner" # None
    BY NoneAssumption DEF Roles, ToSet
  <2>2. PICK k \in 1..Len(member'[u]) : member'[u][k].team = t /\ member'[u][k].role = "owner"
    BY <1>4, <2>1, RoleHasEntry DEF MembersOK
  <2>3. member'[u][k] \in Memberships /\ member'[u][k] \in ToSet(member'[u])
    BY DEF MembersOK, ToSet
  <2>4. member'[u][k] = [team |-> t, role |-> "owner"]
    BY <2>2, <2>3 DEF Memberships
  <2> QED BY <1>1, <2>3, <2>4
<1>5. ASSUME NEW t \in Teams, NEW u \in owners'[t] \ owners[t]
      PROVE  u \in Users /\ Joined(member'[u], t) /\ RoleOf(member'[u], t) = "owner"
  <2>1. u \in Users /\ [team |-> t, role |-> "owner"] \in ToSet(member'[u])
    BY <1>1, <1>5
  <2>2. PICK k \in 1..Len(member'[u]) : member'[u][k] = [team |-> t, role |-> "owner"]
    BY <2>1 DEF MembersOK, ToSet
  <2>3. OneEach(member'[u])
    BY <2>1 DEF MembersOK
  <2>4. RoleOf(member'[u], member'[u][k].team) = member'[u][k].role
    BY <2>3, RoleOfEntry
  <2> QED BY <2>1, <2>2, <2>4 DEF Joined
<1> QED BY <1>2, <1>3, <1>4, <1>5 DEF OwnersOK

----------------------------------------------------------------------------
(* Its steps                                                                *)

LEMMA GrantedStays ==
  ASSUME NEW q, NEW known, NEW more, NEW rows, NEW others, Granted(q, known, rows),
         \A t \in Teams : known[t] \subseteq more[t], rows \subseteq others
  PROVE  Granted(q, more, others)
BY DEF Granted

\* A step of one request that writes no row.
LEMMA RequestMoves ==
  ASSUME RolesInv, NEW r \in Requests, NEW q,
         request' = [request EXCEPT ![r] = q],
         q \in RequestRecords, Granted(q, owners, DOMAIN invite), Spares(q, member),
         q.pc # "owner", q.pc = "insert" => Named(q.team),
         UNCHANGED <<member, team, invite, owners>>
  PROVE  RolesInv'
<1>1. \A s \in Requests : request'[s] = IF s = r THEN q ELSE request[s]
  BY DEF RolesInv, RequestsGranted
<1>2. RequestsGranted'
  BY <1>1 DEF RolesInv, RequestsGranted
<1>3. ASSUME NEW t \in Teams, Named(t)' PROVE Named(t)
  BY <1>1, <1>3 DEF Named
<1>4. \A s \in Requests, t \in Teams : Founds(s, t)' => Founds(s, t)
  BY <1>1 DEF Founds
<1>5. TeamsFounded'
  BY <1>3, <1>4 DEF RolesInv, TeamsFounded
<1> QED BY <1>2, <1>5 DEF RolesInv, MembersOK, OwnersOK, InvitesOK

LEMMA DoneIsFine ==
  ASSUME NEW known, NEW rows, NEW members
  PROVE  Done \in RequestRecords /\ Granted(Done, known, rows) /\ Spares(Done, members)
         /\ Done.pc = "done"
BY DEF Done, Fresh, RequestRecords, Pcs, Granted, Spares

LEMMA EndMoves ==
  ASSUME RolesInv, NEW r \in Requests, End(r), UNCHANGED <<member, team, invite, owners>>
  PROVE  RolesInv'
<1>1. Done.pc # "owner" /\ Done.pc # "insert"
  BY DoneIsFine
<1> QED BY <1>1, DoneIsFine, RequestMoves DEF End

\* A step that only moves the request on, to where it needs no more than it has.
LEMMA GotoMoves ==
  ASSUME RolesInv, NEW r \in Requests, NEW pc \in Pcs, Goto(r, pc),
         request[r].pc \notin {"new", "done"},
         \/ pc \in {"count_teams", "team", "open"}
         \/ pc \in {"count", "write"} /\ request[r].pc \in {"target", "count"},
         pc = "write" /\ RoleOf(member[request[r].target], request[r].team) = "owner" =>
           \E v \in Users : v # request[r].target /\ RoleOf(member[v], request[r].team) = "owner",
         UNCHANGED <<member, team, invite, owners>>
  PROVE  RolesInv'
<1> DEFINE q == [request[r] EXCEPT !.pc = pc]
<1>1. request[r] \in RequestRecords /\ Granted(request[r], owners, DOMAIN invite)
  BY DEF RolesInv, RequestsGranted
<1>2. /\ q \in RequestRecords /\ q.pc = pc
      /\ q.op = request[r].op /\ q.user = request[r].user /\ q.team = request[r].team
      /\ q.target = request[r].target /\ q.role = request[r].role
      /\ q.overtaken = request[r].overtaken
  BY <1>1 DEF RequestRecords
<1>3. request' = [request EXCEPT ![r] = q]
  BY DEF Goto
<1> HIDE DEF q
<1>4. Granted(q, owners, DOMAIN invite)
  BY <1>1, <1>2 DEF Granted
<1>5. Spares(q, member)
  BY <1>2 DEF Spares
<1> QED BY <1>2, <1>3, <1>4, <1>5, RequestMoves

\* The steps that write no row but of sessions.
LEMMA QuietSteps ==
  ASSUME RolesInv, NEW r \in Requests,
         \/ Login(r) \/ WithSession(r) \/ AuthorizeMembers(r) \/ AuthorizeInvite(r)
         \/ CheckCreator(r) \/ CountTeams(r) \/ Crash(r) \/ CreateSession(r)
         \/ RevokeSession(r) \/ LookupInvite(r) \/ ReadTarget(r) \/ CountOwners(r)
  PROVE  RolesInv'
<1>0. /\ request[r] \in RequestRecords /\ Granted(request[r], owners, DOMAIN invite)
      /\ request \in [Requests -> RequestRecords]
  BY DEF RolesInv, RequestsGranted
<1>1. ASSUME NEW q, Send(r, q), q = Done \/ (q \in RequestRecords /\ q.user \in Users
                                             /\ q.pc \in {"count_teams", "session"})
      PROVE  RolesInv'
  <2>1. request' = [request EXCEPT ![r] = q] /\ UNCHANGED <<member, team, invite, owners>>
    BY <1>1 DEF Send, KeepRows
  <2>2. CASE q = Done
    BY <2>1, <2>2, EndMoves DEF End
  <2>3. CASE q \in RequestRecords /\ q.user \in Users /\ q.pc \in {"count_teams", "session"}
    <3>1. Granted(q, owners, DOMAIN invite) /\ Spares(q, member)
      BY <2>3 DEF Granted, Spares
    <3> QED BY <2>1, <2>3, <3>1, RequestMoves
  <2> QED BY <1>1, <2>2, <2>3
<1>2. CASE Login(r)
  <2>1. PICK u \in Vouched :
          Send(r, IF u = None THEN Done
                  ELSE [Fresh EXCEPT !.op = "login", !.user = u, !.pc = "count_teams"])
    BY <1>2 DEF Login
  <2> DEFINE q == [Fresh EXCEPT !.op = "login", !.user = u, !.pc = "count_teams"]
  <2>2. u # None => q \in RequestRecords /\ q.user \in Users /\ q.pc = "count_teams"
    BY DEF Vouched, Fresh, RequestRecords, Pcs, Ops
  <2> HIDE DEF q
  <2>3. CASE u = None
    BY <1>1, <2>1, <2>3
  <2>4. CASE u # None
    <3>1. Send(r, q)
      BY <2>1, <2>4 DEF q
    <3> QED BY <1>1, <2>2, <2>4, <3>1
  <2> QED BY <2>3, <2>4
<1>3. CASE WithSession(r)
  <2>1. PICK op \in Ops \ {"login"}, u \in Users :
          Send(r, [Fresh EXCEPT !.op = op, !.user = u, !.pc = "session"])
    BY <1>3 DEF WithSession
  <2> DEFINE q == [Fresh EXCEPT !.op = op, !.user = u, !.pc = "session"]
  <2>2. q \in RequestRecords /\ q.user \in Users /\ q.pc = "session"
    BY DEF Fresh, RequestRecords, Pcs
  <2>3. Send(r, q)
    BY <2>1
  <2> HIDE DEF q
  <2> QED BY <1>1, <2>2, <2>3
<1>4. CASE AuthorizeMembers(r)
  <2>0. UNCHANGED <<member, team, invite, owners>>
    BY <1>4 DEF AuthorizeMembers, KeepRows
  <2>1. CASE End(r)
    BY <2>0, <2>1, EndMoves
  <2>2. CASE ~End(r)
    <3> DEFINE s == member[request[r].user]
               t == Head(s).team
    <3>1. s # << >> /\ Head(s).role = "owner"
      BY <1>4, <2>2 DEF AuthorizeMembers
    <3>2. PICK v \in Users, role \in {"admin", "owner"} :
            request' = [request EXCEPT ![r].pc = "target", ![r].team = t, ![r].target = v,
              ![r].role = IF request[r].op = "change" THEN role ELSE None]
      BY <1>4, <2>2 DEF AuthorizeMembers
    <3>3. request[r].user \in Users
      BY <1>0, <1>4 DEF AuthorizeMembers, Granted
    <3>4. OneEach(s)
      BY <3>3 DEF RolesInv, MembersOK
    <3>5. 1 \in 1..Len(s) /\ s[1] = Head(s) /\ s[1] \in Memberships
      BY <3>1, <3>4 DEF OneEach
    <3>6. RoleOf(s, t) = "owner" /\ t \in Teams
      <4> HIDE DEF s
      <4>1. RoleOf(s, s[1].team) = s[1].role
        BY <3>4, <3>5, RoleOfEntry
      <4> QED BY <3>1, <3>5, <4>1 DEF Memberships
    <3>7. request[r].user \in owners[t]
      BY <3>3, <3>6 DEF RolesInv, OwnersOK
    <3> DEFINE to == IF request[r].op = "change" THEN role ELSE None
               q == [[[[request[r] EXCEPT !.pc = "target"] EXCEPT !.team = t]
                        EXCEPT !.target = v] EXCEPT !.role = to]
    <3>8. request' = [request EXCEPT ![r] = q]
      BY <1>0, <3>2
    <3> HIDE DEF t
    <3>9. /\ q \in RequestRecords /\ q.pc = "target" /\ q.team = t /\ q.target = v
          /\ q.user = request[r].user
          /\ q.op = "change" => q.role = role
      <4>1. to \in ToSet(Roles) \union {None} /\ (request[r].op = "change" => to = role)
        BY RoleNames
      <4> HIDE DEF to
      <4> QED BY <1>0, <3>6, <4>1 DEF RequestRecords, Pcs
    <3> HIDE DEF q
    <3>10. Granted(q, owners, DOMAIN invite) /\ Spares(q, member)
      BY <3>3, <3>6, <3>7, <3>9, RoleNames DEF Granted, Spares
    <3> QED BY <2>0, <3>8, <3>9, <3>10, RequestMoves, ZenonT(60)
  <2> QED BY <2>1, <2>2
<1>5. CASE AuthorizeInvite(r)
  <2>0. UNCHANGED <<member, team, invite, owners>>
    BY <1>5 DEF AuthorizeInvite, KeepRows
  <2>1. CASE End(r)
    BY <2>0, <2>1, EndMoves
  <2>2. CASE ~End(r)
    <3> DEFINE u == request[r].user
    <3>1. PICK t \in team, role \in {"member", "owner"} :
            /\ RoleIn(u, t) # None
            /\ CheckRole(RoleIn(u, t), IF role = "owner" THEN "owner" ELSE "admin")
            /\ request' = [request EXCEPT ![r].pc = "insert", ![r].team = t, ![r].role = role]
      BY <1>5, <2>2 DEF AuthorizeInvite
    <3>2. u \in Users /\ OneEach(member[u])
      BY <1>0, <1>5 DEF AuthorizeInvite, At, Granted, RolesInv, MembersOK
    <3>3. RoleOf(member[u], t) # None
      BY <3>1, RoleIsOf
    <3>4. PICK k \in 1..Len(member[u]) :
            member[u][k].team = t /\ member[u][k].role = RoleOf(member[u], t)
      BY <3>2, <3>3, RoleHasEntry
    <3>5. t \in Teams /\ RoleOf(member[u], t) \in ToSet(Roles)
      <4>1. member[u][k] \in Memberships
        BY <3>2 DEF OneEach
      <4> QED BY <3>4, <4>1 DEF Memberships
    <3>6. Named(t)
      BY <3>2, <3>4 DEF Named, Joined
    <3>7. role = "owner" => u \in owners[t]
      <4>1. role = "owner" => RoleOf(member[u], t) = "owner"
        BY <3>1, <3>5, RoleIsOf, OwnersRank
      <4> QED BY <3>2, <3>5, <4>1 DEF RolesInv, OwnersOK
    <3> DEFINE q == [[[request[r] EXCEPT !.pc = "insert"] EXCEPT !.team = t] EXCEPT !.role = role]
    <3>8. request' = [request EXCEPT ![r] = q]
      BY <1>0, <3>1
    <3>9. /\ q \in RequestRecords /\ q.pc = "insert" /\ q.team = t /\ q.role = role /\ q.user = u
      BY <1>0, <3>5, RoleNames DEF RequestRecords, Pcs
    <3> HIDE DEF q, u
    <3>10. Granted(q, owners, DOMAIN invite) /\ Spares(q, member)
      BY <3>2, <3>5, <3>7, <3>9, RoleNames DEF Granted, Spares
    <3> QED BY <2>0, <3>6, <3>8, <3>9, <3>10, RequestMoves
  <2> QED BY <2>1, <2>2
<1>6. CASE CheckCreator(r)
  BY <1>6, GotoMoves DEF CheckCreator, At, KeepRows, Pcs
<1>7. CASE CountTeams(r)
  BY <1>7, GotoMoves, EndMoves DEF CountTeams, KeepRows, Pcs
<1>8. CASE Crash(r)
  BY <1>8, EndMoves DEF Crash, KeepRows
<1>9. CASE CreateSession(r)
  BY <1>9, EndMoves DEF CreateSession
<1>10. CASE RevokeSession(r)
  BY <1>10, EndMoves DEF RevokeSession
<1>11. CASE LookupInvite(r)
  <2>0. UNCHANGED <<member, team, invite, owners>>
    BY <1>11 DEF LookupInvite, KeepRows
  <2>1. CASE End(r)
    BY <2>0, <2>1, EndMoves
  <2>2. CASE ~End(r)
    <3>1. PICK i \in Invites : StatusOf(i) = "valid"
            /\ request' = [request EXCEPT ![r].pc = "claim", ![r].invite = i]
      BY <1>11, <2>2 DEF LookupInvite
    <3>2. i \in DOMAIN invite
      BY <3>1 DEF StatusOf
    <3> DEFINE q == [[request[r] EXCEPT !.pc = "claim"] EXCEPT !.invite = i]
    <3>3. request' = [request EXCEPT ![r] = q]
      BY <1>0, <3>1
    <3>4. q \in RequestRecords /\ q.pc = "claim" /\ q.invite = i /\ q.user = request[r].user
      BY <1>0 DEF RequestRecords, Pcs
    <3>5. request[r].user \in Users
      BY <1>0, <1>11 DEF LookupInvite, At, Granted
    <3> HIDE DEF q
    <3>6. Granted(q, owners, DOMAIN invite) /\ Spares(q, member)
      BY <3>2, <3>4, <3>5 DEF Granted, Spares
    <3> QED BY <2>0, <3>3, <3>4, <3>6, RequestMoves
  <2> QED BY <2>1, <2>2
<1>12. CASE ReadTarget(r)
  <2>0. UNCHANGED <<member, team, invite, owners>> /\ request[r].pc = "target"
    BY <1>12 DEF ReadTarget, KeepRows
  <2>1. \/ End(r)
        \/ Goto(r, "count")
        \/ Goto(r, "write") /\ RoleIn(request[r].target, request[r].team) # "owner"
    BY <1>12 DEF ReadTarget
  <2> QED BY <2>0, <2>1, EndMoves, GotoMoves, RoleIsOf DEF Pcs
<1>13. CASE CountOwners(r)
  <2>0. UNCHANGED <<member, team, invite, owners>> /\ request[r].pc = "count"
    BY <1>13 DEF CountOwners, KeepRows
  <2>1. CASE End(r)
    BY <2>0, <2>1, EndMoves
  <2>2. CASE ~End(r)
    <3> DEFINE t == request[r].team
    <3>1. Goto(r, "write") /\ ~(Cardinality(OwnersOf(t)) <= 1)
      BY <1>13, <2>2 DEF CountOwners
    <3>2. \E v \in Users : v # request[r].target /\ RoleOf(member[v], t) = "owner"
      <4>1. OwnersOf(t) = {v \in Users : RoleOf(member[v], t) = "owner"}
        BY RoleIsOf DEF OwnersOf
      <4>2. ~(OwnersOf(t) \subseteq {request[r].target})
        BY <3>1, ManyOwners
      <4> QED BY <4>1, <4>2
    <3> QED BY <2>0, <3>1, <3>2, GotoMoves DEF Pcs
  <2> QED BY <2>1, <2>2
<1> QED BY <1>2, <1>3, <1>4, <1>5, <1>6, <1>7, <1>8, <1>9, <1>10, <1>11, <1>12, <1>13

LEMMA OwnersAreHeirs ==
  ASSUME OwnersOK, NEW u \in Users, NEW t \in Teams, Changes(u, t), RecordOwners
  PROVE  /\ OwnersOK'
         /\ \A x \in Teams : owners[x] \subseteq owners'[x]
         /\ \A x \in Teams : x # t => owners'[x] = owners[x]
         /\ \A v \in owners'[t] \ owners[t] : v = u /\ RoleOf(member'[u], t) = "owner"
<1>1. /\ OwnersOK'
      /\ \A x \in Teams : owners[x] \subseteq owners'[x]
      /\ \A x \in Teams : \A v \in owners'[x] \ owners[x] :
           v \in Users /\ RoleOf(member'[v], x) = "owner"
  BY OwnersRecorded DEF Changes
<1>2. ASSUME NEW x \in Teams, NEW v \in owners'[x] \ owners[x] PROVE x = t /\ v = u
  <2>1. v \in Users /\ RoleOf(member'[v], x) = "owner" /\ RoleOf(member[v], x) # "owner"
    BY <1>1, <1>2 DEF OwnersOK
  <2> QED BY <2>1 DEF Changes
<1> QED BY <1>1, <1>2

\* A step that writes the memberships of a team.
LEMMA WriteMoves ==
  ASSUME RolesInv, NEW r \in Requests, NEW u \in Users, NEW t \in Teams,
         Changes(u, t), OwnersOK',
         \A x \in Teams : owners[x] \subseteq owners'[x],
         \A x \in Teams : x # t => owners'[x] = owners[x],
         t \in team, \A s \in Requests : Founds(s, t) => s = r,
         UNCHANGED team, DOMAIN invite' = DOMAIN invite,
         \A i \in DOMAIN invite :
           /\ invite'[i] \in InviteRows
           /\ invite'[i].team = invite[i].team
           /\ invite'[i].role = invite[i].role
           /\ invite'[i].by = invite[i].by,
         request' \in [Requests -> RequestRecords],
         Granted(request'[r], owners, DOMAIN invite),
         request'[r].pc \notin {"write", "insert", "owner"},
         \A s \in Requests : s # r =>
           /\ request'[s] = request[s] \/ request'[s] = [request[s] EXCEPT !.overtaken = TRUE]
           /\ request[s].pc = "write" /\ request[s].team = t => request'[s].overtaken
  PROVE  RolesInv'
<1>0. /\ \A s \in Requests : request[s] \in RequestRecords
      /\ \A s \in Requests : Granted(request[s], owners, DOMAIN invite)
      /\ \A s \in Requests : Spares(request[s], member)
  BY DEF RolesInv, RequestsGranted
<1>1. ASSUME NEW s \in Requests, s # r
      PROVE  /\ request'[s].pc = request[s].pc /\ request'[s].op = request[s].op
             /\ request'[s].user = request[s].user /\ request'[s].team = request[s].team
             /\ request'[s].target = request[s].target /\ request'[s].role = request[s].role
             /\ request'[s].invite = request[s].invite
             /\ request'[s].overtaken \/ request'[s] = request[s]
  BY <1>0, <1>1 DEF RequestRecords
<1>2. ASSUME NEW s \in Requests
      PROVE  Granted(request'[s], owners', DOMAIN invite')
  <2>1. Granted(request'[s], owners, DOMAIN invite)
    <3>1. CASE s = r
      BY <3>1
    <3>2. CASE s # r
      BY <1>0, <1>1, <3>2 DEF Granted
    <3> QED BY <3>1, <3>2
  <2> QED BY <2>1, GrantedStays
<1>3. ASSUME NEW s \in Requests
      PROVE  Spares(request'[s], member')
  <2>1. CASE s = r \/ request'[s].overtaken
    BY <2>1 DEF Spares
  <2>2. CASE s # r /\ ~request'[s].overtaken
    <3> DEFINE q == request[s]
    <3>1. request'[s] = q /\ Spares(q, member) /\ Granted(q, owners, DOMAIN invite)
      BY <1>0, <1>1, <2>2
    <3>2. q.pc = "write" => q.team # t /\ q.team \in Teams /\ q.target \in Users
      BY <2>2, <3>1 DEF Granted
    <3>3. q.pc = "write" =>
            \A v \in Users : RoleOf(member'[v], q.team) = RoleOf(member[v], q.team)
      BY <3>2 DEF Changes
    <3> HIDE DEF q
    <3> QED BY <3>1, <3>2, <3>3 DEF Spares
  <2> QED BY <2>1, <2>2
<1>4. RequestsGranted'
  BY <1>2, <1>3 DEF RequestsGranted
<1>5. InvitesOK'
  <2>1. InvitesOK
    BY DEF RolesInv
  <2>2. ASSUME NEW i \in DOMAIN invite, invite'[i].role = "owner"
        PROVE  invite'[i].by \in owners'[invite'[i].team]
    <3>1. invite[i].by \in owners[invite[i].team] /\ invite[i].team \in Teams
      BY <2>1, <2>2 DEF InvitesOK, InviteRows
    <3> QED BY <3>1
  <2> QED BY <2>1, <2>2 DEF InvitesOK
<1>6. ASSUME NEW x \in Teams, Named(x)' PROVE Named(x) \/ x = t
  <2>1. CASE \E v \in Users : Joined(member'[v], x)
    BY <2>1 DEF Named, Changes
  <2>2. CASE \E i \in DOMAIN invite' : invite'[i].team = x
    BY <2>2 DEF Named
  <2>3. CASE \E s \in Requests : request'[s].pc = "insert" /\ request'[s].team = x
    BY <1>1, <2>3 DEF Named
  <2>4. CASE owners'[x] # {}
    BY <2>4 DEF Named
  <2> QED BY <1>6, <2>1, <2>2, <2>3, <2>4 DEF Named
<1>7. ASSUME NEW s \in Requests, NEW x, Founds(s, x)' PROVE Founds(s, x) /\ s # r
  BY <1>1, <1>7 DEF Founds
<1>8. TeamsFounded'
  BY <1>6, <1>7 DEF RolesInv, TeamsFounded
<1> QED BY <1>4, <1>5, <1>8 DEF RolesInv, Changes

\* What EndWriting does to the requests.
LEMMA Overtakes ==
  ASSUME RolesInv, NEW r \in Requests, NEW t, EndWriting(r, t)
  PROVE  /\ request' \in [Requests -> RequestRecords]
         /\ Granted(request'[r], owners, DOMAIN invite)
         /\ request'[r].pc = "done"
         /\ \A s \in Requests : s # r =>
              /\ request'[s] = request[s] \/ request'[s] = [request[s] EXCEPT !.overtaken = TRUE]
              /\ request[s].pc = "write" /\ request[s].team = t => request'[s].overtaken
<1>0. \A s \in Requests : request[s] \in RequestRecords
  BY DEF RolesInv, RequestsGranted
<1>1. \A s \in Requests : [request[s] EXCEPT !.overtaken = TRUE] \in RequestRecords
                          /\ [request[s] EXCEPT !.overtaken = TRUE].overtaken
  BY <1>0 DEF RequestRecords
<1>2. \A s \in Requests : request'[s] =
        IF s = r THEN Done
        ELSE IF request[s].pc \in {"count", "write"} /\ request[s].team = t
             THEN [request[s] EXCEPT !.overtaken = TRUE] ELSE request[s]
  BY DEF EndWriting
<1>3. DOMAIN request' = Requests /\ request' = [s \in Requests |-> request'[s]]
  BY DEF EndWriting
<1>4. \A s \in Requests : request'[s] \in RequestRecords
  BY <1>0, <1>1, <1>2, DoneIsFine
<1> QED BY <1>1, <1>2, <1>3, <1>4, DoneIsFine, ZenonT(60)

----------------------------------------------------------------------------
(* The writes, each with what it does to the memberships                    *)

\* The new team is nobody's yet.
LEMMA FoundersWrite ==
  ASSUME RolesInv, NEW r \in Requests, InsertOwner(r)
  PROVE  LET u == request[r].user
             t == request[r].team
         IN /\ u \in Users /\ t \in Teams /\ Changes(u, t)
            /\ RoleOf(member[u], t) = None /\ owners[t] = {}
            /\ request'[r].pc # "owner" /\ request[r].pc = "owner"
            /\ \A x \in Teams : x # t => owners'[x] = owners[x]
            /\ \A v \in owners'[t] \ owners[t] : v = u
            /\ RolesInv'
<1> DEFINE u == request[r].user
           t == request[r].team
<1>0. /\ request[r] \in RequestRecords /\ Granted(request[r], owners, DOMAIN invite)
      /\ request \in [Requests -> RequestRecords] /\ MembersOK /\ OwnersOK /\ InvitesOK
  BY DEF RolesInv, RequestsGranted
<1>1. request[r].pc = "owner" /\ u \in Users /\ t \in Teams
  BY <1>0 DEF InsertOwner, Granted
<1>2. /\ t \in team /\ ~Named(t)
      /\ \A s \in Requests : Founds(s, t) => s = r
  BY <1>1 DEF RolesInv, TeamsFounded, Founds
<1>3. ~Joined(member[u], t) /\ owners[t] = {}
  BY <1>1, <1>2 DEF Named
<1>4. RoleOf(member[u], t) = None
  BY <1>0, <1>1, <1>3, NoRoleOf DEF MembersOK
<1>5. Changes(u, t)
  <2>1. Join(u, t, "owner")
    BY DEF InsertOwner
  <2> HIDE DEF u, t
  <2> QED BY <1>0, <1>1, <1>3, <2>1, JoinChanges, RoleNames
<1>6. /\ OwnersOK'
      /\ \A x \in Teams : owners[x] \subseteq owners'[x]
      /\ \A x \in Teams : x # t => owners'[x] = owners[x]
      /\ \A v \in owners'[t] \ owners[t] : v = u
  BY <1>0, <1>1, <1>5, OwnersAreHeirs DEF InsertOwner
<1>7. /\ request' \in [Requests -> RequestRecords]
      /\ Granted(request'[r], owners, DOMAIN invite)
      /\ request'[r].pc \in {"open", "done"}
      /\ \A s \in Requests : s # r => request'[s] = request[s]
  <2>1. CASE End(r)
    BY <1>0, <2>1, DoneIsFine DEF End
  <2>2. CASE Goto(r, "open")
    <3> DEFINE q == [request[r] EXCEPT !.pc = "open"]
    <3>1. q \in RequestRecords /\ q.pc = "open" /\ q.user = u
      BY <1>0 DEF RequestRecords, Pcs
    <3>2. request' = [request EXCEPT ![r] = q]
      BY <2>2 DEF Goto
    <3> HIDE DEF q, u
    <3>3. Granted(q, owners, DOMAIN invite)
      BY <1>1, <3>1 DEF Granted
    <3> QED BY <1>0, <3>1, <3>2, <3>3
  <2> QED BY <2>1, <2>2 DEF InsertOwner
<1>8. \A s \in Requests : request[s].pc = "write" => request[s].team # t
  <2>1. ASSUME NEW s \in Requests, request[s].pc = "write" PROVE owners[request[s].team] # {}
    BY <2>1 DEF RolesInv, RequestsGranted, Granted
  <2> QED BY <1>3, <2>1
<1>9. UNCHANGED <<team, invite>>
  BY DEF InsertOwner
<1>10. \A i \in DOMAIN invite : invite[i] \in InviteRows
  BY <1>0 DEF InvitesOK
<1>11. RolesInv'
  <2> HIDE DEF u, t
  <2> QED BY <1>1, <1>2, <1>5, <1>6, <1>7, <1>8, <1>9, <1>10, WriteMoves
<1> QED BY <1>1, <1>3, <1>4, <1>5, <1>6, <1>7, <1>11

\* Accepting an invitation adds a membership or none.
LEMMA GuestsWrite ==
  ASSUME RolesInv, NEW r \in Requests, AcceptInvite(r)
  PROVE  LET u == request[r].user
             t == invite[request[r].invite].team
         IN /\ RolesInv'
            /\ \/ UNCHANGED <<member, owners>>
               \/ /\ request[r].op = "accept" /\ request[r].pc # request'[r].pc
                  /\ request[r].invite \in DOMAIN invite
                  /\ u \in Users /\ t \in Teams /\ Changes(u, t)
                  /\ UNCHANGED member \/ RoleOf(member[u], t) = None
                  /\ \A x \in Teams : x # t => owners'[x] = owners[x]
                  /\ \A v \in owners'[t] \ owners[t] :
                       v = u /\ invite[request[r].invite].by \in owners[t]
<1> DEFINE u == request[r].user
           i == request[r].invite
           t == invite[i].team
           role == invite[i].role
<1>0. /\ request[r] \in RequestRecords /\ Granted(request[r], owners, DOMAIN invite)
      /\ request \in [Requests -> RequestRecords] /\ MembersOK /\ OwnersOK /\ InvitesOK
  BY DEF RolesInv, RequestsGranted
<1>1. /\ request[r].pc = "claim" /\ request[r].op = "accept"
      /\ u \in Users /\ i \in DOMAIN invite
  BY <1>0 DEF AcceptInvite, At, Granted
<1>2. /\ invite[i] \in InviteRows /\ t \in Teams /\ role \in ToSet(Roles)
      /\ role = "owner" => invite[i].by \in owners[t]
  BY <1>0, <1>1 DEF InvitesOK, InviteRows
<1>3. CASE invite[i].state # "valid"
  <2>1. End(r) /\ UNCHANGED <<member, team, invite, owners>>
    BY <1>3 DEF AcceptInvite
  <2> QED BY <2>1, EndMoves
<1>4. CASE invite[i].state = "valid"
  <2>1. /\ invite' = [invite EXCEPT ![i].state = "used"] /\ RecordOwners /\ EndWriting(r, t)
        /\ UNCHANGED team
        /\ IF t \in TeamsOf(u) THEN UNCHANGED member ELSE Join(u, t, role)
    BY <1>4 DEF AcceptInvite
  <2> HIDE DEF u, t, role
  <2>2. t \in TeamsOf(u) <=> Joined(member[u], t)
    BY <1>0, <1>1, TeamsAreJoined DEF MembersOK
  <2>3. Changes(u, t) /\ (UNCHANGED member \/ RoleOf(member[u], t) = None)
        /\ (RoleOf(member'[u], t) = "owner" => RoleOf(member[u], t) = "owner" \/ role = "owner")
    <3>1. CASE UNCHANGED member
      BY <1>0, <3>1 DEF Changes, MembersOK
    <3>2. CASE ~Joined(member[u], t) /\ Join(u, t, role)
      <4>1. Changes(u, t) /\ RoleOf(member'[u], t) = role
        BY <1>0, <1>1, <1>2, <3>2, JoinChanges
      <4>2. RoleOf(member[u], t) = None
        BY <1>0, <1>1, <3>2, NoRoleOf DEF MembersOK
      <4> QED BY <4>1, <4>2
    <3> QED BY <2>1, <2>2, <3>1, <3>2
  <2>4. /\ OwnersOK'
        /\ \A x \in Teams : owners[x] \subseteq owners'[x]
        /\ \A x \in Teams : x # t => owners'[x] = owners[x]
        /\ \A v \in owners'[t] \ owners[t] : v = u /\ RoleOf(member'[u], t) = "owner"
    BY <1>0, <1>1, <1>2, <2>1, <2>3, OwnersAreHeirs
  <2>5. \A v \in owners'[t] \ owners[t] : v = u /\ invite[i].by \in owners[t]
    <3>1. RoleOf(member[u], t) = "owner" => u \in owners[t]
      BY <1>0, <1>1, <1>2 DEF OwnersOK
    <3> QED BY <1>2, <2>3, <2>4, <3>1 DEF role
  <2>6. /\ request' \in [Requests -> RequestRecords]
        /\ Granted(request'[r], owners, DOMAIN invite)
        /\ request'[r].pc = "done"
        /\ \A s \in Requests : s # r =>
             /\ request'[s] = request[s] \/ request'[s] = [request[s] EXCEPT !.overtaken = TRUE]
             /\ request[s].pc = "write" /\ request[s].team = t => request'[s].overtaken
    BY <2>1, Overtakes
  <2>7. Named(t) /\ t \in team /\ \A s \in Requests : Founds(s, t) => s = r
    <3>1. Named(t)
      BY <1>1 DEF Named, t
    <3> QED BY <1>2, <3>1 DEF RolesInv, TeamsFounded
  <2>8. /\ DOMAIN invite' = DOMAIN invite
        /\ \A j \in DOMAIN invite :
             /\ invite'[j] \in InviteRows
             /\ invite'[j].team = invite[j].team
             /\ invite'[j].role = invite[j].role
             /\ invite'[j].by = invite[j].by
    <3>1. \A j \in DOMAIN invite : invite[j] \in InviteRows
      BY <1>0 DEF InvitesOK
    <3> QED BY <1>1, <2>1, <3>1 DEF InviteRows
  <2>9. RolesInv'
    <3>1. request'[r].pc \notin {"write", "insert", "owner"}
      BY <2>6
    <3> HIDE DEF i
    <3> QED BY <1>1, <1>2, <2>1, <2>3, <2>4, <2>6, <2>7, <2>8, <3>1, WriteMoves
  <2> QED BY <1>1, <1>2, <2>3, <2>4, <2>5, <2>6, <2>9 DEF u, t
<1> QED BY <1>3, <1>4

\* A change of role and a removal reach the membership they name.
LEMMA OwnersWrite ==
  ASSUME RolesInv, NEW r \in Requests, ChangeRole(r) \/ RemoveMember(r)
  PROVE  LET u == request[r].target
             t == request[r].team
         IN /\ RolesInv'
            /\ request[r].pc = "write" /\ request'[r].pc = "done"
            /\ u \in Users /\ t \in Teams /\ Changes(u, t) /\ request[r].user \in owners[t]
            /\ RemoveMember(r) => RoleOf(member'[u], t) = None
            /\ \A x \in Teams : x # t => owners'[x] = owners[x]
            /\ owners' # owners => request[r].op = "change"
<1> DEFINE u == request[r].target
           t == request[r].team
<1>0. /\ request[r] \in RequestRecords /\ Granted(request[r], owners, DOMAIN invite)
      /\ MembersOK /\ OwnersOK /\ InvitesOK
  BY DEF RolesInv, RequestsGranted
<1>1. request[r].pc = "write" /\ EndWriting(r, t) /\ UNCHANGED <<team, invite>>
  BY DEF ChangeRole, RemoveMember, At
<1>2. u \in Users /\ t \in Teams /\ request[r].user \in owners[t]
  BY <1>0, <1>1 DEF Granted
<1>3. /\ request' \in [Requests -> RequestRecords]
      /\ Granted(request'[r], owners, DOMAIN invite)
      /\ request'[r].pc = "done"
      /\ \A s \in Requests : s # r =>
           /\ request'[s] = request[s] \/ request'[s] = [request[s] EXCEPT !.overtaken = TRUE]
           /\ request[s].pc = "write" /\ request[s].team = t => request'[s].overtaken
  BY <1>1, Overtakes
<1>4. t \in team /\ \A s \in Requests : Founds(s, t) => s = r
  <2>1. Named(t)
    BY <1>2 DEF Named
  <2> QED BY <1>2, <2>1 DEF RolesInv, TeamsFounded
<1>5. Changes(u, t) /\ OwnersOK'
      /\ (\A x \in Teams : owners[x] \subseteq owners'[x])
      /\ (\A x \in Teams : x # t => owners'[x] = owners[x])
      /\ (RemoveMember(r) => RoleOf(member'[u], t) = None)
      /\ (owners' # owners => request[r].op = "change")
  <2>1. CASE ChangeRole(r)
    <3>1. request[r].op = "change" /\ SetRole(u, t, request[r].role) /\ RecordOwners
      BY <2>1 DEF ChangeRole, At
    <3>2. request[r].role \in ToSet(Roles)
      BY <1>0, <1>1, <3>1 DEF Granted
    <3>3. ~RemoveMember(r)
      BY <3>1 DEF RemoveMember, At
    <3> HIDE DEF u, t
    <3>4. Changes(u, t)
      BY <1>0, <1>2, <3>1, <3>2, SetRoleChanges
    <3> QED BY <1>0, <1>2, <3>1, <3>3, <3>4, OwnersAreHeirs
  <2>2. CASE RemoveMember(r)
    <3>1. Leave(u, t) /\ UNCHANGED owners
      BY <2>2 DEF RemoveMember
    <3> HIDE DEF u, t
    <3>2. Changes(u, t) /\ ~Joined(member'[u], t)
      BY <1>0, <1>2, <3>1, LeaveChanges
    <3>3. OneEach(member'[u])
      BY <1>2, <3>2 DEF Changes, MembersOK
    <3>4. RoleOf(member'[u], t) = None
      BY <3>2, <3>3, NoRoleOf
    <3>5. ASSUME NEW v \in Users, NEW x \in Teams, RoleOf(member'[v], x) = "owner"
          PROVE  v \in owners'[x]
      <4>1. RoleOf(member[v], x) = "owner"
        BY <3>2, <3>4, <3>5, RoleNames DEF Changes
      <4> QED BY <1>0, <3>1, <4>1 DEF OwnersOK
    <3>6. OwnersOK'
      BY <1>0, <3>1, <3>5 DEF OwnersOK
    <3> QED BY <3>1, <3>2, <3>4, <3>6
  <2> QED BY <2>1, <2>2
<1>6. RolesInv'
  <2>1. \A i \in DOMAIN invite : invite[i] \in InviteRows
    BY <1>0 DEF InvitesOK
  <2>2. request'[r].pc \notin {"write", "insert", "owner"}
    BY <1>3
  <2> HIDE DEF u, t
  <2> QED BY <1>1, <1>2, <1>3, <1>4, <1>5, <2>1, <2>2, WriteMoves
<1> QED BY <1>1, <1>2, <1>3, <1>5, <1>6

----------------------------------------------------------------------------
(* The other rows, the initial states and the invariant                     *)

LEMMA TeamsMoves ==
  ASSUME RolesInv, NEW r \in Requests, InsertTeam(r)
  PROVE  RolesInv'
<1>1. PICK t \in Teams \ team :
        /\ team' = team \union {t}
        /\ request' = [request EXCEPT ![r].pc = "owner", ![r].team = t]
  BY DEF InsertTeam
<1> DEFINE q == [[request[r] EXCEPT !.pc = "owner"] EXCEPT !.team = t]
<1>0. /\ request[r] \in RequestRecords /\ Granted(request[r], owners, DOMAIN invite)
      /\ request \in [Requests -> RequestRecords] /\ request[r].pc = "team"
      /\ UNCHANGED <<member, invite, owners>>
  BY DEF RolesInv, RequestsGranted, InsertTeam
<1>2. request' = [request EXCEPT ![r] = q]
  BY <1>0, <1>1
<1>3. q \in RequestRecords /\ q.pc = "owner" /\ q.team = t /\ q.user = request[r].user
  BY <1>0 DEF RequestRecords, Pcs
<1> HIDE DEF q
<1>4. \A s \in Requests : request'[s] = IF s = r THEN q ELSE request[s]
  BY <1>0, <1>2
<1>5. RequestsGranted'
  <2>1. Granted(q, owners, DOMAIN invite) /\ Spares(q, member)
    BY <1>0, <1>3 DEF Granted, Spares
  <2> QED BY <1>0, <1>2, <1>3, <1>4, <2>1 DEF RolesInv, RequestsGranted
<1>6. ~Named(t) /\ \A s \in Requests : ~Founds(s, t)
  BY <1>1 DEF RolesInv, TeamsFounded
<1>7. ASSUME NEW x \in Teams, Named(x)' PROVE Named(x)
  BY <1>0, <1>3, <1>4, <1>7 DEF Named
<1>8. \A s \in Requests, x \in Teams :
        Founds(s, x)' => Founds(s, x) \/ (s = r /\ x = t)
  BY <1>3, <1>4 DEF Founds
<1>9. TeamsFounded'
  BY <1>1, <1>6, <1>7, <1>8 DEF RolesInv, TeamsFounded
<1> QED BY <1>0, <1>5, <1>9 DEF RolesInv, MembersOK, OwnersOK, InvitesOK

LEMMA InvitesMoves ==
  ASSUME RolesInv, NEW r \in Requests, CreateInvite(r)
  PROVE  RolesInv'
<1>1. PICK i \in Invites \ DOMAIN invite :
        invite' = [j \in DOMAIN invite \union {i} |->
          IF j = i THEN [team |-> request[r].team, role |-> request[r].role,
                         by |-> request[r].user, state |-> "valid"]
                   ELSE invite[j]]
  BY DEF CreateInvite
<1> DEFINE row == [team |-> request[r].team, role |-> request[r].role,
                   by |-> request[r].user, state |-> "valid"]
           t == request[r].team
<1>0. /\ Granted(request[r], owners, DOMAIN invite) /\ request[r].pc = "insert"
      /\ request \in [Requests -> RequestRecords]
      /\ UNCHANGED <<member, team, owners>> /\ request' = [request EXCEPT ![r] = Done]
  BY DEF RolesInv, RequestsGranted, CreateInvite, At, End
<1>2. /\ row \in InviteRows /\ row.team = t
      /\ row.role = "owner" => row.by \in owners[row.team]
  BY <1>0 DEF Granted, InviteRows
<1>3. /\ DOMAIN invite' = DOMAIN invite \union {i}
      /\ \A j \in DOMAIN invite : invite'[j] = invite[j]
      /\ invite'[i] = row
  BY <1>1
<1> HIDE DEF row
<1>4. InvitesOK'
  BY <1>0, <1>2, <1>3 DEF RolesInv, InvitesOK
<1>5. \A s \in Requests : request'[s] = IF s = r THEN Done ELSE request[s]
  BY <1>0
<1>6. RequestsGranted'
  <2>1. \A s \in Requests : Granted(request[s], owners, DOMAIN invite')
    <3> TAKE s \in Requests
    <3>1. Granted(request[s], owners, DOMAIN invite)
      BY DEF RolesInv, RequestsGranted
    <3> QED BY <1>3, <3>1, GrantedStays
  <2> QED BY <1>0, <1>5, <2>1, DoneIsFine DEF RolesInv, RequestsGranted
<1>7. Named(t)
  BY <1>0 DEF Named
<1>8. ASSUME NEW x \in Teams, Named(x)' PROVE Named(x)
  BY <1>0, <1>2, <1>3, <1>5, <1>7, <1>8, DoneIsFine DEF Named
<1>9. \A s \in Requests, x \in Teams : Founds(s, x)' => Founds(s, x)
  BY <1>5, DoneIsFine DEF Founds
<1>10. TeamsFounded'
  BY <1>0, <1>8, <1>9 DEF RolesInv, TeamsFounded
<1> QED BY <1>0, <1>4, <1>6, <1>10 DEF RolesInv, MembersOK, OwnersOK

LEMMA ExpiryMoves ==
  ASSUME RolesInv, NEW i \in Invites, Expire(i)
  PROVE  RolesInv'
<1>1. /\ i \in DOMAIN invite /\ invite' = [invite EXCEPT ![i].state = "expired"]
      /\ UNCHANGED <<member, team, owners, request>>
  BY DEF Expire
<1>2. \A j \in DOMAIN invite : invite[j] \in InviteRows
  BY DEF RolesInv, InvitesOK
<1>3. /\ DOMAIN invite' = DOMAIN invite
      /\ \A j \in DOMAIN invite :
           /\ invite'[j] \in InviteRows /\ invite'[j].team = invite[j].team
           /\ invite'[j].role = invite[j].role /\ invite'[j].by = invite[j].by
  BY <1>1, <1>2 DEF InviteRows
<1>4. InvitesOK'
  BY <1>1, <1>3 DEF RolesInv, InvitesOK
<1>5. \A x \in Teams : Named(x)' => Named(x)
  BY <1>1, <1>3 DEF Named
<1>6. TeamsFounded'
  BY <1>1, <1>5 DEF RolesInv, TeamsFounded, Founds
<1> QED BY <1>1, <1>3, <1>4, <1>6 DEF RolesInv, MembersOK, OwnersOK, RequestsGranted

LEMMA RolesStart == Init => RolesInv
<1> SUFFICES ASSUME Init PROVE RolesInv
  OBVIOUS
<1>1. MembersOK
  <2>1. member \in [Users -> Seq(Memberships)]
        /\ \A u \in Users : \A k, n \in 1..Len(member[u]) :
             member[u][k].team = member[u][n].team => k = n
    BY InitialAssumption DEF Init
  <2> QED BY <2>1 DEF MembersOK, OneEach
<1>2. \A u \in Users, t \in Teams : Joined(member[u], t) => t \in team
  <2> SUFFICES ASSUME NEW u \in Users, NEW t \in Teams, Joined(member[u], t) PROVE t \in team
    OBVIOUS
  <2>1. PICK k \in 1..Len(member[u]) : member[u][k].team = t
    BY DEF Joined
  <2>2. member[u][k] \in ToSet(member[u])
    BY <1>1 DEF MembersOK, ToSet
  <2>3. member[u][k] \in UNION {ToSet(member[v]) : v \in Users}
    BY <2>2
  <2> QED BY <2>1, <2>3 DEF Init
<1>3. \A t \in Teams : owners[t] =
        {u \in Users : [team |-> t, role |-> "owner"] \in ToSet(member[u])}
  BY DEF Init
<1>4. OwnersOK
  <2>1. owners \in [Teams -> SUBSET Users]
    BY DEF Init
  <2>2. ASSUME NEW u \in Users, NEW t \in Teams, RoleOf(member[u], t) = "owner"
        PROVE  u \in owners[t]
    <3>1. "owner" # None
      BY RoleNames
    <3>2. PICK k \in 1..Len(member[u]) : member[u][k].team = t /\ member[u][k].role = "owner"
      BY <1>1, <2>2, <3>1, RoleHasEntry DEF MembersOK
    <3>3. member[u][k] \in Memberships /\ member[u][k] \in ToSet(member[u])
      BY <1>1 DEF MembersOK, ToSet
    <3>4. member[u][k] = [team |-> t, role |-> "owner"]
      BY <3>2, <3>3 DEF Memberships
    <3> QED BY <1>3, <3>3, <3>4
  <2> QED BY <2>1, <2>2 DEF OwnersOK
<1>5. InvitesOK
  BY DEF Init, InvitesOK
<1>6. \A r \in Requests : request[r] = Fresh
  BY DEF Init
<1>7. RequestsGranted
  <2>1. Fresh \in RequestRecords /\ Granted(Fresh, owners, DOMAIN invite) /\ Spares(Fresh, member)
    BY DEF Fresh, RequestRecords, Pcs, Granted, Spares
  <2>2. request = [r \in Requests |-> Fresh]
    BY DEF Init
  <2> QED BY <2>1, <2>2 DEF RequestsGranted
<1>8. TeamsFounded
  <2>1. ASSUME NEW t \in Teams, Named(t) PROVE t \in team
    <3>1. CASE \E u \in Users : Joined(member[u], t)
      BY <1>2, <3>1
    <3>2. CASE owners[t] # {}
      <4>1. PICK u \in Users : [team |-> t, role |-> "owner"] \in ToSet(member[u])
        BY <1>3, <3>2
      <4>2. Joined(member[u], t)
        BY <1>1, <4>1 DEF MembersOK, ToSet, Joined
      <4> QED BY <1>2, <4>2
    <3>3. DOMAIN invite = {} /\ \A r \in Requests : request[r].pc = "new"
      BY <1>6 DEF Init, Fresh
    <3> QED BY <2>1, <3>1, <3>2, <3>3 DEF Named
  <2>2. \A r \in Requests, t \in Teams : ~Founds(r, t)
    BY <1>6 DEF Fresh, Founds
  <2> QED BY <2>1, <2>2 DEF TeamsFounded
<1> QED BY <1>1, <1>4, <1>5, <1>7, <1>8 DEF RolesInv

LEMMA RolesStep == RolesInv /\ [Next]_vars => RolesInv'
<1> SUFFICES ASSUME RolesInv, [Next]_vars PROVE RolesInv'
  OBVIOUS
<1>1. CASE UNCHANGED vars
  BY <1>1 DEF vars, RolesInv, MembersOK, OwnersOK, InvitesOK, RequestsGranted, TeamsFounded,
              Named, Founds
<1>2. CASE \E i \in Invites : Expire(i)
  BY <1>2, ExpiryMoves
<1>3. CASE \E r \in Requests : Handle(r)
  BY <1>3, QuietSteps, TeamsMoves, FoundersWrite, InvitesMoves, GuestsWrite, OwnersWrite
     DEF Handle
<1> QED BY <1>1, <1>2, <1>3 DEF Next

\* Whoever has a role was given it, and a request that has passed the middleware
\* goes by a role that its user has had: the invariant behind the three below.
THEOREM RolesAreGiven == Spec => []RolesInv
BY RolesStart, RolesStep, PTL DEF Spec

\* The steps that write no membership.
LEMMA OtherSteps ==
  ASSUME RolesInv, [Next]_vars
  PROVE  \/ UNCHANGED <<member, owners>>
         \/ \E r \in Requests :
              InsertOwner(r) \/ AcceptInvite(r) \/ ChangeRole(r) \/ RemoveMember(r)
<1>1. CASE UNCHANGED vars
  BY <1>1 DEF vars
<1>2. CASE \E i \in Invites : Expire(i)
  BY <1>2 DEF Expire
<1>3. CASE \E r \in Requests : Handle(r)
  BY <1>3, ZenonT(60) DEF Handle, Login, WithSession, Send, AuthorizeMembers, AuthorizeInvite, CheckCreator,
              CountTeams, InsertTeam, Crash, CreateSession, RevokeSession, CreateInvite,
              LookupInvite, ReadTarget, CountOwners, KeepRows
<1> QED BY <1>1, <1>2, <1>3 DEF Next

LEMMA RoleChangesStep ==
  ASSUME RolesInv, [Next]_vars, NEW u \in Users, NEW t \in Teams,
         RoleOf(member[u], t) # None, RoleOf(member'[u], t) # None,
         RoleOf(member'[u], t) # RoleOf(member[u], t)
  PROVE  \E r \in Requests :
           /\ At(r, "change", "write") /\ request'[r].pc = "done"
           /\ request[r].user \in owners[t]
<1>1. ~UNCHANGED member
  OBVIOUS
<1>2. PICK r \in Requests :
        InsertOwner(r) \/ AcceptInvite(r) \/ ChangeRole(r) \/ RemoveMember(r)
  BY <1>1, OtherSteps
<1>3. ASSUME NEW v, NEW x, Changes(v, x) PROVE u = v /\ t = x
  BY <1>3 DEF Changes
<1>4. CASE InsertOwner(r)
  BY <1>3, <1>4, FoundersWrite
<1>5. CASE AcceptInvite(r)
  BY <1>1, <1>3, <1>5, GuestsWrite
<1>6. CASE RemoveMember(r)
  BY <1>3, <1>6, OwnersWrite
<1>7. CASE ChangeRole(r)
  <2>1. /\ request'[r].pc = "done" /\ request[r].user \in owners[request[r].team]
        /\ Changes(request[r].target, request[r].team)
    BY <1>7, OwnersWrite
  <2>2. At(r, "change", "write") /\ request[r].team = t
    BY <1>3, <1>7, <2>1 DEF ChangeRole
  <2> QED BY <2>1, <2>2
<1> QED BY <1>2, <1>4, <1>5, <1>6, <1>7

\* The role of a member is changed only by a request of someone who has been an
\* owner: accepting an invitation never raises or lowers who is a member by then.
THEOREM OwnersChangeRoles == Spec => OnlyOwnersChangeRoles
<1>1. ASSUME RolesInv, [Next]_vars
      PROVE  \A u \in Users, t \in Teams :
               (RoleIn(u, t) # None /\ RoleIn(u, t)' # None /\ RoleIn(u, t)' # RoleIn(u, t)) =>
                 \E r \in Requests :
                   /\ At(r, "change", "write") /\ request'[r].pc = "done"
                   /\ request[r].user \in owners[t]
  BY <1>1, RoleChangesStep, RoleIsOf
<1> QED BY <1>1, RolesAreGiven, PTL DEF Spec, OnlyOwnersChangeRoles

LEMMA OwnersLostStep ==
  ASSUME RolesInv, [Next]_vars, NEW t \in Teams, NEW o \in Users,
         RoleOf(member[o], t) = "owner",
         \A v \in Users : RoleOf(member'[v], t) # "owner"
  PROVE  \E r \in Requests :
           /\ request[r].pc = "write" /\ request'[r].pc = "done"
           /\ request[r].team = t /\ request[r].overtaken
<1>1. ~UNCHANGED member
  OBVIOUS
<1>2. PICK r \in Requests :
        InsertOwner(r) \/ AcceptInvite(r) \/ ChangeRole(r) \/ RemoveMember(r)
  BY <1>1, OtherSteps
<1>3. ASSUME NEW v, NEW x, Changes(v, x)
      PROVE  v = o /\ x = t
  BY <1>3 DEF Changes
<1>4. "owner" # None
  BY RoleNames
<1>5. CASE InsertOwner(r)
  BY <1>3, <1>4, <1>5, FoundersWrite
<1>6. CASE AcceptInvite(r)
  BY <1>1, <1>3, <1>4, <1>6, GuestsWrite
<1>7. CASE ChangeRole(r) \/ RemoveMember(r)
  <2>1. /\ request[r].pc = "write" /\ request'[r].pc = "done"
        /\ Changes(request[r].target, request[r].team)
    BY <1>7, OwnersWrite
  <2>2. request[r].target = o /\ request[r].team = t
    BY <1>3, <2>1
  <2>3. Spares(request[r], member) /\ request[r] \in RequestRecords
    BY DEF RolesInv, RequestsGranted
  <2>4. ASSUME ~request[r].overtaken PROVE FALSE
    <3>1. PICK v \in Users : v # o /\ RoleOf(member[v], t) = "owner"
      BY <2>1, <2>2, <2>3, <2>4 DEF Spares
    <3>2. RoleOf(member'[v], t) = "owner"
      BY <2>1, <2>2, <3>1 DEF Changes
    <3> QED BY <3>2
  <2> QED BY <2>1, <2>2, <2>4
<1> QED BY <1>2, <1>5, <1>6, <1>7

\* A team loses its last owner only to a request that another write to its
\* memberships has overtaken: one change or removal on its own never does it.
THEOREM OwnersLostByRace == Spec => OwnersLostOnlyByRace
<1>1. ASSUME RolesInv, [Next]_vars
      PROVE  \A t \in Teams :
               (OwnersOf(t) # {} /\ OwnersOf(t)' = {}) =>
                 \E r \in Requests :
                   /\ request[r].pc = "write" /\ request'[r].pc = "done"
                   /\ request[r].team = t /\ request[r].overtaken
  <2> SUFFICES ASSUME NEW t \in Teams, OwnersOf(t) # {}, OwnersOf(t)' = {}
               PROVE  \E r \in Requests :
                        /\ request[r].pc = "write" /\ request'[r].pc = "done"
                        /\ request[r].team = t /\ request[r].overtaken
    OBVIOUS
  <2>1. PICK o \in Users : RoleOf(member[o], t) = "owner"
    BY RoleIsOf DEF OwnersOf
  <2>2. \A v \in Users : RoleOf(member'[v], t) # "owner"
    BY RoleIsOf DEF OwnersOf
  <2> QED BY <1>1, <2>1, <2>2, OwnersLostStep
<1> QED BY <1>1, RolesAreGiven, PTL DEF Spec, OwnersLostOnlyByRace

LEMMA OwnersMadeStep ==
  ASSUME RolesInv, [Next]_vars, NEW t \in Teams, NEW u \in owners'[t] \ owners[t]
  PROVE  \E r \in Requests :
           /\ request[r].pc # request'[r].pc
           /\ \/ request[r].pc = "owner" /\ request[r].user = u /\ owners[t] = {}
              \/ request[r].op = "change" /\ request[r].user \in owners[t]
              \/ request[r].op = "accept" /\ invite[request[r].invite].by \in owners[t]
<1>1. owners' # owners
  OBVIOUS
<1>2. PICK r \in Requests :
        InsertOwner(r) \/ AcceptInvite(r) \/ ChangeRole(r) \/ RemoveMember(r)
  BY <1>1, OtherSteps
<1>3. CASE InsertOwner(r)
  <2>1. t = request[r].team
    BY <1>3, FoundersWrite
  <2> QED BY <1>3, <2>1, FoundersWrite
<1>4. CASE AcceptInvite(r)
  <2>1. t = invite[request[r].invite].team
    BY <1>1, <1>4, GuestsWrite
  <2> QED BY <1>1, <1>4, <2>1, GuestsWrite
<1>5. CASE ChangeRole(r) \/ RemoveMember(r)
  <2>1. t = request[r].team
    BY <1>5, OwnersWrite
  <2> QED BY <1>1, <1>5, <2>1, OwnersWrite
<1> QED BY <1>2, <1>3, <1>4, <1>5

\* Nobody becomes an owner except as the maker of the team or by the act of
\* someone who has been an owner of that team, whatever requests run side by side.
THEOREM OwnersComeFromOwners == Spec => OwnersMakeOwners
<1>1. ASSUME RolesInv, [Next]_vars
      PROVE  \A t \in Teams : \A u \in owners'[t] \ owners[t] :
               \E r \in Requests :
                 /\ request[r].pc # request'[r].pc
                 /\ \/ request[r].pc = "owner" /\ request[r].user = u /\ owners[t] = {}
                    \/ request[r].op = "change" /\ request[r].user \in owners[t]
                    \/ request[r].op = "accept" /\ invite[request[r].invite].by \in owners[t]
  BY <1>1, OwnersMadeStep
<1> QED BY <1>1, RolesAreGiven, PTL DEF Spec, OwnersMakeOwners

----------------------------------------------------------------------------
(* Rows and their keys                                                      *)

\* Who has signed in is a user, and every team has its row in the table.
RowsAreTyped == team \subseteq Teams /\ signedIn \subseteq Users

LEMMA RowsTypedStart == Init => RowsAreTyped
<1> SUFFICES ASSUME Init PROVE RowsAreTyped
  OBVIOUS
<1>1. ASSUME NEW u \in Users, NEW m \in ToSet(member[u]) PROVE m.team \in Teams
  <2>1. member[u] \in Seq(Memberships)
    BY InitialAssumption DEF Init
  <2>2. m \in Memberships
    BY <2>1 DEF ToSet
  <2> QED BY <2>2 DEF Memberships
<1>2. team \subseteq Teams
  BY <1>1 DEF Init
<1> QED BY <1>2 DEF Init, RowsAreTyped

LEMMA RowsTypedStep == RolesInv /\ RowsAreTyped /\ [Next]_vars => RowsAreTyped'
<1> SUFFICES ASSUME RolesInv, RowsAreTyped, [Next]_vars PROVE RowsAreTyped'
  OBVIOUS
<1>1. CASE UNCHANGED vars
  BY <1>1 DEF vars, RowsAreTyped
<1>2. CASE \E i \in Invites : Expire(i)
  BY <1>2 DEF Expire, RowsAreTyped
<1>3. ASSUME NEW r \in Requests, Handle(r) PROVE RowsAreTyped'
  <2>1. CASE InsertTeam(r)
    BY <2>1 DEF InsertTeam, RowsAreTyped
  <2>2. CASE CreateSession(r)
    <3>1. request[r].user \in Users
      BY <2>2 DEF CreateSession, At, RolesInv, RequestsGranted, Granted
    <3> QED BY <2>2, <3>1 DEF CreateSession, RowsAreTyped
  <2>3. CASE RevokeSession(r)
    BY <2>3 DEF RevokeSession, RowsAreTyped
  <2>4. CASE UNCHANGED <<team, signedIn>>
    BY <2>4 DEF RowsAreTyped
  <2> QED BY <1>3, <2>1, <2>2, <2>3, <2>4
          DEF Handle, Login, WithSession, Send, AuthorizeMembers, AuthorizeInvite, CheckCreator,
              CountTeams, InsertOwner, Crash, CreateInvite, LookupInvite, AcceptInvite,
              ReadTarget, CountOwners, ChangeRole, RemoveMember, KeepRows
<1> QED BY <1>1, <1>2, <1>3 DEF Next

\* One membership for each team: as many teams as memberships.
LEMMA OneEachCounted ==
  ASSUME NEW s, OneEach(s)
  PROVE  Cardinality({m.team : m \in ToSet(s)}) = Len(s)
<1> DEFINE T == {m.team : m \in ToSet(s)}
           f == [k \in 1..Len(s) |-> s[k].team]
<1>1. Len(s) \in Nat /\ DOMAIN s = 1..Len(s)
  BY DEF OneEach
<1>2. IsFiniteSet(1..Len(s)) /\ Cardinality(1..Len(s)) = Len(s)
  <2>1. \A n \in Nat : IsFiniteSet(1..n) /\ Cardinality(1..n) = IF 1 > n THEN 0 ELSE n - 1 + 1
    <3> TAKE n \in Nat
    <3>1. 1 \in Int /\ n \in Int
      OBVIOUS
    <3> QED BY ONLY <3>1, FS_Interval
  <2> QED BY <1>1, <2>1
<1>3. f \in Bijection(1..Len(s), T)
  <2>1. \A k \in 1..Len(s) : s[k].team \in T
    BY <1>1 DEF ToSet
  <2>2. \A t \in T : \E k \in 1..Len(s) : s[k].team = t
    BY <1>1 DEF ToSet
  <2> HIDE DEF T
  <2> QED BY <2>1, <2>2 DEF OneEach, Bijection, Injection, Surjection, IsInjective
<1>4. ExistsBijection(1..Len(s), T)
  BY <1>3 DEF ExistsBijection
<1> HIDE DEF T
<1>5. Cardinality(T) = Cardinality(1..Len(s))
  BY <1>2, <1>4, FS_Bijection
<1> QED BY <1>2, <1>5 DEF T

\* Rows keep their types and keys: one membership per user and team, and no
\* membership or invitation of a team that is not there.
THEOREM RowsKeepTheirKeys == Spec => []TypeOK
<1>1. RolesInv /\ RowsAreTyped => TypeOK
  <2> SUFFICES ASSUME RolesInv, RowsAreTyped PROVE TypeOK
    OBVIOUS
  <2>0. /\ \A u \in Users : OneEach(member[u])
        /\ \A t \in Teams : Named(t) => t \in team
    BY DEF RolesInv, MembersOK, TeamsFounded
  <2>1. \A u \in Users : \A k \in DOMAIN member[u] : member[u][k] \in Memberships
    BY <2>0 DEF OneEach
  <2>2. \A u \in Users : Cardinality(TeamsOf(u)) = Len(member[u])
    BY <2>0, OneEachCounted DEF TeamsOf
  <2>3. ASSUME NEW u \in Users, NEW t \in TeamsOf(u) PROVE t \in team
    <3>1. Joined(member[u], t)
      BY <2>0, <2>3, TeamsAreJoined
    <3>2. t \in Teams
      <4>1. PICK k \in 1..Len(member[u]) : member[u][k].team = t
        BY <3>1 DEF Joined
      <4>2. member[u][k] \in Memberships
        BY <2>0 DEF OneEach
      <4> QED BY <4>1, <4>2 DEF Memberships
    <3> QED BY <2>0, <3>1, <3>2 DEF Named
  <2>4. ASSUME NEW i \in DOMAIN invite
        PROVE  invite[i] \in [team : team, role : ToSet(Roles), by : Users,
                              state : {"valid", "used", "expired"}]
    <3>1. invite[i] \in InviteRows
      BY DEF RolesInv, InvitesOK
    <3>2. invite[i].team \in team
      BY <2>0, <3>1 DEF Named, InviteRows
    <3> QED BY <3>1, <3>2 DEF InviteRows
  <2>5. \A t \in Teams : OwnersOf(t) \subseteq owners[t]
    BY RoleIsOf DEF OwnersOf, RolesInv, OwnersOK
  <2> QED BY <2>1, <2>2, <2>3, <2>4, <2>5 DEF TypeOK, RowsAreTyped
<1> QED BY <1>1, RowsTypedStart, RowsTypedStep, RolesAreGiven, PTL DEF Spec

----------------------------------------------------------------------------
(* API keys over the pool                                                   *)

KeyStates == {"absent", "live", "revoked"}
Connections == [mode : {"auto", "open", "aborted"}, writes : [Keys -> {Nil, "live", "revoked"}]]
Turns ==
  [pc : Statements \union {"new", "answered", "failed"},
   op : DOMAIN First \union {Nil}, key : Keys \union {Nil}, heir : Keys \union {Nil},
   conn : Conns \union {Nil}, ran : SUBSET Conns, overlapped : BOOLEAN]

\* Where the statements of a rotation are, before its key is minted and at all.
BeforeMint == {"insert", "begin", "update", "mint"}
Rotating == {"read", "begin", "update", "mint", "commit", "rollback"}

\* What a request brings to its statement.
TurnOK(t) ==
  /\ t \in Turns
  /\ t.pc = "new" => t = Unsent
  /\ t.pc \in Statements => (t.op = "rotate" <=> t.pc \in Rotating)
  /\ t.pc \in {"lookup", "revoke"} \union Rotating => t.key \in Keys
  /\ t.pc \in {"lookup", "revoke", "read"} => t.heir = Nil
  /\ t.pc \in {"insert", "begin", "update", "mint", "commit"} => t.heir \in Keys

Typed ==
  /\ key \in [Keys -> KeyStates]
  /\ tx \in [Conns -> Connections]
  /\ \A c \in Conns : tx[c].mode # "open" => tx[c].writes = NoWrites
  /\ idle \in Seq(Conns)
  /\ DOMAIN turn = KeyRequests
  /\ \A r \in KeyRequests : TurnOK(turn[r])

Held(c, k) == tx[c].writes[k] # Nil

\* Of a key that has not been minted there is nothing anywhere; a key is minted once,
\* changed on one connection at a time, and is new where it is held back as live.
Rows ==
  /\ \A r \in KeyRequests, q \in KeyRequests :
       r # q /\ turn[r].heir # Nil => turn[r].heir # turn[q].heir
  /\ \A r \in KeyRequests : turn[r].pc \in BeforeMint =>
       key[turn[r].heir] = "absent" /\ \A c \in Conns : ~Held(c, turn[r].heir)
  /\ \A k \in Keys : ~Taken(k) => \A c \in Conns : ~Held(c, k)
  /\ \A c \in Conns, d \in Conns, k \in Keys : c # d /\ Held(c, k) => ~Held(d, k)
  /\ \A c \in Conns, k \in Keys : tx[c].writes[k] = "live" => key[k] = "absent"

\* How far a rotation has come that is alone and has run on connection c.
Progress(pc, old, heir, rows, x) ==
  /\ pc \in {"begin", "update"} =>
       \/ x.writes[old] = "live"
       \/ x.writes[old] = Nil /\ rows[old] = "live"
  /\ pc \in {"begin", "update", "mint", "commit"} => rows[old] # "revoked"
  /\ pc \in {"update", "mint", "commit"} => x.mode = "open"
  /\ pc \in {"mint", "commit"} => x.writes[old] = "revoked"
  /\ pc = "commit" => x.writes[heir] = "live"

\* It runs on one connection, which is the one that became idle last.
Alone(t) ==
  \/ t.ran = {} /\ t.pc = "read" /\ t.conn = Nil
  \/ \E c \in Conns :
       /\ t.ran = {c}
       /\ t.conn = c \/ (t.conn = Nil /\ idle # << >> /\ idle[Len(idle)] = c)
       /\ Progress(t.pc, t.key, t.heir, key, tx[c])

Lone ==
  \A r \in KeyRequests : turn[r].pc \in Statements /\ ~turn[r].overlapped =>
    /\ \A q \in KeyRequests : turn[q].pc \in Statements => q = r
    /\ turn[r].op = "rotate" => Alone(turn[r])

KeysInv == Typed /\ Rows /\ Lone

----------------------------------------------------------------------------

LEMMA StatementSets ==
  /\ Rotating \subseteq Statements /\ BeforeMint \subseteq Statements
  /\ "new" \notin Statements /\ "answered" \notin Statements /\ "failed" \notin Statements
BY DEF Rotating, BeforeMint, Statements

\* A statement has run on c: its connection is idle, its request goes on as t.
LEMMA ReleaseIs ==
  ASSUME Typed, NEW r \in KeyRequests, turn[r].conn \in Conns, NEW pc, Release(r, pc)
  PROVE  \E t : /\ turn' = [turn EXCEPT ![r] = t]
                /\ DOMAIN turn' = KeyRequests /\ turn'[r] = t
                /\ \A q \in KeyRequests : q # r => turn'[q] = turn[q]
                /\ t = [[turn[r] EXCEPT !.pc = pc] EXCEPT !.conn = Nil]
                /\ (pc \in Statements \union {"answered", "failed"} => t \in Turns)
                /\ t.pc = pc /\ t.conn = Nil /\ t.op = turn[r].op /\ t.key = turn[r].key
                /\ t.heir = turn[r].heir /\ t.ran = turn[r].ran /\ t.overlapped = turn[r].overlapped
                /\ idle' = Append(idle, turn[r].conn) /\ idle' \in Seq(Conns)
                /\ idle' # << >> /\ idle'[Len(idle')] = turn[r].conn
<1> DEFINE t == [[turn[r] EXCEPT !.pc = pc] EXCEPT !.conn = Nil]
<1>0. turn[r] \in Turns /\ idle \in Seq(Conns) /\ DOMAIN turn = KeyRequests
  BY DEF Typed, TurnOK
<1>1. turn' = [turn EXCEPT ![r] = t]
  BY <1>0 DEF Release, Turns
<1>2. idle' = Append(idle, turn[r].conn)
  BY DEF Release
<1>3. idle' \in Seq(Conns) /\ idle' # << >> /\ idle'[Len(idle')] = turn[r].conn
  BY <1>0, <1>2, AppendProperties
<1>4. pc \in Statements \union {"answered", "failed"} => t \in Turns
  BY <1>0 DEF Turns
<1>5. /\ t.pc = pc /\ t.conn = Nil /\ t.op = turn[r].op /\ t.key = turn[r].key
      /\ t.heir = turn[r].heir /\ t.ran = turn[r].ran /\ t.overlapped = turn[r].overlapped
  BY <1>0 DEF Turns
<1>6. t = [[turn[r] EXCEPT !.pc = pc] EXCEPT !.conn = Nil]
  OBVIOUS
<1> HIDE DEF t
<1>7. /\ DOMAIN turn' = KeyRequests /\ turn'[r] = t
      /\ \A q \in KeyRequests : q # r => turn'[q] = turn[q]
  BY <1>0, <1>1
<1> QED BY <1>1, <1>2, <1>3, <1>4, <1>5, <1>6, <1>7

\* One row is written, by the only one who holds it.
LEMMA WriteKeeps ==
  ASSUME Typed, Rows, NEW c \in Conns, NEW k \in Keys, NEW state \in {"live", "revoked"},
         Write(c, k, state), tx[c].mode # "aborted",
         \A d \in Conns : d # c => ~Held(d, k),
         state = "live" => key[k] = "absent"
  PROVE  /\ key' \in [Keys -> KeyStates]
         /\ tx' \in [Conns -> Connections]
         /\ \A d \in Conns : tx'[d].mode = tx[d].mode
                             /\ (tx'[d].mode # "open" => tx'[d].writes = NoWrites)
         /\ \A j \in Keys : j # k => key'[j] = key[j]
                              /\ \A d \in Conns : tx'[d].writes[j] = tx[d].writes[j]
         /\ \A d \in Conns : d # c => tx'[d] = tx[d]
         /\ tx[c].mode = "open" => tx'[c].writes[k] = state /\ key' = key
         /\ tx[c].mode # "open" => key'[k] = state /\ tx' = tx
         /\ \A d \in Conns : tx'[d].writes[k] = "live" => key'[k] = "absent"
<1>0. /\ key \in [Keys -> KeyStates] /\ tx \in [Conns -> Connections]
      /\ \A d \in Conns : tx[d].mode # "open" => tx[d].writes = NoWrites
  BY DEF Typed
<1>1. CASE tx[c].mode = "open"
  <2> DEFINE w == [tx[c].writes EXCEPT ![k] = state]
             x == [tx[c] EXCEPT !.writes = w]
  <2>1. tx' = [tx EXCEPT ![c] = x] /\ key' = key
    BY <1>0, <1>1 DEF Write, Connections
  <2>2. w \in [Keys -> {Nil, "live", "revoked"}] /\ w[k] = state
        /\ \A j \in Keys : j # k => w[j] = tx[c].writes[j]
    BY <1>0 DEF Connections
  <2> HIDE DEF w
  <2>3. x \in Connections /\ x.mode = "open" /\ x.writes = w
    BY <1>0, <1>1, <2>2 DEF Connections
  <2> HIDE DEF x
  <2>4. tx'[c] = x /\ \A d \in Conns : d # c => tx'[d] = tx[d]
    BY <1>0, <2>1
  <2>5. tx' \in [Conns -> Connections]
    BY <1>0, <2>1, <2>3
  <2>6. ASSUME NEW d \in Conns, tx'[d].writes[k] = "live" PROVE key'[k] = "absent"
    <3>1. CASE d = c
      BY <2>1, <2>2, <2>3, <2>4, <2>6, <3>1
    <3>2. CASE d # c
      BY <2>4, <2>6, <3>2, KeysAssumption DEF Held
    <3> QED BY <3>1, <3>2
  <2> QED BY <1>0, <1>1, <2>1, <2>2, <2>3, <2>4, <2>5, <2>6
<1>2. CASE tx[c].mode # "open"
  <2>1. key' = [key EXCEPT ![k] = state] /\ tx' = tx
    BY <1>2 DEF Write
  <2>2. \A d \in Conns : ~Held(d, k)
    BY <1>0, <1>2 DEF Held, NoWrites
  <2> QED BY <1>0, <1>2, <2>1, <2>2, KeysAssumption DEF KeyStates, Held
<1> QED BY <1>1, <1>2

\* The same heirs, and nobody is before his mint who was not.
SameHeirs ==
  \A q \in KeyRequests :
    turn'[q].heir = turn[q].heir /\ (turn'[q].pc \in BeforeMint => turn[q].pc \in BeforeMint)

LEMMA RowsShrink ==
  ASSUME Typed, Rows, key' = key, SameHeirs,
         \A d \in Conns : tx'[d].writes = tx[d].writes \/ tx'[d].writes = NoWrites
  PROVE  Rows'
<1>1. \A d \in Conns, k \in Keys : tx'[d].writes[k] = tx[d].writes[k] \/ tx'[d].writes[k] = Nil
  BY DEF NoWrites
<1>2. \A k \in Keys : Taken(k)' <=> Taken(k)
  BY DEF Taken, SameHeirs
<1>3. \A r \in KeyRequests : turn[r].pc \in BeforeMint => turn[r].heir \in Keys
  BY DEF Typed, TurnOK, BeforeMint
<1> QED BY <1>1, <1>2, <1>3, KeysAssumption DEF Rows, Held, SameHeirs

LEMMA RowsWritten ==
  ASSUME Typed, Rows, SameHeirs,
         NEW c \in Conns, NEW k \in Keys, NEW state \in {"live", "revoked"},
         Write(c, k, state), tx[c].mode # "aborted", Taken(k),
         \A d \in Conns : d # c => ~Held(d, k),
         state = "live" => key[k] = "absent",
         \A q \in KeyRequests : turn'[q].pc \in BeforeMint => turn'[q].heir # k
  PROVE  Rows'
<1>1. /\ \A j \in Keys : j # k => key'[j] = key[j]
                              /\ \A d \in Conns : tx'[d].writes[j] = tx[d].writes[j]
      /\ \A d \in Conns : d # c => tx'[d] = tx[d]
      /\ \A d \in Conns : tx'[d].writes[k] = "live" => key'[k] = "absent"
      /\ tx[c].mode = "open" => key' = key
      /\ tx[c].mode # "open" => key'[k] = state
  BY WriteKeeps
<1>2. ASSUME NEW j \in Keys, Taken(j) PROVE Taken(j)'
  <2>1. CASE \E r \in KeyRequests : turn[r].heir = j
    BY <2>1 DEF Taken, SameHeirs
  <2>2. CASE key[j] # "absent"
    <3>1. key'[j] # "absent"
      BY <1>1, <2>2
    <3> QED BY <3>1 DEF Taken
  <2> QED BY <1>2, <2>1, <2>2 DEF Taken
<1>3. \A r \in KeyRequests : turn[r].pc \in BeforeMint => turn[r].heir \in Keys
  BY DEF Typed, TurnOK, BeforeMint
<1>4. \A r \in KeyRequests : turn'[r].pc \in BeforeMint =>
        key'[turn'[r].heir] = "absent" /\ \A d \in Conns : ~Held(d, turn[r].heir)'
  BY <1>1, <1>3 DEF Rows, Held, SameHeirs
<1>5. \A j \in Keys : ~Taken(j)' => \A d \in Conns : ~Held(d, j)'
  BY <1>1, <1>2 DEF Rows, Held
<1>6. \A d \in Conns, e \in Conns, j \in Keys : d # e /\ Held(d, j)' => ~Held(e, j)'
  BY <1>1 DEF Rows, Held
<1>7. \A d \in Conns, j \in Keys : tx'[d].writes[j] = "live" => key'[j] = "absent"
  BY <1>1 DEF Rows
<1> QED BY <1>4, <1>5, <1>6, <1>7 DEF Rows, SameHeirs, Held

LEMMA RowsCommitted ==
  ASSUME Typed, Rows, SameHeirs, NEW c \in Conns,
         key' = View(c), tx' = [tx EXCEPT ![c] = Autocommit]
  PROVE  Rows'
<1>1. /\ \A d \in Conns : d # c => tx'[d] = tx[d]
      /\ \A k \in Keys : tx'[c].writes[k] = Nil
      /\ \A k \in Keys : key'[k] = IF Held(c, k) THEN tx[c].writes[k] ELSE key[k]
  BY DEF Typed, Autocommit, NoWrites, View, Held
<1>2. \A k \in Keys : Held(c, k) => key'[k] # "absent"
  BY <1>1 DEF Typed, Connections, Held
<1>3. ASSUME NEW j \in Keys, Taken(j) PROVE Taken(j)'
  <2>1. CASE \E r \in KeyRequests : turn[r].heir = j
    BY <2>1 DEF Taken, SameHeirs
  <2>2. CASE key[j] # "absent"
    <3>1. key'[j] # "absent"
      BY <1>1, <1>2, <2>2
    <3> QED BY <3>1 DEF Taken
  <2> QED BY <1>3, <2>1, <2>2 DEF Taken
<1>4. \A r \in KeyRequests : turn[r].pc \in BeforeMint => turn[r].heir \in Keys
  BY DEF Typed, TurnOK, BeforeMint
<1>5. \A r \in KeyRequests : turn'[r].pc \in BeforeMint =>
        key'[turn'[r].heir] = "absent" /\ \A d \in Conns : ~Held(d, turn[r].heir)'
  BY <1>1, <1>4 DEF Rows, Held, SameHeirs
<1>6. \A d \in Conns, j \in Keys : Held(d, j)' => d # c /\ Held(d, j)
  BY <1>1 DEF Held
<1>7. \A j \in Keys : ~Taken(j)' => \A d \in Conns : ~Held(d, j)'
  BY <1>3, <1>6 DEF Rows
<1>8. \A d \in Conns, e \in Conns, j \in Keys : d # e /\ Held(d, j)' => ~Held(e, j)'
  BY <1>6 DEF Rows
<1>9. \A d \in Conns, j \in Keys : tx'[d].writes[j] = "live" => key'[j] = "absent"
  <2> TAKE d \in Conns, j \in Keys
  <2> HAVE tx'[d].writes[j] = "live"
  <2>1. d # c /\ tx[d].writes[j] = "live" /\ Held(d, j)
    BY <1>1, KeysAssumption DEF Held
  <2>2. ~Held(c, j) /\ key[j] = "absent"
    BY <2>1 DEF Rows
  <2> QED BY <1>1, <2>2
<1> QED BY <1>5, <1>7, <1>8, <1>9 DEF Rows, SameHeirs, Held

\* The statement of a lone rotation takes it one step further on its connection; that
\* of another request cannot be.
LEMMA LoneGoesOn ==
  ASSUME Typed, Lone, NEW r \in KeyRequests, turn[r].pc \in Statements, NEW c \in Conns,
         turn[r].conn = c, NEW t, turn'[r] = t,
         \A q \in KeyRequests : q # r => turn'[q] = turn[q],
         t.op = turn[r].op, t.ran = turn[r].ran, t.overlapped = turn[r].overlapped,
         t.conn = Nil, idle' # << >>, idle'[Len(idle')] = c,
         t.pc \in Statements /\ t.op = "rotate" /\ Progress(turn[r].pc, turn[r].key, turn[r].heir, key, tx[c])
           => Progress(t.pc, t.key, t.heir, key', tx'[c])
  PROVE  Lone'
<1> SUFFICES ASSUME NEW p \in KeyRequests, turn'[p].pc \in Statements, ~turn'[p].overlapped
             PROVE  /\ \A q \in KeyRequests : turn'[q].pc \in Statements => q = p
                    /\ turn'[p].op = "rotate" => Alone(turn[p])'
  BY DEF Lone
<1>1. p = r
  BY DEF Lone
<1>2. \A q \in KeyRequests : turn'[q].pc \in Statements => q = p
  BY <1>1 DEF Lone
<1>3. ASSUME t.op = "rotate" PROVE Alone(turn[p])'
  <2>1. Alone(turn[r])
    BY <1>1, <1>3 DEF Lone
  <2>2. turn[r].ran = {c} /\ Progress(turn[r].pc, turn[r].key, turn[r].heir, key, tx[c])
    BY <2>1, KeysAssumption DEF Alone
  <2>3. Progress(t.pc, t.key, t.heir, key', tx'[c])
    BY <1>1, <1>3, <2>2
  <2> QED BY <1>1, <2>2, <2>3 DEF Alone, Progress
<1> QED BY <1>1, <1>2, <1>3

\* A statement of r has run on c, and r goes on at pc.
LEMMA StatementRan ==
  ASSUME Typed, Lone, NEW r \in KeyRequests, NEW c \in Conns, turn[r].conn = c,
         turn[r].pc \in Statements,
         NEW pc \in {"update", "mint", "commit", "rollback", "answered", "failed"}, Release(r, pc),
         pc \in Statements => turn[r].pc \in {"begin", "update", "mint"},
         key' \in [Keys -> KeyStates], tx' \in [Conns -> Connections],
         \A d \in Conns : tx'[d].mode # "open" => tx'[d].writes = NoWrites,
         pc \in Statements /\ Progress(turn[r].pc, turn[r].key, turn[r].heir, key, tx[c])
           => Progress(pc, turn[r].key, turn[r].heir, key', tx'[c]),
         pc \in BeforeMint => turn[r].pc \in BeforeMint
  PROVE  /\ Typed' /\ SameHeirs /\ Lone' /\ turn'[r].pc = pc
         /\ \A q \in KeyRequests : q # r => turn'[q] = turn[q]
<1>1. PICK t :
        /\ turn' = [turn EXCEPT ![r] = t]
        /\ DOMAIN turn' = KeyRequests /\ turn'[r] = t
        /\ \A q \in KeyRequests : q # r => turn'[q] = turn[q]
        /\ t = [[turn[r] EXCEPT !.pc = pc] EXCEPT !.conn = Nil]
        /\ (pc \in Statements \union {"answered", "failed"} => t \in Turns)
        /\ t.pc = pc /\ t.conn = Nil /\ t.op = turn[r].op /\ t.key = turn[r].key
        /\ t.heir = turn[r].heir /\ t.ran = turn[r].ran /\ t.overlapped = turn[r].overlapped
        /\ idle' = Append(idle, turn[r].conn) /\ idle' \in Seq(Conns)
        /\ idle' # << >> /\ idle'[Len(idle')] = turn[r].conn
  BY ReleaseIs
<1>2. TurnOK(turn[r]) /\ t \in Turns
  BY <1>1 DEF Typed, Statements
<1>3. TurnOK(t)
  BY <1>1, <1>2 DEF TurnOK, Statements, Rotating
<1>4. \A q \in KeyRequests : TurnOK(turn'[q])
  BY <1>1, <1>3 DEF Typed
<1>5. Typed'
  BY <1>1, <1>4 DEF Typed
<1>6. t.pc \in Statements /\ t.op = "rotate" /\ Progress(turn[r].pc, turn[r].key, turn[r].heir, key, tx[c])
        => Progress(t.pc, t.key, t.heir, key', tx'[c])
  BY <1>1
<1>7. idle' # << >> /\ idle'[Len(idle')] = c
  BY <1>1
<1>8. /\ turn'[r] = t /\ \A q \in KeyRequests : q # r => turn'[q] = turn[q]
      /\ t.op = turn[r].op /\ t.ran = turn[r].ran /\ t.overlapped = turn[r].overlapped /\ t.conn = Nil
  BY <1>1
<1>9. Lone'
  BY <1>6, <1>7, <1>8, LoneGoesOn
<1> QED BY <1>1, <1>5, <1>9 DEF SameHeirs

LEMMA ResolveStep ==
  ASSUME KeysInv, NEW r \in KeyRequests, ResolveTokenHash(r) PROVE KeysInv'
<1> DEFINE c == turn[r].conn
<1>1. TurnOK(turn[r]) /\ Typed /\ Rows /\ Lone
  BY DEF KeysInv, Typed
<1>2. c \in Conns /\ turn[r].pc = "lookup" /\ turn[r].pc \in Statements
  BY <1>1 DEF ResolveTokenHash, AtStep, TurnOK, Turns, Statements
<1>3. PICK pc \in {"answered", "failed"} : Release(r, pc)
  BY DEF ResolveTokenHash
<1>4. UNCHANGED <<key, tx>>
  BY DEF ResolveTokenHash
<1> HIDE DEF c
<1>5. Typed' /\ SameHeirs /\ Lone'
  BY <1>1, <1>2, <1>3, <1>4, StatementSets, StatementRan DEF Typed, BeforeMint, c
<1>6. Rows'
  BY <1>1, <1>4, <1>5, RowsShrink
<1> QED BY <1>5, <1>6 DEF KeysInv

LEMMA MintStep ==
  ASSUME KeysInv, NEW r \in KeyRequests, Mint(r) PROVE KeysInv'
<1> DEFINE c == turn[r].conn
           k == turn[r].heir
<1>1. TurnOK(turn[r]) /\ Typed /\ Rows /\ Lone
  BY DEF KeysInv, Typed
<1>2. c \in Conns /\ turn[r].pc = "insert" /\ turn[r].pc \in Statements
  BY <1>1 DEF Mint, AtStep, TurnOK, Turns, Statements
<1>3. k \in Keys /\ key[k] = "absent" /\ \A d \in Conns : ~Held(d, k)
  BY <1>1, <1>2 DEF TurnOK, Rows, BeforeMint
<1>4. Release(r, "answered") /\ Write(c, k, "live") /\ tx[c].mode # "aborted"
  BY DEF Mint
<1> HIDE DEF c
<1>5. /\ key' \in [Keys -> KeyStates] /\ tx' \in [Conns -> Connections]
      /\ \A d \in Conns : tx'[d].mode # "open" => tx'[d].writes = NoWrites
  <2> HIDE DEF k
  <2> QED BY <1>1, <1>2, <1>3, <1>4, WriteKeeps
<1>6. /\ Typed' /\ SameHeirs /\ Lone' /\ turn'[r].pc = "answered"
      /\ \A q \in KeyRequests : q # r => turn'[q] = turn[q]
  BY <1>1, <1>2, <1>4, <1>5, StatementSets, StatementRan DEF BeforeMint, c
<1>7. Taken(k) /\ \A q \in KeyRequests : turn'[q].pc \in BeforeMint => turn'[q].heir # k
  BY <1>1, <1>3, <1>6, StatementSets, KeysAssumption DEF Taken, Rows
<1>8. Rows'
  <2> HIDE DEF k
  <2> QED BY <1>1, <1>2, <1>3, <1>4, <1>6, <1>7, RowsWritten
<1> QED BY <1>6, <1>8 DEF KeysInv

LEMMA MintHeirStep ==
  ASSUME KeysInv, NEW r \in KeyRequests, MintHeir(r) PROVE KeysInv'
<1> DEFINE c == turn[r].conn
           k == turn[r].heir
           o == turn[r].key
<1>1. TurnOK(turn[r]) /\ Typed /\ Rows /\ Lone
  BY DEF KeysInv, Typed
<1>2. c \in Conns /\ turn[r].pc = "mint" /\ turn[r].pc \in Statements
  BY <1>1 DEF MintHeir, AtStep, TurnOK, Turns, Statements
<1>3. k \in Keys /\ o \in Keys /\ key[k] = "absent" /\ \A d \in Conns : ~Held(d, k)
  BY <1>1, <1>2 DEF TurnOK, Rows, BeforeMint, Rotating
<1>4. Release(r, "commit") /\ Write(c, k, "live") /\ tx[c].mode # "aborted"
  BY DEF MintHeir
<1>5. Progress("mint", o, k, key, tx[c]) => tx[c].mode = "open" /\ tx[c].writes[o] = "revoked" /\ o # k
                                            /\ key[o] # "revoked"
  BY <1>2, <1>3, KeysAssumption DEF Progress, Held
<1> HIDE DEF c, k, o
<1>6. /\ key' \in [Keys -> KeyStates] /\ tx' \in [Conns -> Connections]
      /\ \A d \in Conns : tx'[d].mode = tx[d].mode
      /\ \A d \in Conns : tx'[d].mode # "open" => tx'[d].writes = NoWrites
      /\ \A j \in Keys : j # k => \A d \in Conns : tx'[d].writes[j] = tx[d].writes[j]
      /\ tx[c].mode = "open" => tx'[c].writes[k] = "live" /\ key' = key
  BY <1>1, <1>2, <1>3, <1>4, WriteKeeps
<1>7. Progress("mint", o, k, key, tx[c]) => Progress("commit", o, k, key', tx'[c])
  BY <1>2, <1>3, <1>5, <1>6 DEF Progress
<1>8. /\ Typed' /\ SameHeirs /\ Lone' /\ turn'[r].pc = "commit"
      /\ \A q \in KeyRequests : q # r => turn'[q] = turn[q]
  BY <1>1, <1>2, <1>4, <1>6, <1>7, StatementSets, StatementRan DEF BeforeMint, c, k, o
<1>9. Taken(k) /\ \A q \in KeyRequests : turn'[q].pc \in BeforeMint => turn'[q].heir # k
  BY <1>1, <1>3, <1>8, KeysAssumption DEF Taken, Rows, BeforeMint, k
<1>10. Rows'
  BY <1>1, <1>2, <1>3, <1>4, <1>8, <1>9, RowsWritten
<1> QED BY <1>8, <1>10 DEF KeysInv

\* A row that a statement finds is no key that is still to be minted.
LEMMA FoundIsTaken ==
  ASSUME KeysInv, NEW c \in Conns, NEW k \in Keys, View(c)[k] # "absent"
  PROVE  Taken(k) /\ \A q \in KeyRequests : turn[q].pc \in BeforeMint => turn[q].heir # k
<1>1. Held(c, k) \/ key[k] # "absent"
  BY DEF View, Held
<1> QED BY <1>1 DEF KeysInv, Rows, Taken

LEMMA RevokeStep ==
  ASSUME KeysInv, NEW r \in KeyRequests, Revoke(r) PROVE KeysInv'
<1> DEFINE c == turn[r].conn
           k == turn[r].key
<1>1. TurnOK(turn[r]) /\ Typed /\ Rows /\ Lone
  BY DEF KeysInv, Typed
<1>2. c \in Conns /\ turn[r].pc = "revoke" /\ turn[r].pc \in Statements /\ k \in Keys
  BY <1>1 DEF Revoke, AtStep, TurnOK, Turns, Statements
<1>3. tx[c].mode # "aborted" /\ \A d \in Conns : d # c => ~Held(d, k)
  BY DEF Revoke, Locked, Held
<1>4. CASE View(c)[k] = "live"
  <2>1. Release(r, "answered") /\ Write(c, k, "revoked")
    BY <1>4 DEF Revoke
  <2> HIDE DEF c, k
  <2>2. /\ key' \in [Keys -> KeyStates] /\ tx' \in [Conns -> Connections]
        /\ \A d \in Conns : tx'[d].mode # "open" => tx'[d].writes = NoWrites
    BY <1>1, <1>2, <1>3, <2>1, WriteKeeps
  <2>3. /\ Typed' /\ SameHeirs /\ Lone' /\ turn'[r].pc = "answered"
        /\ \A q \in KeyRequests : q # r => turn'[q] = turn[q]
    BY <1>1, <1>2, <2>1, <2>2, StatementSets, StatementRan DEF BeforeMint, c
  <2>4. Taken(k) /\ \A q \in KeyRequests : turn[q].pc \in BeforeMint => turn[q].heir # k
    BY <1>2, <1>4, FoundIsTaken
  <2>5. Rows'
    BY <1>1, <1>2, <1>3, <2>1, <2>3, <2>4, RowsWritten DEF SameHeirs
  <2> QED BY <2>3, <2>5 DEF KeysInv
<1>5. CASE View(c)[k] # "live"
  <2>1. Release(r, "failed") /\ UNCHANGED <<key, tx>>
    BY <1>5 DEF Revoke
  <2> HIDE DEF c, k
  <2>2. Typed' /\ SameHeirs /\ Lone'
    BY <1>1, <1>2, <2>1, StatementSets, StatementRan DEF Typed, BeforeMint, c
  <2>3. Rows'
    BY <1>1, <2>1, <2>2, RowsShrink
  <2> QED BY <2>2, <2>3 DEF KeysInv
<1> QED BY <1>4, <1>5

LEMMA RevokeOldStep ==
  ASSUME KeysInv, NEW r \in KeyRequests, RevokeOld(r) PROVE KeysInv'
<1> DEFINE c == turn[r].conn
           k == turn[r].key
           h == turn[r].heir
<1>1. TurnOK(turn[r]) /\ Typed /\ Rows /\ Lone
  BY DEF KeysInv, Typed
<1>2. c \in Conns /\ turn[r].pc = "update" /\ turn[r].pc \in Statements /\ k \in Keys
  BY <1>1 DEF RevokeOld, AtStep, TurnOK, Turns, Statements, Rotating
<1>3. /\ tx[c].mode # "aborted" /\ Release(r, "mint")
      /\ \A d \in Conns : d # c => ~Held(d, k)
  BY DEF RevokeOld, Locked, Held
<1>4. CASE View(c)[k] # "absent"
  <2>1. Write(c, k, "revoked")
    BY <1>4 DEF RevokeOld
  <2> HIDE DEF c, k, h
  <2>2. /\ key' \in [Keys -> KeyStates] /\ tx' \in [Conns -> Connections]
        /\ \A d \in Conns : tx'[d].mode = tx[d].mode
        /\ \A d \in Conns : tx'[d].mode # "open" => tx'[d].writes = NoWrites
        /\ tx[c].mode = "open" => tx'[c].writes[k] = "revoked" /\ key' = key
    BY <1>1, <1>2, <1>3, <2>1, WriteKeeps
  <2>3. Progress("update", k, h, key, tx[c]) => Progress("mint", k, h, key', tx'[c])
    BY <1>2, <2>2 DEF Progress
  <2>4. /\ Typed' /\ SameHeirs /\ Lone'
        /\ \A q \in KeyRequests : q # r => turn'[q] = turn[q]
    BY <1>1, <1>2, <1>3, <2>2, <2>3, StatementSets, StatementRan DEF BeforeMint, c, k, h
  <2>5. Taken(k) /\ \A q \in KeyRequests : turn[q].pc \in BeforeMint => turn[q].heir # k
    BY <1>2, <1>4, FoundIsTaken
  <2>6. Rows'
    BY <1>1, <1>2, <1>3, <2>1, <2>4, <2>5, RowsWritten DEF SameHeirs
  <2> QED BY <2>4, <2>6 DEF KeysInv
<1>5. CASE View(c)[k] = "absent"
  <2>1. UNCHANGED <<key, tx>>
    BY <1>5 DEF RevokeOld
  <2>2. ~Progress("update", k, h, key, tx[c])
    BY <1>2, <1>5, KeysAssumption DEF Progress, View
  <2> HIDE DEF c, k, h
  <2>3. Typed' /\ SameHeirs /\ Lone'
    BY <1>1, <1>2, <1>3, <2>1, <2>2, StatementSets, StatementRan DEF Typed, BeforeMint, c, k, h
  <2>4. Rows'
    BY <1>1, <2>1, <2>3, RowsShrink
  <2> QED BY <2>3, <2>4 DEF KeysInv
<1> QED BY <1>4, <1>5

LEMMA BeginStep ==
  ASSUME KeysInv, NEW r \in KeyRequests, Begin(r) PROVE KeysInv'
<1> DEFINE c == turn[r].conn
           k == turn[r].key
           h == turn[r].heir
           x == [tx[c] EXCEPT !.mode = "open"]
<1>1. TurnOK(turn[r]) /\ Typed /\ Rows /\ Lone
  BY DEF KeysInv, Typed
<1>2. c \in Conns /\ turn[r].pc = "begin" /\ turn[r].pc \in Statements /\ k \in Keys
  BY <1>1 DEF Begin, AtStep, TurnOK, Turns, Statements, Rotating
<1>3. x \in Connections /\ x.mode = "open" /\ x.writes = tx[c].writes
  BY <1>1, <1>2 DEF Typed, Connections
<1>4. /\ tx' = IF tx[c].mode = "auto" THEN [tx EXCEPT ![c] = x] ELSE tx
      /\ Release(r, IF tx[c].mode = "aborted" THEN "failed" ELSE "update") /\ key' = key
  BY <1>1, <1>2 DEF Begin, Typed
<1> HIDE DEF x
<1>5. /\ tx' \in [Conns -> Connections] /\ key' \in [Keys -> KeyStates]
      /\ \A d \in Conns : tx'[d].mode # "open" => tx'[d].writes = NoWrites
      /\ \A d \in Conns : tx'[d].writes = tx[d].writes
  BY <1>1, <1>3, <1>4 DEF Typed
<1>6. tx[c].mode # "aborted" => tx'[c].mode = "open"
  BY <1>1, <1>2, <1>3, <1>4 DEF Typed, Connections
<1>7. tx[c].mode # "aborted" /\ Progress("begin", k, h, key, tx[c]) => Progress("update", k, h, key', tx'[c])
  BY <1>2, <1>4, <1>5, <1>6 DEF Progress
<1> HIDE DEF c, k, h
<1>8. Typed' /\ SameHeirs /\ Lone'
  <2>1. CASE tx[c].mode = "aborted"
    BY <1>1, <1>2, <1>4, <1>5, <2>1, StatementSets, StatementRan DEF BeforeMint, c
  <2>2. CASE tx[c].mode # "aborted"
    BY <1>1, <1>2, <1>4, <1>5, <1>7, <2>2, StatementSets, StatementRan DEF BeforeMint, c, k, h
  <2> QED BY <2>1, <2>2
<1>9. Rows'
  BY <1>1, <1>4, <1>5, <1>8, RowsShrink
<1> QED BY <1>8, <1>9 DEF KeysInv

LEMMA NothingOpen ==
  Autocommit \in Connections /\ Autocommit.writes = NoWrites /\ Autocommit.mode = "auto"
  /\ [mode |-> "aborted", writes |-> NoWrites] \in Connections
BY DEF Autocommit, Connections, NoWrites

LEMMA CommitStep ==
  ASSUME KeysInv, NEW r \in KeyRequests, Commit(r) PROVE KeysInv'
<1> DEFINE c == turn[r].conn
<1>1. TurnOK(turn[r]) /\ Typed /\ Rows /\ Lone
  BY DEF KeysInv, Typed
<1>2. c \in Conns /\ turn[r].pc = "commit" /\ turn[r].pc \in Statements
  BY <1>1 DEF Commit, AtStep, TurnOK, Turns, Statements
<1>3. key' = View(c) /\ tx' = [tx EXCEPT ![c] = Autocommit] /\ Release(r, "answered")
  BY DEF Commit
<1> HIDE DEF c
<1>4. View(c) \in [Keys -> KeyStates]
  BY <1>1, <1>2 DEF View, Typed, Connections, KeyStates
<1>5. /\ tx' \in [Conns -> Connections] /\ key' \in [Keys -> KeyStates]
      /\ \A d \in Conns : tx'[d].mode # "open" => tx'[d].writes = NoWrites
  BY <1>1, <1>2, <1>3, <1>4, NothingOpen DEF Typed
<1>6. Typed' /\ SameHeirs /\ Lone'
  BY <1>1, <1>2, <1>3, <1>5, StatementSets, StatementRan DEF BeforeMint, c
<1>7. Rows'
  BY <1>1, <1>2, <1>3, <1>6, RowsCommitted
<1> QED BY <1>6, <1>7 DEF KeysInv

LEMMA RollbackStep ==
  ASSUME KeysInv, NEW r \in KeyRequests, Rollback(r) PROVE KeysInv'
<1> DEFINE c == turn[r].conn
<1>1. TurnOK(turn[r]) /\ Typed /\ Rows /\ Lone
  BY DEF KeysInv, Typed
<1>2. c \in Conns /\ turn[r].pc = "rollback" /\ turn[r].pc \in Statements
  BY <1>1 DEF Rollback, AtStep, TurnOK, Turns, Statements
<1>3. key' = key /\ tx' = [tx EXCEPT ![c] = Autocommit] /\ Release(r, "failed")
  BY DEF Rollback
<1> HIDE DEF c
<1>4. /\ tx' \in [Conns -> Connections] /\ key' \in [Keys -> KeyStates]
      /\ \A d \in Conns : tx'[d].mode # "open" => tx'[d].writes = NoWrites
      /\ \A d \in Conns : tx'[d].writes = tx[d].writes \/ tx'[d].writes = NoWrites
  BY <1>1, <1>2, <1>3, NothingOpen DEF Typed
<1>5. Typed' /\ SameHeirs /\ Lone'
  BY <1>1, <1>2, <1>3, <1>4, StatementSets, StatementRan DEF BeforeMint, c
<1>6. Rows'
  BY <1>1, <1>3, <1>4, <1>5, RowsShrink
<1> QED BY <1>5, <1>6 DEF KeysInv

LEMMA RefusedStep ==
  ASSUME KeysInv, NEW r \in KeyRequests, Refused(r) PROVE KeysInv'
<1> DEFINE c == turn[r].conn
           pc == IF turn[r].pc \in {"update", "mint"} THEN "rollback" ELSE "failed"
           x == [mode |-> "aborted", writes |-> NoWrites]
<1>1. TurnOK(turn[r]) /\ Typed /\ Rows /\ Lone
  BY DEF KeysInv, Typed
<1>2. c \in Conns /\ turn[r].pc \in Statements
  BY <1>1 DEF Refused, Running, TurnOK, Turns
<1>3. /\ key' = key /\ Release(r, pc)
      /\ tx' = IF tx[c].mode = "auto" THEN tx ELSE [tx EXCEPT ![c] = x]
  BY DEF Refused
<1>4. /\ pc \in {"rollback", "failed"} /\ pc \notin BeforeMint
      /\ (pc \in Statements => turn[r].pc \in {"update", "mint"})
  BY DEF Statements, BeforeMint
<1>5. x \in Connections /\ x.writes = NoWrites
  BY NothingOpen
<1> HIDE DEF c, pc, x
<1>6. /\ tx' \in [Conns -> Connections] /\ key' \in [Keys -> KeyStates]
      /\ \A d \in Conns : tx'[d].mode # "open" => tx'[d].writes = NoWrites
      /\ \A d \in Conns : tx'[d].writes = tx[d].writes \/ tx'[d].writes = NoWrites
  BY <1>1, <1>2, <1>3, <1>5 DEF Typed
<1>7. Progress(pc, turn[r].key, turn[r].heir, key', tx'[c])
  BY <1>4 DEF Progress
<1>8. Typed' /\ SameHeirs /\ Lone'
  BY <1>1, <1>2, <1>3, <1>4, <1>6, <1>7, StatementRan, ZenonT(60) DEF c
<1>9. Rows'
  BY <1>1, <1>3, <1>6, <1>8, RowsShrink
<1> QED BY <1>8, <1>9 DEF KeysInv

\* The request r alone changes, to t, and has got the new key it has there.
LEMMA RowsTaken ==
  ASSUME Typed, Rows, UNCHANGED <<key, tx>>, NEW r \in KeyRequests, NEW t,
         turn'[r] = t, \A q \in KeyRequests : q # r => turn'[q].heir = turn[q].heir
                                                     /\ turn'[q].pc = turn[q].pc,
         \/ t.heir = Nil /\ turn[r].heir = Nil /\ t.pc \notin BeforeMint
         \/ t.heir \in Unused /\ turn[r].heir = Nil
         \/ t.heir = turn[r].heir /\ t.pc = turn[r].pc
  PROVE  Rows'
<1>1. CASE SameHeirs
  BY <1>1, RowsShrink
<1>2. CASE t.heir \in Unused /\ turn[r].heir = Nil
  <2>1. t.heir \in Keys /\ ~Taken(t.heir)
    BY <1>2 DEF Unused
  <2>2. /\ key[t.heir] = "absent" /\ \A d \in Conns : ~Held(d, t.heir)
        /\ \A q \in KeyRequests : turn[q].heir # t.heir
    BY <2>1 DEF Rows, Taken
  <2>3. \A k \in Keys : Taken(k) => Taken(k)'
    BY <1>2, KeysAssumption DEF Taken
  <2>4. \A p \in KeyRequests, q \in KeyRequests :
          p # q /\ turn'[p].heir # Nil => turn'[p].heir # turn'[q].heir
    BY <2>2 DEF Rows
  <2>5. \A q \in KeyRequests : turn'[q].pc \in BeforeMint =>
          key'[turn'[q].heir] = "absent" /\ \A d \in Conns : tx'[d].writes[turn'[q].heir] = Nil
    BY <2>2 DEF Rows, Held
  <2> QED BY <2>3, <2>4, <2>5 DEF Rows, Held
<1>3. CASE t.heir = turn[r].heir /\ (t.pc \notin BeforeMint \/ t.pc = turn[r].pc)
  BY <1>1, <1>3 DEF SameHeirs
<1> QED BY <1>2, <1>3

LEMMA ReadKeyStep ==
  ASSUME KeysInv, NEW r \in KeyRequests, ReadKey(r) PROVE KeysInv'
<1> DEFINE c == turn[r].conn
           k == turn[r].key
<1>1. TurnOK(turn[r]) /\ Typed /\ Rows /\ Lone
  BY DEF KeysInv, Typed
<1>2. c \in Conns /\ turn[r].pc = "read" /\ turn[r].pc \in Statements /\ k \in Keys
      /\ turn[r].op = "rotate" /\ turn[r].heir = Nil /\ turn[r] \in Turns
  BY <1>1 DEF ReadKey, AtStep, TurnOK, Turns, Statements, Rotating
<1>3. idle' = Append(idle, c) /\ UNCHANGED <<key, tx>>
  BY DEF ReadKey
<1>4. idle' \in Seq(Conns) /\ idle' # << >> /\ idle'[Len(idle')] = c
  BY <1>1, <1>2, <1>3, AppendProperties DEF Typed
<1>5. \E t : /\ turn' = [turn EXCEPT ![r] = t] /\ TurnOK(t)
             /\ t.op = turn[r].op /\ t.ran = turn[r].ran /\ t.overlapped = turn[r].overlapped
             /\ t.conn = Nil /\ t.key = k
             /\ \/ t.heir = Nil /\ t.pc = "failed"
                \/ t.heir \in Unused /\ t.pc = "begin" /\ View(c)[k] = "live"
  <2>1. CASE View(c)[k] = "live"
    <3>1. PICK n \in Unused :
            turn' = [turn EXCEPT ![r].pc = "begin", ![r].heir = n, ![r].conn = Nil]
      BY <2>1 DEF ReadKey
    <3> DEFINE t == [[[turn[r] EXCEPT !.pc = "begin"] EXCEPT !.heir = n] EXCEPT !.conn = Nil]
    <3>2. turn' = [turn EXCEPT ![r] = t]
      BY <1>1, <1>2, <3>1 DEF Typed, Turns
    <3>3. n \in Keys
      BY DEF Unused
    <3>4. /\ t \in Turns /\ t.pc = "begin" /\ t.heir = n /\ t.conn = Nil /\ t.op = turn[r].op
          /\ t.ran = turn[r].ran /\ t.overlapped = turn[r].overlapped /\ t.key = k
      BY <1>2, <3>3 DEF Turns, Statements
    <3> HIDE DEF t
    <3>5. TurnOK(t)
      BY <1>2, <3>3, <3>4 DEF TurnOK, Statements, Rotating
    <3> QED BY <2>1, <3>2, <3>4, <3>5
  <2>2. CASE View(c)[k] # "live"
    <3> DEFINE t == [[turn[r] EXCEPT !.pc = "failed"] EXCEPT !.conn = Nil]
    <3>1. turn' = [turn EXCEPT ![r] = t]
      BY <1>1, <1>2, <2>2 DEF ReadKey, Typed, Turns
    <3>2. /\ t \in Turns /\ t.pc = "failed" /\ t.heir = Nil /\ t.conn = Nil /\ t.op = turn[r].op
          /\ t.ran = turn[r].ran /\ t.overlapped = turn[r].overlapped /\ t.key = k
      BY <1>2 DEF Turns
    <3> HIDE DEF t
    <3>3. TurnOK(t)
      BY <3>2 DEF TurnOK, Statements, Rotating
    <3> QED BY <3>1, <3>2, <3>3
  <2> QED BY <2>1, <2>2
<1>6. PICK t : /\ turn' = [turn EXCEPT ![r] = t] /\ TurnOK(t)
               /\ t.op = turn[r].op /\ t.ran = turn[r].ran /\ t.overlapped = turn[r].overlapped
               /\ t.conn = Nil /\ t.key = k
               /\ \/ t.heir = Nil /\ t.pc = "failed"
                  \/ t.heir \in Unused /\ t.pc = "begin" /\ View(c)[k] = "live"
  BY <1>5
<1>7. /\ DOMAIN turn' = KeyRequests /\ turn'[r] = t
      /\ \A q \in KeyRequests : q # r => turn'[q] = turn[q]
  BY <1>1, <1>6 DEF Typed
<1>8. Typed'
  BY <1>1, <1>3, <1>4, <1>6, <1>7 DEF Typed
<1>9. Rows'
  BY <1>1, <1>2, <1>3, <1>6, <1>7, RowsTaken DEF BeforeMint
<1>10. t.pc = "begin" => Progress(t.pc, t.key, t.heir, key', tx'[c])
  BY <1>1, <1>2, <1>3, <1>6, KeysAssumption DEF Progress, View, Rows
<1> HIDE DEF c, k
<1>11. t.pc \in Statements /\ t.op = "rotate" => Progress(t.pc, t.key, t.heir, key', tx'[c])
  BY <1>6, <1>10, StatementSets
<1>12. Lone'
  BY <1>1, <1>2, <1>4, <1>6, <1>7, <1>11, LoneGoesOn DEF c
<1> QED BY <1>8, <1>9, <1>12 DEF KeysInv

LEMMA ArriveStep ==
  ASSUME KeysInv, NEW r \in KeyRequests, Arrive(r) PROVE KeysInv'
<1>1. Typed /\ Rows /\ Lone /\ turn[r] = Unsent /\ turn[r].pc = "new"
  BY DEF KeysInv, Typed, TurnOK, Arrive
<1>2. PICK op \in DOMAIN First, k \in Keys :
        /\ IF op = "mint" THEN k \in Unused ELSE Taken(k)
        /\ turn' = [q \in KeyRequests |->
             IF q = r THEN [Unsent EXCEPT !.pc = First[op], !.op = op, !.overlapped = Running # {},
                              !.key = IF op = "mint" THEN Nil ELSE k,
                              !.heir = IF op = "mint" THEN k ELSE Nil]
             ELSE [turn[q] EXCEPT !.overlapped = @ \/ q \in Running]]
  BY DEF Arrive
<1>3. UNCHANGED <<key, tx, idle>>
  BY DEF Arrive
<1> DEFINE t == [pc |-> First[op], op |-> op, key |-> IF op = "mint" THEN Nil ELSE k,
                 heir |-> IF op = "mint" THEN k ELSE Nil, conn |-> Nil, ran |-> {},
                 overlapped |-> Running # {}]
           u(q) == [turn[q] EXCEPT !.overlapped = turn[q].overlapped \/ q \in Running]
<1>4. DOMAIN turn' = KeyRequests /\ turn'[r] = t
  BY <1>2 DEF Unsent
<1>5. \A q \in KeyRequests : q # r => turn'[q] = u(q)
  BY <1>2
<1>6. /\ op \in {"use", "mint", "revoke", "rotate"}
      /\ First[op] \in {"lookup", "insert", "revoke", "read"}
      /\ (First[op] = "read" <=> op = "rotate") /\ (First[op] = "insert" <=> op = "mint")
  <2>1. /\ First["use"] = "lookup" /\ First["mint"] = "insert" /\ First["revoke"] = "revoke"
        /\ First["rotate"] = "read" /\ DOMAIN First = {"use", "mint", "revoke", "rotate"}
    BY DEF First
  <2>2. op \in {"use", "mint", "revoke", "rotate"}
    BY <2>1
  <2> QED BY <2>1, <2>2
<1>7. TurnOK(t)
  <2>1. t \in Turns
    BY <1>6 DEF Turns, Statements
  <2> QED BY <1>6, <2>1 DEF TurnOK, Statements, Rotating
<1>8. ASSUME NEW q \in KeyRequests, q # r
      PROVE  /\ TurnOK(u(q)) /\ u(q).heir = turn[q].heir /\ u(q).pc = turn[q].pc
             /\ (turn[q].pc \in Statements => u(q).overlapped)
  <2>1. TurnOK(turn[q]) /\ turn[q] \in Turns
    BY <1>1 DEF Typed, TurnOK
  <2>2. /\ u(q) \in Turns /\ u(q).heir = turn[q].heir /\ u(q).pc = turn[q].pc
        /\ u(q).op = turn[q].op /\ u(q).key = turn[q].key
        /\ u(q).overlapped = (turn[q].overlapped \/ q \in Running)
    BY <2>1 DEF Turns
  <2>3. turn[q].pc = "new" => u(q) = Unsent
    BY <2>1, StatementSets DEF TurnOK, Turns, Running, Unsent
  <2>4. turn[q].pc \in Statements => u(q).overlapped
    BY <2>2 DEF Running
  <2> HIDE DEF u
  <2> QED BY <2>1, <2>2, <2>3, <2>4 DEF TurnOK
<1>9. t.pc = First[op] /\ t.heir = (IF op = "mint" THEN k ELSE Nil) /\ t.overlapped = (Running # {})
      /\ t.op = op /\ t.conn = Nil /\ t.ran = {}
  OBVIOUS
<1> HIDE DEF t, u
<1>10. Typed'
  BY <1>1, <1>3, <1>4, <1>5, <1>7, <1>8 DEF Typed
<1>11. Rows'
  <2>1. \A q \in KeyRequests : q # r => turn'[q].heir = turn[q].heir /\ turn'[q].pc = turn[q].pc
    BY <1>5, <1>8
  <2>2. \/ t.heir = Nil /\ turn[r].heir = Nil /\ t.pc \notin BeforeMint
        \/ t.heir \in Unused /\ turn[r].heir = Nil
    <3>1. turn[r].heir = Nil
      BY <1>1 DEF Unsent
    <3>2. CASE op = "mint"
      BY <1>2, <1>9, <3>1, <3>2
    <3>3. CASE op # "mint"
      BY <1>6, <1>9, <3>1, <3>3 DEF BeforeMint
    <3> QED BY <3>2, <3>3
  <2> QED BY <1>1, <1>3, <1>4, <2>1, <2>2, RowsTaken
<1>12. Lone'
  <2> SUFFICES ASSUME NEW p \in KeyRequests, turn'[p].pc \in Statements, ~turn'[p].overlapped
               PROVE  /\ \A q \in KeyRequests : turn'[q].pc \in Statements => q = p
                      /\ turn'[p].op = "rotate" => Alone(turn[p])'
    BY DEF Lone
  <2>1. p = r
    BY <1>5, <1>8
  <2>2. \A q \in KeyRequests : turn'[q].pc \in Statements => q = p
    BY <1>4, <1>5, <1>8, <1>9, <2>1, ZenonT(60) DEF Running
  <2>3. turn'[p].op = "rotate" => Alone(turn[p])'
    BY <1>4, <1>6, <1>9, <2>1 DEF Alone
  <2> QED BY <2>2, <2>3
<1> QED BY <1>10, <1>11, <1>12 DEF KeysInv

LEMMA TakeConnectionStep ==
  ASSUME KeysInv, NEW r \in KeyRequests, TakeConnection(r) PROVE KeysInv'
<1>1. Typed /\ Rows /\ Lone /\ turn[r].pc \in Statements /\ TurnOK(turn[r]) /\ turn[r] \in Turns
      /\ turn[r].conn = Nil /\ UNCHANGED <<key, tx>>
  BY DEF KeysInv, Typed, TurnOK, TakeConnection, Running
<1>2. \E c \in Conns :
        /\ turn' = [turn EXCEPT ![r] = [[turn[r] EXCEPT !.conn = c] EXCEPT !.ran = turn[r].ran \union {c}]]
        /\ idle' \in Seq(Conns) /\ (idle # << >> => idle[Len(idle)] = c)
  <2>1. idle \in Seq(Conns) /\ DOMAIN turn = KeyRequests
    BY <1>1 DEF Typed
  <2>2. CASE idle # << >>
    <3>1. idle[Len(idle)] \in Conns /\ Last(idle) = idle[Len(idle)] /\ Len(idle) \in Nat /\ Len(idle) > 0
      BY <2>1, <2>2 DEF Last
    <3>2. /\ turn' = [turn EXCEPT ![r].conn = Last(idle), ![r].ran = @ \union {Last(idle)}]
          /\ idle' = SubSeq(idle, 1, Len(idle) - 1)
      BY <2>2 DEF TakeConnection, Front
    <3>3. idle' \in Seq(Conns)
      BY <2>1, <3>1, <3>2, SubSeqProperties
    <3>4. turn' = [turn EXCEPT ![r] = [[turn[r] EXCEPT !.conn = Last(idle)]
                                         EXCEPT !.ran = turn[r].ran \union {Last(idle)}]]
      BY <1>1, <2>1, <3>2 DEF Turns
    <3> QED BY <3>1, <3>3, <3>4
  <2>3. CASE idle = << >>
    <3>1. PICK c \in Conns : turn' = [turn EXCEPT ![r].conn = c, ![r].ran = @ \union {c}]
      BY <2>3 DEF TakeConnection
    <3>2. turn' = [turn EXCEPT ![r] = [[turn[r] EXCEPT !.conn = c] EXCEPT !.ran = turn[r].ran \union {c}]]
      BY <1>1, <2>1, <3>1 DEF Turns
    <3> QED BY <2>1, <2>3, <3>2 DEF TakeConnection
  <2> QED BY <2>2, <2>3
<1>3. PICK c \in Conns :
        /\ turn' = [turn EXCEPT ![r] = [[turn[r] EXCEPT !.conn = c] EXCEPT !.ran = turn[r].ran \union {c}]]
        /\ idle' \in Seq(Conns) /\ (idle # << >> => idle[Len(idle)] = c)
  BY <1>2
<1> DEFINE t == [[turn[r] EXCEPT !.conn = c] EXCEPT !.ran = turn[r].ran \union {c}]
<1>4. /\ t \in Turns /\ t.conn = c /\ t.ran = turn[r].ran \union {c} /\ t.pc = turn[r].pc /\ t.op = turn[r].op
      /\ t.key = turn[r].key /\ t.heir = turn[r].heir /\ t.overlapped = turn[r].overlapped
  BY <1>1 DEF Turns
<1>5. turn' = [turn EXCEPT ![r] = t]
  BY <1>3
<1> HIDE DEF t
<1>6. /\ DOMAIN turn' = KeyRequests /\ turn'[r] = t
      /\ \A q \in KeyRequests : q # r => turn'[q] = turn[q]
  BY <1>1, <1>5 DEF Typed
<1>7. TurnOK(t)
  BY <1>1, <1>4, StatementSets DEF TurnOK
<1>8. Typed'
  BY <1>1, <1>3, <1>6, <1>7 DEF Typed
<1>9. Rows'
  BY <1>1, <1>4, <1>6, RowsTaken
<1>10. Lone'
  <2> SUFFICES ASSUME NEW p \in KeyRequests, turn'[p].pc \in Statements, ~turn'[p].overlapped
               PROVE  /\ \A q \in KeyRequests : turn'[q].pc \in Statements => q = p
                      /\ turn'[p].op = "rotate" => Alone(turn[p])'
    BY DEF Lone
  <2>1. p = r /\ \A q \in KeyRequests : turn'[q].pc \in Statements => q = p
    BY <1>1, <1>4, <1>6 DEF Lone
  <2>2. ASSUME turn'[p].op = "rotate" PROVE Alone(turn[p])'
    <3>1. Alone(turn[r])
      BY <1>1, <1>4, <1>6, <2>1, <2>2 DEF Lone
    <3>2. t.ran = {c} /\ Progress(t.pc, t.key, t.heir, key', tx'[c])
      <4>1. CASE turn[r].ran = {} /\ turn[r].pc = "read"
        BY <1>4, <4>1 DEF Progress
      <4>2. CASE \E d \in Conns : turn[r].ran = {d} /\ idle # << >> /\ idle[Len(idle)] = d
                                  /\ Progress(turn[r].pc, turn[r].key, turn[r].heir, key, tx[d])
        BY <1>1, <1>3, <1>4, <4>2
      <4> QED BY <1>1, <3>1, <4>1, <4>2, KeysAssumption DEF Alone
    <3> QED BY <1>4, <1>6, <2>1, <3>2 DEF Alone
  <2> QED BY <2>1, <2>2
<1> QED BY <1>8, <1>9, <1>10 DEF KeysInv

LEMMA RemoveAtKeepsLast ==
  ASSUME NEW S, NEW s \in Seq(S), NEW i \in 1 .. Len(s)
  PROVE  /\ RemoveAt(s, i) \in Seq(S)
         /\ i # Len(s) => RemoveAt(s, i) # << >> /\ RemoveAt(s, i)[Len(RemoveAt(s, i))] = s[Len(s)]
<1> DEFINE a == SubSeq(s, 1, i - 1)
           b == SubSeq(s, i + 1, Len(s))
<1>1. Len(s) \in Nat /\ i \in Nat /\ i >= 1 /\ i <= Len(s) /\ \A j \in 1 .. Len(s) : s[j] \in S
  OBVIOUS
<1>2. a \in Seq(S) /\ Len(a) = i - 1
  BY <1>1, SubSeqProperties
<1>3. /\ b \in Seq(S) /\ Len(b) = Len(s) - i
      /\ \A j \in 1 .. Len(s) - i : b[j] = s[i + j]
  <2>1. \A j \in i + 1 .. Len(s) : s[j] \in S
    BY <1>1
  <2>2. /\ b \in Seq(S) /\ Len(b) = IF i + 1 <= Len(s) THEN Len(s) - (i + 1) + 1 ELSE 0
        /\ \A j \in 1 .. Len(s) - (i + 1) + 1 : b[j] = s[(i + 1) + j - 1]
    BY <1>1, <2>1, SubSeqProperties
  <2> HIDE DEF b
  <2> QED BY <1>1, <2>2
<1>4. RemoveAt(s, i) = a \o b
  BY DEF RemoveAt
<1> HIDE DEF a, b
<1>5. /\ a \o b \in Seq(S) /\ Len(a \o b) = Len(s) - 1
      /\ \A j \in 1 .. Len(s) - 1 : (a \o b)[j] = IF j <= i - 1 THEN a[j] ELSE b[j - (i - 1)]
  <2>1. /\ a \o b \in Seq(S) /\ Len(a \o b) = Len(a) + Len(b)
        /\ \A j \in 1 .. Len(a) + Len(b) : (a \o b)[j] = IF j <= Len(a) THEN a[j] ELSE b[j - Len(a)]
    BY <1>2, <1>3, ConcatProperties
  <2> QED BY <1>1, <1>2, <1>3, <2>1
<1>6. ASSUME i # Len(s) PROVE a \o b # << >> /\ (a \o b)[Len(a \o b)] = s[Len(s)]
  <2>1. Len(s) - 1 \in 1 .. Len(s) - 1 /\ ~(Len(s) - 1 <= i - 1)
    BY <1>1, <1>6
  <2>2. (a \o b)[Len(s) - 1] = b[Len(s) - 1 - (i - 1)] /\ Len(s) - 1 - (i - 1) = Len(s) - i
    BY <1>1, <1>5, <2>1
  <2>3. b[Len(s) - i] = s[Len(s)]
    BY <1>1, <1>3, <1>6
  <2> QED BY <1>5, <2>1, <2>2, <2>3
<1> QED BY <1>4, <1>5, <1>6

LEMMA IdleTimeoutStep ==
  ASSUME KeysInv, IdleTimeout PROVE KeysInv'
<1>1. Typed /\ Rows /\ Lone /\ UNCHANGED <<key, turn>> /\ idle \in Seq(Conns)
  BY DEF KeysInv, Typed, IdleTimeout
<1>2. PICK i \in 1 .. Len(idle) :
        /\ \A r \in Running : idle[i] \notin turn[r].ran
        /\ idle' = RemoveAt(idle, i)
        /\ tx' = [tx EXCEPT ![idle[i]] = Autocommit]
  <2>1. DOMAIN idle = 1 .. Len(idle)
    BY <1>1
  <2> QED BY <2>1 DEF IdleTimeout
<1>3. /\ idle' \in Seq(Conns)
      /\ i # Len(idle) => idle' # << >> /\ idle'[Len(idle')] = idle[Len(idle)]
  BY <1>1, <1>2, RemoveAtKeepsLast
<1>4. idle[i] \in Conns
  BY <1>1
<1>5. /\ tx' \in [Conns -> Connections]
      /\ \A d \in Conns : tx'[d].mode # "open" => tx'[d].writes = NoWrites
      /\ \A d \in Conns : tx'[d] = tx[d] \/ tx'[d].writes = NoWrites
      /\ \A d \in Conns : d # idle[i] => tx'[d] = tx[d]
  BY <1>1, <1>2, <1>4, NothingOpen DEF Typed
<1>6. Typed'
  BY <1>1, <1>3, <1>5 DEF Typed
<1>7. Rows'
  BY <1>1, <1>5, RowsShrink DEF SameHeirs
<1>8. ASSUME NEW r \in KeyRequests, turn[r].pc \in Statements, Alone(turn[r])
      PROVE  Alone(turn[r])'
  <2>1. idle[i] \notin turn[r].ran
    BY <1>2, <1>8 DEF Running
  <2>2. CASE turn[r].ran = {} /\ turn[r].pc = "read" /\ turn[r].conn = Nil
    BY <1>1, <2>2 DEF Alone
  <2>3. ASSUME NEW c \in Conns, turn[r].ran = {c},
               turn[r].conn = c \/ (turn[r].conn = Nil /\ idle # << >> /\ idle[Len(idle)] = c),
               Progress(turn[r].pc, turn[r].key, turn[r].heir, key, tx[c])
        PROVE  Alone(turn[r])'
    <3>1. idle[i] # c /\ tx'[c] = tx[c]
      BY <1>5, <2>1, <2>3
    <3>2. turn[r].conn = c \/ (turn[r].conn = Nil /\ idle' # << >> /\ idle'[Len(idle')] = c)
      BY <1>3, <2>3, <3>1
    <3> QED BY <1>1, <2>3, <3>1, <3>2 DEF Alone
  <2> QED BY <1>8, <2>2, <2>3 DEF Alone
<1>9. Lone'
  BY <1>1, <1>8 DEF Lone
<1> QED BY <1>6, <1>7, <1>9 DEF KeysInv

LEMMA KeysStart ==
  ASSUME KeysInit PROVE KeysInv
<1>1. Unsent \in Turns /\ TurnOK(Unsent) /\ Unsent.pc = "new" /\ Unsent.heir = Nil
  BY DEF Unsent, Turns, TurnOK, Statements, Rotating
<1>2. key \in [Keys -> KeyStates] /\ \A r \in KeyRequests : turn[r] = Unsent
  BY DEF KeysInit, KeyStates
<1>3. tx \in [Conns -> Connections] /\ \A c \in Conns : tx[c] = Autocommit
  BY NothingOpen DEF KeysInit
<1>4. Typed
  BY <1>1, <1>2, <1>3, NothingOpen DEF KeysInit, Typed
<1>5. \A c \in Conns, k \in Keys : tx[c].writes[k] = Nil
  BY <1>3, NothingOpen DEF NoWrites
<1>6. Rows
  BY <1>1, <1>2, <1>5, KeysAssumption DEF Rows, Held, BeforeMint
<1>7. Lone
  BY <1>1, <1>2, StatementSets DEF Lone
<1> QED BY <1>4, <1>6, <1>7 DEF KeysInv

LEMMA KeysStep ==
  ASSUME KeysInv, [KeysNext]_keysVars PROVE KeysInv'
<1>1. CASE IdleTimeout
  BY <1>1, IdleTimeoutStep
<1>2. ASSUME NEW r \in KeyRequests, Turn(r) PROVE KeysInv'
  BY <1>2, ArriveStep, TakeConnectionStep, RefusedStep, ResolveStep, MintStep, RevokeStep,
     ReadKeyStep, BeginStep, RevokeOldStep, MintHeirStep, CommitStep, RollbackStep DEF Turn
<1>3. CASE UNCHANGED keysVars
  BY <1>3 DEF keysVars, KeysInv, Typed, Rows, Held, Taken, Lone, Alone
<1> QED BY <1>1, <1>2, <1>3 DEF KeysNext

\* The inductive invariant of the keys and their connections.
THEOREM KeysInvariant == KeysSpec => []KeysInv
<1>1. KeysInit => KeysInv
  BY KeysStart
<1>2. KeysInv /\ [KeysNext]_keysVars => KeysInv'
  BY KeysStep
<1> QED BY <1>1, <1>2, PTL DEF KeysSpec

\* A statement of a rotation that has the server for itself replaces the old key by the
\* new one, or changes neither.
LEMMA LoneStatement ==
  ASSUME KeysInv, NEW r \in KeyRequests, NEW q \in KeyRequests, Turn(q),
         turn[r].pc \in Statements, turn[r].op = "rotate", ~turn[r].overlapped,
         turn[r].heir # Nil, turn'[r].conn # turn[r].conn
  PROVE  key'[turn[r].key] # key[turn[r].key] <=> key'[turn[r].heir] # key[turn[r].heir]
<1> DEFINE t == turn[r]
           c == turn[r].conn
           k == turn[r].key
           h == turn[r].heir
<1>1. Typed /\ Rows /\ Lone /\ TurnOK(t) /\ t \in Turns
  BY DEF KeysInv, Typed, TurnOK
<1>2. t.pc \in Rotating /\ k \in Keys /\ h \in Keys /\ t.pc # "read" /\ Alone(t)
  BY <1>1 DEF TurnOK, Turns, Lone
<1>3. CASE UNCHANGED key
  BY <1>3
<1>4. CASE Mint(q) \/ Revoke(q)
  <2>1. turn[q].pc \in Statements /\ q # r
    BY <1>2, <1>4 DEF Mint, Revoke, AtStep, Statements, Rotating
  <2> QED BY <1>1, <2>1 DEF Lone
<1>5. ASSUME RevokeOld(q) \/ MintHeir(q) \/ Commit(q) PROVE q = r
  BY <1>1, <1>5 DEF Lone, RevokeOld, MintHeir, Commit, AtStep, Statements
<1>6. ASSUME q = r, c \in Conns
      PROVE  Progress(t.pc, k, h, key, tx[c])
  BY <1>2, <1>6, KeysAssumption DEF Alone
<1>7. CASE RevokeOld(q) \/ MintHeir(q)
  <2>1. q = r /\ c \in Conns /\ t.pc \in {"update", "mint"}
    BY <1>1, <1>5, <1>7 DEF RevokeOld, MintHeir, AtStep, Turns
  <2>2. tx[c].mode = "open"
    BY <1>6, <2>1 DEF Progress
  <2> QED BY <1>3, <1>7, <2>1, <2>2 DEF RevokeOld, MintHeir, Write
<1>8. CASE Commit(q)
  <2>1. q = r /\ c \in Conns /\ t.pc = "commit"
    BY <1>1, <1>5, <1>8 DEF Commit, AtStep, Turns
  <2>2. key[k] # "revoked" /\ tx[c].writes[k] = "revoked" /\ tx[c].writes[h] = "live"
    BY <1>6, <2>1 DEF Progress
  <2>3. key[h] = "absent"
    BY <1>1, <1>2, <2>1, <2>2 DEF Rows
  <2>4. key'[k] = "revoked" /\ key'[h] = "live"
    BY <1>2, <1>8, <2>1, <2>2, KeysAssumption DEF Commit, View
  <2> QED BY <2>2, <2>3, <2>4
<1> QED BY <1>3, <1>4, <1>7, <1>8 DEF Turn, Arrive, TakeConnection, Refused, ResolveTokenHash,
        ReadKey, Begin, Rollback

\* A rotation that had the server for itself replaces the old key by the new one in one
\* step: its transaction is on the one connection that all its statements took.
THEOREM LoneRotation == KeysSpec => LoneRotationIsAtomic
<1> DEFINE Atomic ==
      \A r \in KeyRequests :
        (r \in Running /\ turn[r].op = "rotate" /\ ~turn[r].overlapped
         /\ turn[r].heir # Nil /\ turn'[r].conn # turn[r].conn) =>
          (key'[turn[r].key] # key[turn[r].key]
             <=> key'[turn[r].heir] # key[turn[r].heir])
<1>1. ASSUME KeysInv, KeysNext PROVE Atomic
  <2>1. CASE IdleTimeout
    BY <2>1 DEF IdleTimeout
  <2>2. ASSUME NEW q \in KeyRequests, Turn(q) PROVE Atomic
    BY <1>1, <2>2, LoneStatement DEF Running
  <2> QED BY <1>1, <2>1, <2>2 DEF KeysNext
<1>2. KeysInv /\ [KeysNext]_keysVars => [Atomic]_keysVars
  BY <1>1
<1> QED BY <1>2, KeysInvariant, PTL DEF KeysSpec, LoneRotationIsAtomic
=============================================================================
