------------------------------- MODULE Detail -------------------------------
(***************************************************************************)
(* The portal's pages of one event, one job and one concept, and the       *)
(* routes they read.  The pages live in one tab: a component is mounted,   *)
(* asks, is asked for something else before the answer comes (another      *)
(* project in the top bar, a link in a concept's body) or is left.  The    *)
(* routes resolve the session's role, read the row and, for the payload of *)
(* an event, write an audit record before they answer; roles change, the   *)
(* worker fails the job it retried, and the project is purged in between.  *)
(*                                                                         *)
(* One action is one statement with the code up to the next await, on the  *)
(* server, and one answer or click with the render and the effects it      *)
(* leads to, in the tab.  Every record is of project "mine"; the team's    *)
(* other project has none.                                                 *)
(***************************************************************************)
EXTENDS Naturals, FiniteSets

CONSTANTS
    Records,       \* ids of records
    MaxCalls,      \* bound: requests the tab sends
    MaxRetries,    \* bound: times the job is reset
    Missing        \* null

Projects == {"mine", "other"}
KINDS == {"event", "job", "concept"}
ROLES == <<"viewer", "member", "admin">>   \* TEAM_ROLE_RANK; an owner may what an admin may

VARIABLES
    role,      \* of the reader: a team role, "outsider", or "signed out"
    purged,    \* whether the project's data were deleted
    job,       \* the job: how often it was reset, and its status
    trail,     \* audit_log: the payload reads of this reader
    active,    \* the project in the top bar
    tab,       \* the mounted component, its route and state
    calls,     \* requests of the tab that are not answered
    sent       \* requests sent

detailVars == <<role, purged, job, trail, active, tab, calls, sent>>

Rank(r) == IF \E i \in DOMAIN ROLES : ROLES[i] = r
           THEN CHOOSE i \in DOMAIN ROLES : ROLES[i] = r
           ELSE 0
CheckRole(actual, required) == Rank(actual) >= Rank(required)

\* A component as it is mounted; canRetry is the role the session hook has.  History:
\* the reset after which it fetched the job again, and whether its project is still
\* the one of the last click on retry.
Mounted(kind, id, pinned) ==
    [kind |-> kind, id |-> id, pinned |-> pinned, canRetry |-> CheckRole(role, "admin"),
     shown |-> Missing, loading |-> TRUE, error |-> "none", notFound |-> FALSE,
     locked |-> FALSE, retrying |-> FALSE, retryError |-> FALSE, after |-> 0, same |-> TRUE]

\* The project a page reads for: events and jobs take a valid one from their address.
UseProjectId(t, project) == IF t.kind # "concept" /\ t.pinned # Missing
                            THEN t.pinned ELSE project

Call(n, act, t, project) ==
    [n |-> n, act |-> act, kind |-> t.kind, id |-> t.id, for |-> UseProjectId(t, project),
     heard |-> TRUE, pc |-> "sent", as |-> "none", got |-> Missing]

DetailInit ==
    /\ role \in {"viewer", "member", "admin"}
    /\ purged = FALSE
    /\ job = [resets |-> 0, status |-> "failed"]
    /\ trail = {}
    /\ active = "mine"
    /\ \E kind \in KINDS, id \in Records, pinned \in {"mine", Missing} :
           /\ kind # "event" => pinned = Missing
           /\ tab = Mounted(kind, id, pinned)
    /\ calls = {Call(1, "load", tab, active)}
    /\ sent = 1

-----------------------------------------------------------------------------
(***************************************************************************)
(* The server.                                                             *)
(***************************************************************************)

\* A call becomes another; an answer nobody listens to is dropped.
Step(c, d) == calls' = (calls \ {c}) \cup
                       (IF d.pc = "answered" /\ ~d.heard THEN {} ELSE {d})

Reply(c, status, what) == [c EXCEPT !.pc = "answered", !.got = [status |-> status, is |-> what]]

\* The scopes a session has by its role.
SessionScopes(r) == {"read"} \cup (IF CheckRole(r, "member") THEN {"read:payload"} ELSE {})

RequiredScopes(c) == {"read"} \cup (IF c.kind = "event" THEN {"read:payload"} ELSE {})

\* requireScope, and the role a retry asks for.
RequireScope(c, r) == /\ RequiredScopes(c) \subseteq SessionScopes(r)
                      /\ c.act = "retry" => CheckRole(r, "admin")

\* The middlewares of a route: the session, the membership in the project's team
\* (both projects are of one team), the scopes.
RequireAuthOrWebSession(c) ==
    /\ c.pc = "sent"
    /\ Step(c, IF role = "signed out" THEN Reply(c, "unauthorized", Missing)
               ELSE IF role = "outsider" THEN Reply(c, "absent", Missing)
               ELSE IF ~RequireScope(c, role) THEN Reply(c, "forbidden", Missing)
               ELSE [c EXCEPT !.pc = "authorized", !.as = role])
    /\ UNCHANGED <<role, purged, job, trail, active, tab, sent>>

\* What is answered of a record: its id, whose project's, and for a job its state.
Record(c) == [n |-> c.n, id |-> c.id, for |-> c.for, resets |-> job.resets,
              status |-> IF c.kind = "job" THEN job.status ELSE "none"]

GetEventById(c) == ~purged /\ c.for = "mine"
GetConceptByUuid(c) == ~purged /\ c.for = "mine"
GetJob(c) == ~purged    \* of the team: the project asked for does not matter

\* The event's row is read; its payload waits for the audit record.
GetEventDetail(c) ==
    /\ c.pc = "authorized" /\ c.kind = "event"
    /\ Step(c, IF GetEventById(c)
               THEN [c EXCEPT !.pc = "found", !.got = [status |-> "ok", is |-> Record(c)]]
               ELSE Reply(c, "absent", Missing))
    /\ UNCHANGED <<role, purged, job, trail, active, tab, sent>>

GetJobDetail(c) ==
    /\ c.pc = "authorized" /\ c.kind = "job" /\ c.act # "retry"
    /\ Step(c, IF GetJob(c) THEN Reply(c, "ok", Record(c)) ELSE Reply(c, "absent", Missing))
    /\ UNCHANGED <<role, purged, job, trail, active, tab, sent>>

GetConceptByUuidHandler(c) ==
    /\ c.pc = "authorized" /\ c.kind = "concept"
    /\ Step(c, IF GetConceptByUuid(c) THEN Reply(c, "ok", Record(c))
               ELSE Reply(c, "absent", Missing))
    /\ UNCHANGED <<role, purged, job, trail, active, tab, sent>>

WriteAuditRow(c) == trail' = trail \cup {[n |-> c.n, id |-> c.id, as |-> c.as]}

\* Mutant: a failed audit write is swallowed, as everywhere else in the server.
AuditPayloadRead_BestEffort(c) ==
    \/ WriteAuditRow(c) /\ Step(c, Reply(c, "ok", c.got.is))
    \/ UNCHANGED trail /\ Step(c, Reply(c, "ok", c.got.is))

\* The payload leaves only with its audit record; a failed write denies it.
AuditPayloadRead(c) ==
    \/ WriteAuditRow(c) /\ Step(c, Reply(c, "ok", c.got.is))
    \/ UNCHANGED trail /\ Step(c, Reply(c, "audit failed", Missing))

RespondPayload(c) ==
    /\ c.pc = "found"
    /\ AuditPayloadRead(c)
    /\ UNCHANGED <<role, purged, job, active, tab, sent>>

\* The retry route: the job is of the team, not running, and reset (see CompileJobs);
\* the request fails when its message cannot be sent.
RetryJob(c) ==
    /\ c.pc = "authorized" /\ c.act = "retry"
    /\ IF purged THEN Step(c, Reply(c, "absent", Missing)) /\ UNCHANGED job
       ELSE IF job.status = "queued" THEN Step(c, Reply(c, "conflict", Missing)) /\ UNCHANGED job
       ELSE /\ job.resets < MaxRetries
            /\ job' = [resets |-> job.resets + 1, status |-> "queued"]
            /\ \/ Step(c, Reply(c, "ok", [Record(c) EXCEPT !.resets = job.resets + 1,
                                                           !.status = "queued"]))
               \/ Step(c, Reply(c, "failed", Missing))
    /\ UNCHANGED <<role, purged, trail, active, tab, sent>>

\* A request that breaks on the way, or on the database.
FailCall(c) ==
    /\ c.pc # "answered"
    /\ Step(c, Reply(c, "failed", Missing))
    /\ UNCHANGED <<role, purged, job, trail, active, tab, sent>>

\* What others do: the reader's role changes, the worker fails the job, an owner purges.
Others ==
    \/ /\ role' \in {"viewer", "outsider", "signed out"}
       /\ CheckRole(role, "viewer") /\ role' # role
       /\ UNCHANGED <<purged, job>>
    \/ /\ job.status = "queued"
       /\ job' = [job EXCEPT !.status = "failed"]
       /\ UNCHANGED <<role, purged>>
    \/ /\ ~purged /\ purged' = TRUE
       /\ UNCHANGED <<role, job>>

-----------------------------------------------------------------------------
(***************************************************************************)
(* The tab.                                                                *)
(***************************************************************************)

\* The effect of a page: its state is cleared and the record asked for.
Cleared(t) == [t EXCEPT !.loading = TRUE, !.error = "none", !.notFound = FALSE,
                        !.locked = FALSE]
Send(act, t, project, others) ==
    /\ sent < MaxCalls
    /\ sent' = sent + 1
    /\ calls' = others \cup {Call(sent + 1, act, t, project)}

\* An unmounted component hears nothing; of what it asked only a retry is kept, since
\* a read that nobody hears can but add its audit record.
Unheard(cs) == {[c EXCEPT !.heard = FALSE] :
                    c \in {d \in cs : d.act = "retry" /\ d.pc # "answered"}}

\* Mutant: the effects have no cleanup, like the one of the concept page.
Cleanup_None(t, cs) == cs

\* The cleanup of an effect, "cancelled": event and job pages have one.
Cleanup(t, cs) ==
    IF t.kind = "concept" THEN cs ELSE {c \in cs : c.act # "load"}

\* Another page, or the same anew (window.location): every state of the old is lost.
Leave ==
    \E kind \in KINDS, id \in Records, pinned \in {"mine", Missing} :
        /\ kind # "event" => pinned = Missing
        /\ tab' = Mounted(kind, id, pinned)
        /\ Send("load", tab', active, Unheard(calls))
        /\ UNCHANGED <<role, purged, job, trail, active>>

\* setProjectId in the top bar; an effect that depends on the project runs again.
ChooseProject(p) ==
    /\ p # active
    /\ active' = p
    /\ IF UseProjectId(tab, p) = UseProjectId(tab, active)
       THEN UNCHANGED <<tab, calls, sent>>
       ELSE /\ tab' = [Cleared(tab) EXCEPT !.same = FALSE]
            /\ Send("load", tab', p, Cleanup(tab, calls))
    /\ UNCHANGED <<role, purged, job, trail>>

\* What a page renders, first condition first.
EventDetailPage(t) == IF t.loading THEN "skeleton" ELSE IF t.locked THEN "locked"
                      ELSE IF t.error # "none" THEN "error"
                      ELSE IF t.shown = Missing THEN "not found" ELSE "record"
JobDetailPage(t) == IF t.loading THEN "skeleton" ELSE IF t.error # "none" THEN "error"
                    ELSE IF t.shown = Missing THEN "not found" ELSE "record"
ConceptDetailPage(t) == IF t.loading THEN "skeleton" ELSE IF t.notFound THEN "not found"
                        ELSE IF t.error # "none" \/ t.shown = Missing THEN "error"
                        ELSE "record"
Screen(t) == IF t.kind = "event" THEN EventDetailPage(t)
             ELSE IF t.kind = "job" THEN JobDetailPage(t) ELSE ConceptDetailPage(t)

\* handleBodyClick: a teamem link in the body changes the route of the mounted page.
HandleBodyClick(id) ==
    /\ tab.kind = "concept" /\ Screen(tab) = "record" /\ id # tab.id
    /\ tab' = [Cleared(tab) EXCEPT !.id = id]
    /\ Send("load", tab', active, calls)
    /\ UNCHANGED <<role, purged, job, trail, active>>

\* The error banner of a concept loads again in place.
LoadAgain ==
    /\ tab.kind = "concept" /\ Screen(tab) = "error"
    /\ tab' = Cleared(tab)
    /\ Send("load", tab', active, calls)
    /\ UNCHANGED <<role, purged, job, trail, active>>

\* The page of a job that failed offers a retry to an admin.
Offer(t) == /\ t.kind = "job" /\ JobDetailPage(t) = "record"
            /\ t.shown.status = "failed" /\ t.canRetry /\ ~t.retrying

\* handleRetry up to its first await.
HandleRetry ==
    /\ Offer(tab)
    /\ tab' = [tab EXCEPT !.retrying = TRUE, !.retryError = FALSE, !.same = TRUE]
    /\ Send("retry", tab', active, calls)
    /\ UNCHANGED <<role, purged, job, trail, active>>

\* The retry came back: the job is asked for again, under the id and project of the click.
Refetch(c, t) ==
    IF c.got.status = "ok"
    THEN /\ sent' = sent + 1
         /\ calls' = (calls \ {c}) \cup
                {[Call(sent + 1, "refetch", t, active) EXCEPT !.for = c.for]}
         /\ tab' = [t EXCEPT !.after = c.got.is.resets]
    ELSE /\ calls' = calls \ {c} /\ UNCHANGED sent
         /\ tab' = [t EXCEPT !.retrying = FALSE, !.retryError = TRUE]

\* A load came back; the message of an error is kept only as the fact that there is one.
LoadEvent(t, got) ==
    IF got.status = "ok" THEN [t EXCEPT !.shown = got.is, !.loading = FALSE]
    ELSE IF got.status = "audit failed" THEN [t EXCEPT !.locked = TRUE, !.loading = FALSE]
    ELSE [t EXCEPT !.error = "message", !.loading = FALSE]
LoadJob(t, got) ==
    IF got.status = "ok" THEN [t EXCEPT !.shown = got.is, !.loading = FALSE]
    ELSE [t EXCEPT !.error = "message", !.loading = FALSE]
LoadConcept(t, got) ==
    IF got.status = "ok" THEN [t EXCEPT !.shown = got.is, !.loading = FALSE]
    ELSE IF got.status = "absent" THEN [t EXCEPT !.notFound = TRUE, !.loading = FALSE]
    ELSE [t EXCEPT !.error = "message", !.loading = FALSE]

Take(c) ==
    /\ c.pc = "answered"
    /\ \/ /\ c.act = "load"
          /\ tab' = (IF tab.kind = "event" THEN LoadEvent(tab, c.got)
                     ELSE IF tab.kind = "job" THEN LoadJob(tab, c.got)
                     ELSE LoadConcept(tab, c.got))
          /\ calls' = calls \ {c} /\ UNCHANGED sent
       \/ /\ c.act = "retry"
          /\ Refetch(c, tab)
       \/ /\ c.act = "refetch"
          /\ tab' = (IF c.got.status = "ok" THEN [tab EXCEPT !.shown = c.got.is, !.retrying = FALSE]
                     ELSE [tab EXCEPT !.retryError = TRUE, !.retrying = FALSE])
          /\ calls' = calls \ {c} /\ UNCHANGED sent
    /\ UNCHANGED <<role, purged, job, trail, active>>

-----------------------------------------------------------------------------
DetailNext ==
    \/ \E c \in calls : \/ RequireAuthOrWebSession(c)
                        \/ GetEventDetail(c) \/ GetJobDetail(c) \/ GetConceptByUuidHandler(c)
                        \/ RespondPayload(c)
                        \/ RetryJob(c)
                        \/ FailCall(c)
                        \/ Take(c)
    \/ Others /\ UNCHANGED <<trail, active, tab, calls, sent>>
    \/ Leave \/ LoadAgain \/ HandleRetry
    \/ \E p \in Projects : ChooseProject(p)
    \/ \E id \in Records : HandleBodyClick(id)

DetailSpec == DetailInit /\ [][DetailNext]_detailVars

-----------------------------------------------------------------------------
\* Every payload that is on the page, or on its way there, has its own record in the
\* audit log, of its event and of a reader who was a member or more when the request
\* came, whatever failed in between (auditPayloadRead, requireAuthOrWebSession).
PayloadsAreAudited ==
    LET payloads == {c.got.is : c \in {d \in calls : d.kind = "event" /\ d.pc = "answered"
                                                     /\ d.got.status = "ok"}}
                    \cup (IF tab.kind = "event" THEN {tab.shown} \ {Missing} ELSE {}) IN
    \A p \in payloads : \E a \in trail :
        a.n = p.n /\ a.id = p.id /\ CheckRole(a.as, "member")

\* An event page shows the event and the project of its address: no answer for an
\* earlier project is taken for the present one (the effect's `cancelled`).
EventIsOfItsAddress ==
    tab.kind = "event" /\ Screen(tab) = "record" =>
        tab.shown.id = tab.id /\ tab.shown.for = UseProjectId(tab, active)

\* A retry that ended well leaves the job on its page as it was after the reset or
\* later, if the project was not changed since (handleRetry fetches the job again).
RetryIsShown ==
    tab.after > 0 /\ ~tab.retrying /\ ~tab.retryError /\ tab.same =>
        tab.shown.resets >= tab.after

\* Counterexample only: a concept page shows the concept of its address.
ConceptIsOfItsAddress ==
    tab.kind = "concept" /\ Screen(tab) = "record" =>
        tab.shown.id = tab.id /\ tab.shown.for = active
=============================================================================
