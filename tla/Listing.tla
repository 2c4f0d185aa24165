------------------------------- MODULE Listing -------------------------------
(***************************************************************************)
(* The paged lists: GET /v1/events, /v1/jobs, /v1/audit, /v1/concepts and  *)
(* the timeline tool each answer one page of a table that others write to, *)
(* with a cursor from which the next page continues, and a portal page (an *)
(* agent, for the timeline) appends the pages it asks for.                 *)
(*                                                                         *)
(* A row is a record: its id (a number, in the order of the uuids), the    *)
(* time it is sorted by, a tag (the kind, status or actor that the page's  *)
(* filter selects by) and its version, as a rewrite makes another row of   *)
(* it.  What a portal page holds is the answers it took, each a set: the   *)
(* order of the rows of one answer, which the jobs page changes, is layout. *)
(* Requests are answered, and answers arrive, in any order: no page aborts *)
(* a request or checks which request an answer belongs to.                 *)
(***************************************************************************)
EXTENDS Naturals, Sequences, FiniteSets, Paging

CONSTANTS
    Pages,         \* the lists looked at: members of "events", "jobs", ...
    Ids,           \* the ids rows may get, numbers
    MaxTime,       \* bound: the clock of the server
    MaxRewrites,   \* bound: rows rewritten
    MaxClicks,     \* bound: what the user does
    MaxFailures,   \* bound: requests that fail on the way
    WritersPause,  \* bound: whether writers rest where Quiet says so
    Limit,         \* rows per page (20 in the portal)
    NoValue        \* null

Tags == {"one", "two"}
Rows == [id : Ids, at : 0..MaxTime, tag : Tags, version : 0..MaxRewrites]
Cursors == [row : Rows, filter : Tags \cup {""}]
Answers == [rows : SUBSET Rows, cursor : Cursors \cup {NoValue},
            error : {NoValue, "failed", "cursor_invalid"}]

ASSUME ListingAssumption ==
    /\ Pages \subseteq {"events", "jobs", "audit", "knowledge", "timeline"}
    /\ Ids \subseteq Nat /\ IsFiniteSet(Ids)
    /\ Limit \in Nat \ {0}
    /\ {MaxTime, MaxRewrites} \subseteq Nat
    /\ NoValue \notin Cursors \cup {"failed", "cursor_invalid", "forbidden", "not_found"}
    /\ NoValue \notin Answers

(***************************************************************************)
(* The filters a page offers: none, one of the tags, and on the events page the      *)
(* GitHub group, which the server knows nothing of.                        *)
(***************************************************************************)
Filters(page) == IF page = "timeline" THEN {""}
                 ELSE {"", "one"} \cup (IF page = "events" THEN {"github_group"} ELSE {})

ServerFilter(filter) == IF filter = "github_group" THEN "" ELSE filter

VARIABLES
    page,      \* the list that is open
    store,     \* the rows of its table
    used,      \* the ids rows were given, purged rows too
    rewrites,  \* rows rewritten
    ticks,
    view,      \* what the page holds
    asks,      \* requests under way
    clicks,    \* clicks used up
    failures,  \* requests failed
    calm       \* history: since the last list was begun, nobody acted while a request
               \* was under way, and its first page came

listVars == <<page, store, used, rewrites, ticks, view, asks, clicks, failures, calm>>

Unopened == [filter |-> "", pages |-> << >>, cursor |-> NoValue, loading |-> TRUE,
             loadingMore |-> FALSE, error |-> NoValue, first |-> {}]

ListInit == /\ page \in Pages
            /\ store = {}
            /\ used = {}
            /\ rewrites = 0
            /\ ticks = 0
            /\ view = Unopened
            /\ asks = {}
            /\ clicks = 0
            /\ failures = 0
            /\ calm = TRUE

-----------------------------------------------------------------------------
(***************************************************************************)
(* The server's side of a list.                                            *)
(***************************************************************************)
\* Concepts are read by last_confirmed DESC, uuid ASC; everything else by its
\* time and its id, both descending.

Precedes(a, b) == \/ a.at > b.at
                  \/ /\ a.at = b.at
                     /\ IF page = "knowledge" THEN a.id < b.id ELSE a.id > b.id

Passes(row, filter) == filter = "" \/ row.tag = filter

Refusal(code) == [rows |-> {}, cursor |-> NoValue, error |-> code]

Nothing == [rows |-> {}, cursor |-> NoValue, error |-> NoValue]

\* The rows a query finds that carries the caller's team and the project it asks for:
\* the rows of a project of another team stay out of its reach.
Scoped(project) == IF project = "own" THEN store ELSE {}

Order(left) == {p \in left \X left : Precedes(p[1], p[2])}

\* Mutant: the next page begins after the cursor's time, not after its row.
ReadPage_SkipsTies(project, cursor, filter) ==
    LET left == {r \in Scoped(project) : /\ Passes(r, filter)
                                         /\ cursor = NoValue \/ cursor.row.at > r.at}
        rows == FirstOf(left, Order(left), Limit)
    IN  [rows |-> rows,
         cursor |-> IF Cardinality(left) > Limit
                    THEN [row |-> LastOf(rows, Order(left)), filter |-> filter] ELSE NoValue,
         error |-> NoValue]

\* limit + 1 rows after the cursor tell whether there is another page.
ReadPage(project, cursor, filter) ==
    LET left == {r \in Scoped(project) : /\ Passes(r, filter)
                                         /\ cursor = NoValue \/ Precedes(cursor.row, r)}
        rows == FirstOf(left, Order(left), Limit)
    IN  [rows |-> rows,
         cursor |-> IF Cardinality(left) > Limit
                    THEN [row |-> LastOf(rows, Order(left)), filter |-> filter] ELSE NoValue,
         error |-> NoValue]

\* A cursor carries a hash of the filters it was issued under.
Continues(cursor, filter) == cursor = NoValue \/ cursor.filter = filter

(***************************************************************************)
(* Who asks: a key of the project "own", a key of the whole team, a web    *)
(* session of a member or an admin of the team, a session without a team.  *)
(* What for: the project "own", another one of the team, one of another    *)
(* team, one that does not exist.                                          *)
(***************************************************************************)
Callers == {"project key", "team key", "member", "admin", "stranger"}
OfTeam == {"own", "sibling"}

ListEvents(caller, project, cursor, filter) ==
    IF caller = "project key" /\ project # "own" THEN Nothing
    ELSE IF Continues(cursor, filter) THEN ReadPage(project, cursor, filter)
    ELSE Refusal("cursor_invalid")

GetEventsListHandler(caller, project, cursor, filter) ==
    IF caller = "project key" /\ project # "own" THEN Refusal("forbidden")
    ELSE ListEvents(caller, project, cursor, filter)

\* The repository answers a foreign cursor with an empty page; the route has
\* refused it before.
ListJobs(project, cursor, filter) ==
    IF Continues(cursor, filter) THEN ReadPage(project, cursor, filter) ELSE Nothing

ListJobsHandler(caller, project, cursor, filter) ==
    IF \/ caller = "project key" /\ project # "own"
       \/ project \notin OfTeam THEN Refusal("not_found")
    ELSE IF ~Continues(cursor, filter) THEN Refusal("cursor_invalid")
    ELSE ListJobs(project, cursor, filter)

\* The repository only reads; the cursor was checked by the route.
ListConcepts(project, cursor, filter) == ReadPage(project, cursor, filter)

GetConceptsListHandler(caller, project, cursor, filter) ==
    IF caller = "project key" /\ project # "own" THEN Refusal("forbidden")
    ELSE IF project \notin OfTeam THEN Refusal("not_found")
    ELSE IF ~Continues(cursor, filter) THEN Refusal("cursor_invalid")
    ELSE ListConcepts(project, cursor, filter)

ListAuditRecords(project, cursor, filter) ==
    IF Continues(cursor, filter) THEN ReadPage(project, cursor, filter)
    ELSE Refusal("cursor_invalid")

\* A session without a team sees an empty log, a member is refused.
GetAuditListHandler(caller, project, cursor, filter) ==
    CASE caller = "stranger" -> Nothing
      [] caller = "admin"    -> ListAuditRecords(project, cursor, filter)
      [] OTHER               -> Refusal("forbidden")

QueryTimeline(project, cursor, filter) ==
    IF Continues(cursor, filter) THEN ReadPage(project, cursor, filter)
    ELSE Refusal("cursor_invalid")

TimelineHandler(caller, project, cursor, filter) ==
    IF caller = "project key" /\ project # "own" THEN Nothing
    ELSE QueryTimeline(project, cursor, filter)

Respond(caller, project, cursor, filter) ==
    CASE page = "events"    -> GetEventsListHandler(caller, project, cursor, filter)
      [] page = "jobs"      -> ListJobsHandler(caller, project, cursor, filter)
      [] page = "audit"     -> GetAuditListHandler(caller, project, cursor, filter)
      [] page = "knowledge" -> GetConceptsListHandler(caller, project, cursor, filter)
      [] page = "timeline"  -> TimelineHandler(caller, project, cursor, filter)

-----------------------------------------------------------------------------
(***************************************************************************)
(* What a page shows of what it holds, and what it lets the user do.       *)
(***************************************************************************)
Held == UNION {view.pages[i] : i \in DOMAIN view.pages}

Shown == {r \in Held : view.filter = "github_group" => r.tag = "one"}

More(enabled) == IF enabled /\ view.cursor # NoValue /\ ~view.loadingMore
                 THEN {"more"} ELSE {}

\* The events and the jobs page: an error hides the chips only while there are no
\* rows, and "load more" stays while the first page is loading.
EventsScreen == IF view.error # NoValue /\ Shown = {} THEN {"retry"}
                ELSE {"filter"} \cup More(TRUE)

JobsScreen == IF view.error # NoValue /\ Held = {} THEN {"retry"}
              ELSE {"filter"} \cup More(TRUE)

\* The audit page: an error takes the place of everything, the chips included.
AuditScreen == IF view.error # NoValue THEN {}
               ELSE {"filter"} \cup More(~view.loading /\ Held # {})

\* The knowledge page, as a list: the filters always show.
KnowledgeScreen == {"filter"}
                   \cup (IF view.error # NoValue THEN {"retry"} ELSE {})
                   \cup More(~view.loading /\ view.error = NoValue /\ Held # {})

\* An agent asks for the next page once it has the last.
AgentScreen == IF asks # {} THEN {}
               ELSE IF view.error # NoValue THEN {"retry"} ELSE More(TRUE)

Offered == CASE page = "events"    -> EventsScreen
             [] page = "jobs"      -> JobsScreen
             [] page = "audit"     -> AuditScreen
             [] page = "knowledge" -> KnowledgeScreen
             [] page = "timeline"  -> AgentScreen

-----------------------------------------------------------------------------
(***************************************************************************)
(* Requests. Only two can be under way, the third click waits.             *)
(***************************************************************************)
Ask(filter, cursor, append) ==
    /\ \E n \in 1..2 :
         /\ \A a \in asks : a.n # n
         /\ n = 2 => asks # {}
         /\ asks' = asks \cup {[n |-> n, filter |-> ServerFilter(filter), cursor |-> cursor,
                                append |-> append, answer |-> NoValue, there |-> {}]}
    /\ calm' = IF append THEN calm /\ asks = {} ELSE asks = {}

\* loadEvents, loadJobs, loadConcepts: an answer to either kind of request ends both
\* kinds of waiting.
LoadPage(before, cursor, append) ==
    /\ view' = IF append THEN [before EXCEPT !.loadingMore = TRUE, !.error = NoValue]
               ELSE [before EXCEPT !.loading = TRUE, !.error = NoValue]
    /\ Ask(before.filter, cursor, append)

LoadEvents(before, cursor, append) == LoadPage(before, cursor, append)
LoadJobs(before, cursor, append) == LoadPage(before, cursor, append)
LoadConcepts(before, cursor, append) == LoadPage(before, cursor, append)

\* The audit page's effect and its "load more" set their own flag, fetchData clears
\* the error.
FetchAudit(before, cursor, append) == LoadPage(before, cursor, append)

Load(before, cursor, append) ==
    CASE page = "events"    -> LoadEvents(before, cursor, append)
      [] page = "jobs"      -> LoadJobs(before, cursor, append)
      [] page = "knowledge" -> LoadConcepts(before, cursor, append)
      [] page = "audit"     -> FetchAudit(before, cursor, append)
      [] page = "timeline"  -> LoadPage(before, cursor, append)

Click == /\ clicks < MaxClicks
         /\ clicks' = clicks + 1
         /\ UNCHANGED <<page, store, used, rewrites, ticks, failures>>

\* The page opens; its effect asks for the first page.
Open == /\ view = Unopened /\ asks = {} /\ clicks = 0
        /\ Click
        /\ Load(view, NoValue, FALSE)

Opened == clicks > 0

\* Mutant: the effect asks with the filter of the render before.
HandleFilterChange_Stale(filter) ==
    /\ Opened /\ "filter" \in Offered /\ filter \in Filters(page) \ {view.filter}
    /\ Click
    /\ IF ServerFilter(filter) = ServerFilter(view.filter)
       THEN view' = [view EXCEPT !.filter = filter] /\ UNCHANGED <<asks, calm>>
       ELSE /\ view' = [view EXCEPT !.filter = filter, !.loading = TRUE,
                                    !.error = NoValue]
            /\ Ask(view.filter, NoValue, FALSE)

\* A filter is chosen: the effect that depends on it loads the first page again.
\* The knowledge page empties its list first; the cursor stays everywhere.
HandleFilterChange(filter) ==
    /\ Opened /\ "filter" \in Offered /\ filter \in Filters(page) \ {view.filter}
    /\ Click
    /\ IF ServerFilter(filter) = ServerFilter(view.filter)
       THEN view' = [view EXCEPT !.filter = filter] /\ UNCHANGED <<asks, calm>>
       ELSE Load([view EXCEPT !.filter = filter,
                              !.pages = IF page = "knowledge" THEN << >> ELSE @],
                 NoValue, FALSE)

HandleLoadMore ==
    /\ Opened /\ "more" \in Offered
    /\ Click
    /\ Load(view, view.cursor, TRUE)

Retry == /\ Opened /\ "retry" \in Offered
         /\ Click
         /\ Load([view EXCEPT !.pages = IF page = "timeline" THEN << >> ELSE @],
                 NoValue, FALSE)

-----------------------------------------------------------------------------
(***************************************************************************)
(* Answers.                                                                *)
(***************************************************************************)
Reader == IF page = "audit" THEN "admin"
          ELSE IF page = "timeline" THEN "project key" ELSE "member"

Answer(a) ==
    /\ a \in asks /\ a.answer = NoValue
    /\ asks' = (asks \ {a}) \cup
               {[a EXCEPT !.answer = Respond(Reader, "own", a.cursor, a.filter),
                          !.there = IF a.append THEN {} ELSE {r \in store : Passes(r, a.filter)}]}
    /\ UNCHANGED <<page, store, used, rewrites, ticks, view, clicks, failures, calm>>

\* The request does not get there, or the query fails. A list whose first page fails
\* keeps what an earlier one has left.
FailRequest(a) ==
    /\ failures < MaxFailures
    /\ a \in asks /\ a.answer = NoValue
    /\ failures' = failures + 1
    /\ asks' = (asks \ {a}) \cup {[a EXCEPT !.answer = Refusal("failed")]}
    /\ calm' = (calm /\ a.append)
    /\ UNCHANGED <<page, store, used, rewrites, ticks, view, clicks>>

\* An answer is applied to the page, whatever the page shows by now.
Arrive(a) ==
    /\ a \in asks /\ a.answer # NoValue
    /\ asks' = asks \ {a}
    /\ view' = LET read == [view EXCEPT
                    !.loading = IF page = "audit" /\ a.append THEN @ ELSE FALSE,
                    !.loadingMore = IF page = "audit" /\ ~a.append THEN @ ELSE FALSE]
               IN  IF a.answer.error # NoValue
                   THEN [read EXCEPT !.error = a.answer.error]
                   ELSE [read EXCEPT !.pages = IF a.append THEN Append(@, a.answer.rows)
                                               ELSE <<a.answer.rows>>,
                                     !.cursor = a.answer.cursor,
                                     !.first = IF a.append THEN @ ELSE a.there]
    /\ UNCHANGED <<page, store, used, rewrites, ticks, clicks, failures, calm>>

-----------------------------------------------------------------------------
(***************************************************************************)
(* The writers of the tables. created_at is the time a transaction began,  *)
(* which may be the millisecond before; a concept and a provider's event   *)
(* carry any time that has passed.                                         *)
(***************************************************************************)
Times == IF page \in {"knowledge", "timeline"} THEN 0..ticks
         ELSE {t \in 0..ticks : t + 1 >= ticks}

\* Bound: nobody writes once the page has met an error or an answer out of turn, or will
\* not ask again.
Quiet == WritersPause => calm /\ failures = 0 /\ (clicks < MaxClicks \/ asks # {})

Write(id, at, tag) ==
    /\ Quiet
    /\ id \notin used /\ used' = used \cup {id}
    /\ at \in Times
    /\ page = "timeline" => tag = "one"
    /\ store' = store \cup {[id |-> id, at |-> at, tag |-> tag, version |-> 0]}
    /\ UNCHANGED <<page, rewrites, ticks, view, asks, clicks, failures, calm>>

\* A job changes its status, a concept its status or its last_confirmed, backwards too:
\* a merge writes back what it read.
Rewrite(r) ==
    /\ Quiet /\ Opened /\ page \in {"jobs", "knowledge"}
    /\ r \in store
    /\ rewrites < MaxRewrites /\ rewrites' = rewrites + 1
    /\ \E at \in IF page = "jobs" THEN {r.at} ELSE 0..ticks, tag \in Tags :
          store' = (store \ {r}) \cup
                   {[r EXCEPT !.at = at, !.tag = tag, !.version = rewrites']}
    /\ UNCHANGED <<page, used, ticks, view, asks, clicks, failures, calm>>

\* A purge takes all of a project but its audit log.
Purge == /\ Quiet /\ page # "audit" /\ Cardinality(store) > 1 /\ Opened
         /\ store' = {}
         /\ UNCHANGED <<page, used, rewrites, ticks, view, asks, clicks, failures, calm>>

Tick == /\ Quiet /\ ticks < MaxTime
        /\ ticks' = ticks + 1
        /\ UNCHANGED <<page, store, used, rewrites, view, asks, clicks, failures, calm>>

ListNext == \/ Open \/ HandleLoadMore \/ Retry \/ Tick \/ Purge
            \/ \E f \in Filters(page) : HandleFilterChange(f)
            \/ \E a \in asks : Answer(a) \/ FailRequest(a) \/ Arrive(a)
            \/ \E id \in Ids, at \in 0..MaxTime, tag \in Tags : Write(id, at, tag)
            \/ \E r \in store : Rewrite(r)

ListSpec == ListInit /\ [][ListNext]_listVars

-----------------------------------------------------------------------------
(***************************************************************************)
(* Properties.                                                             *)
(***************************************************************************)
Settled == Opened /\ asks = {} /\ view.error = NoValue

\* A walk that came to the last page, and during which nobody acted before the last
\* answer was in, shows every row that was there when it began and has stayed as it
\* was exactly once, whatever was written, rewritten or purged meanwhile (listEvents,
\* listJobs, listAuditRecords, listConcepts and queryTimeline with their pages).
WalkIsExact ==
    Settled /\ calm /\ view.cursor = NoValue =>
        \A r \in view.first \cap store :
            Cardinality({i \in DOMAIN view.pages : r \in view.pages[i]}) = 1

\* As long as nobody acts before the last answer is in, the rows a page holds were read
\* under the filter it shows, and the cursor it holds is one the server takes: the page
\* never meets cursor_invalid (handleFilterChange, handleLoadMore).
CalmPageIsOfItsFilter ==
    calm => /\ view.error # "cursor_invalid"
            /\ asks = {} => \A r \in Held : Passes(r, ServerFilter(view.filter))

\* Whoever asks for a project of another team learns no more than of one that does not
\* exist (anti-enumeration, on every list's route).
ForeignLooksAbsent ==
    \A caller \in Callers :
        Respond(caller, "foreign", NoValue, "") = Respond(caller, "absent", NoValue, "")

\* Counterexample only: without the calm, an answer under an earlier filter may arrive
\* last and stay on the page.
PageIsOfItsFilter ==
    Settled => \A r \in Held : Passes(r, ServerFilter(view.filter))

\* Counterexample only: a failed "load more" leaves the audit page without a way on.
ErrorsCanBeRetried == Opened /\ view.error # NoValue /\ asks = {} => Offered # {}
=============================================================================
