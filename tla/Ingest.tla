------------------------------- MODULE Ingest -------------------------------
(***************************************************************************)
(* How events come in and how their compilation is asked for: POST         *)
(* /v1/events and the command line's ingestOne, the MCP tool memory_write, *)
(* POST /v1/events/batch, the connector webhook, and POST /v1/compilations *)
(* over events that are already stored.                                    *)
(*                                                                         *)
(* One action is one statement against Postgres with the code up to the    *)
(* next await; no path opens a transaction.  An event's id is named by its *)
(* identity <<channel, delivery, item>>, under which at most one is        *)
(* stored.  A payload stands for its hash after private tags are stripped. *)
(* The worker is reduced to what intake sees of it (CompileJobs has it in  *)
(* full).                                                                  *)
(***************************************************************************)
EXTENDS Naturals, Sequences, FiniteSets

CONSTANTS
  Requests,    \* requests in flight or answered; each is one body, once
  Bodies,      \* the bodies clients send
  Channels,    \* "cli", "mcp" and the connector's
  Keys,        \* idempotency keys and delivery ids chosen by clients
  Items,       \* item keys; a single event is item "root"
  Payloads,    \* payload hashes
  MaxItems,    \* bound: items of one body
  MaxInFlight, \* bound: requests in flight at once
  Faults,      \* the kinds of fault this instance may suffer
  MaxFaults,   \* bound: faults in one behaviour
  Counts,      \* the snapshot handleCompileJob leaves: counts, no results
  None         \* "nothing there"

AllFaults ==
  { "crash",     \* the server process dies with the request in it
    "sendFails", \* the pg-boss send throws
    "itemFails", \* the lookup or the INSERT of an event throws
    "jobFails"}  \* a statement about jobs or job_events throws

Vias == {"single", "direct", "memory", "webhook", "batch", "compilation"}

\* memory_write draws a delivery id of its own for every call.
Root == "root"
EventIds == ((Channels \ {"mcp"}) \X Keys \X Items) \union ({"mcp"} \X Requests \X {Root})

\* The items of a body: what it delivers, in order.
Deliveries == [item : Items, hash : Payloads]
BodyTypes ==
  [via : Vias, channel : Channels, key : Keys, items : Seq(Deliveries),
   compile : BOOLEAN, wait : BOOLEAN, wants : SUBSET EventIds,
   allowed : BOOLEAN]  \* valid, in the credential's scope, with a good signature

ASSUME BodiesAssumption ==
  /\ Bodies \subseteq BodyTypes
  /\ \A b \in Bodies :
       /\ Len(b.items) <= MaxItems
       /\ b.via \in {"batch", "webhook"} => b.items # << >>
       /\ b.via \in {"single", "direct", "memory"} => Len(b.items) = 1 /\ b.items[1].item = Root
       /\ b.via \in {"memory", "webhook"} => b.compile
       /\ b.via = "compilation" => b.wants # {}
       /\ b.via # "compilation" => (b.via = "memory" <=> b.channel = "mcp")
ASSUME FaultsAssumption ==
  /\ MaxItems \in Nat
  /\ MaxInFlight \in Nat
  /\ Faults \subseteq AllFaults
  /\ MaxFaults \in Nat
  /\ Requests \intersect Keys = {}

VARIABLES
  event,   \* events: the payload stored under each identity
  job,     \* jobs and job_events: the job of each <<kind, key>>
  req,     \* the requests
  faults   \* history: faults so far

vars == <<event, job, req, faults>>

(* Jobs.  The key of an event's own job is `compile:<event id>`.           *)
JobIds == ({"ingest_event"} \X EventIds) \union ({"ingest_batch", "compilation"} \X Keys)

Exists(j) == j \in DOMAIN job
HasRow(j, e) == Exists(j) /\ e \in DOMAIN job[j].row

\* Adding or replacing one entry of a table.
Put(table, id, entry) == [x \in DOMAIN table \union {id} |-> IF x = id THEN entry ELSE table[x]]

\* An entry of jobs with its rows: a row put to pending, the status, the snapshot and
\* the message, and what handleCompileJob makes of it.
Awaits(entry, e) == [entry EXCEPT !.row = Put(@, e, "pending")]
Completed(entry) == [entry EXCEPT !.status = "completed"]
Keeps(entry, response) == [entry EXCEPT !.snapshot = response]
Announced(entry) == [entry EXCEPT !.announced = TRUE]
Settled(entry, outcome) ==
  [entry EXCEPT !.row = [e \in DOMAIN @ |-> IF @[e] = "pending" THEN outcome ELSE @[e]],
                !.status = IF outcome = "compiled" THEN "completed" ELSE "failed",
                !.snapshot = Counts]

\* A request before it has done anything.
Idle ==
  [pc |-> "idle", body |-> None, at |-> 1, results |-> << >>, queued |-> {},
   todo |-> {}, created |-> FALSE, lost |-> {}, said |-> None]

\* What each delivery, and each event of a compilation, may be told.
Verdicts == {"accepted", "duplicate", "conflict", "failed"}
Classes == {"not_found", "already_active", "already_compiled", "queued"}
Results == UNION {[b.wants -> Classes] : b \in Bodies} \union Seq(Verdicts)
Snapshots == [job : JobIds \union {None}, results : Results]

\* Nothing is not something.
ASSUME NoneAssumption ==
  /\ None \notin Payloads \union {Counts}
  /\ None \notin Snapshots /\ Counts \notin Snapshots
  /\ None \notin [id : EventIds, payload : Payloads, verdict : Verdicts]

Init ==
  /\ event = [e \in EventIds |-> None]
  /\ job = << >>
  /\ req = [r \in Requests |-> Idle]
  /\ faults = 0

(* What a request reads of itself.                                         *)
Body(r) == req[r].body
Item(r) == Body(r).items[req[r].at]
Delivery(r) == IF Body(r).via = "memory" THEN r ELSE Body(r).key
Event(r) == <<Body(r).channel, Delivery(r), Item(r).item>>

OwnsEvents(r) == Body(r).via \in {"single", "direct", "memory", "webhook"}

\* The job a request asks createJob for, and the hash it stores with it: of
\* the payload, of the batch's items, or of the whole compilation request.
Job(r) ==
  CASE OwnsEvents(r) -> <<"ingest_event", Event(r)>>
    [] Body(r).via = "batch" -> <<"ingest_batch", Body(r).key>>
    [] Body(r).via = "compilation" -> <<"compilation", Body(r).key>>
Hash(r) ==
  CASE OwnsEvents(r) -> Item(r).hash
    [] Body(r).via = "batch" -> Body(r).items
    [] Body(r).via = "compilation" -> Body(r).wants

Accepted(r) ==
  { <<Body(r).channel, Delivery(r), Body(r).items[n].item>> :
      n \in {m \in DOMAIN req[r].results : req[r].results[m] = "accepted"} }

\* The events whose rows the new job gets.
Covers(r) ==
  CASE OwnsEvents(r) -> {Event(r)}
    [] Body(r).via = "batch" -> IF Body(r).compile THEN Accepted(r) ELSE {}
    [] Body(r).via = "compilation" -> req[r].queued

\* A request's own state, moved on.
At(q, pc) == [q EXCEPT !.pc = pc]
Noted(q, verdict) == [q EXCEPT !.results = Append(@, verdict)]
Leaves(q, todo) == [q EXCEPT !.todo = todo]
Loses(q, j) == [q EXCEPT !.lost = @ \union {j}]
Set(r, new) == req' = [req EXCEPT ![r] = new]
Goto(r, pc) == Set(r, At(req[r], pc))

Answer(code, j, results, duplicate) ==
  [code |-> code, job |-> j, results |-> results, duplicate |-> duplicate]
Answered(q, code, j, results) ==
  [q EXCEPT !.pc = "done", !.said = Answer(code, j, results, FALSE)]
Repeated(q, j, results) ==
  [q EXCEPT !.pc = "done", !.said = Answer("ok", j, results, TRUE)]

Fault(kind) == kind \in Faults /\ faults < MaxFaults /\ faults' = faults + 1

(***************************************************************************)
(* A request arrives.  One that is malformed, out of its credential's      *)
(* scope or badly signed is refused before it touches a table.             *)
(***************************************************************************)
InFlight(r) == req[r].pc \notin {"idle", "done", "crashed"}

Arrives(r, via, pc) ==
  /\ req[r].pc = "idle"
  /\ Cardinality({s \in Requests : InFlight(s)}) < MaxInFlight
  /\ \E b \in Bodies :
       /\ b.via = via
       /\ Set(r, IF b.allowed THEN [Idle EXCEPT !.body = b, !.pc = pc]
                 ELSE Answered([Idle EXCEPT !.body = b], "refused", None, << >>))
  /\ UNCHANGED <<event, job, faults>>

PostEvents(r) == Arrives(r, "single", "find")
IngestOne(r) == Arrives(r, "direct", "find")
MemoryWrite(r) == Arrives(r, "memory", "find")
PostWebhook(r) == Arrives(r, "webhook", "find")
PostBatch(r) == Arrives(r, "batch", "replay")
PostCompilations(r) == Arrives(r, "compilation", "replay")

Start(r) ==
  PostEvents(r) \/ IngestOne(r) \/ MemoryWrite(r) \/ PostWebhook(r) \/ PostBatch(r)
  \/ PostCompilations(r)

(***************************************************************************)
(* A batch or a compilation first looks for the job of its key.            *)
(***************************************************************************)
\* The results a replay reads in the job's snapshot: none when handleCompileJob
\* has put its own counts there.
SnapshotJob(j) == IF job[j].snapshot \in {None, Counts} THEN None ELSE job[j].snapshot.job
SnapshotResults(j) ==
  IF job[j].snapshot \in {None, Counts} THEN << >> ELSE job[j].snapshot.results

ReplayedBatch(r) ==
  LET j == Job(r) IN
  IF job[j].hash # Hash(r) \/ job[j].snapshot = None
  THEN Answered(req[r], "conflict", j, << >>)
  ELSE Repeated(req[r], SnapshotJob(j), SnapshotResults(j))

ReplayedCompilation(r) ==
  LET j == Job(r) IN
  IF job[j].hash # Hash(r) THEN Answered(req[r], "conflict", j, << >>)
  ELSE Repeated(req[r], j, SnapshotResults(j))

ReplayBatch(r) ==
  /\ req[r].pc = "replay" /\ Body(r).via = "batch"
  /\ IF Exists(Job(r)) THEN Set(r, ReplayedBatch(r)) ELSE Goto(r, "find")
  /\ UNCHANGED <<event, job, faults>>

ReplayCompilation(r) ==
  /\ req[r].pc = "replay" /\ Body(r).via = "compilation"
  /\ IF Exists(Job(r)) THEN Set(r, ReplayedCompilation(r)) ELSE Goto(r, "classify")
  /\ UNCHANGED <<event, job, faults>>

(***************************************************************************)
(* insertEvent and persistNormalizedEvent: look the identity up, insert,   *)
(* and look again when the unique index refuses the row.                   *)
(***************************************************************************)
NextItem(q) ==
  IF q.at < Len(q.body.items) THEN [q EXCEPT !.at = @ + 1, !.pc = "find"]
  ELSE IF q.body.via = "batch" THEN At(q, "findJob")
  ELSE Answered(q, "ok", None, q.results)

(* What each path does with the verdict on an item.                        *)
OwnJob(r) == IF Exists(Job(r)) THEN Job(r) ELSE None

\* A single event: a duplicate is answered with the job of the event, if any.
SingleVerdict(r, q, verdict) ==
  CASE verdict = "accepted" ->
         IF q.body.compile THEN At(q, "findJob") ELSE Answered(q, "ok", None, q.results)
    [] verdict = "duplicate" -> Repeated(q, OwnJob(r), q.results)
    [] verdict = "conflict" -> Answered(q, "conflict", None, q.results)
    [] verdict = "failed" -> Answered(q, "error", None, q.results)

\* ingestOne does the same.
DirectVerdict(r, q, verdict) == SingleVerdict(r, q, verdict)

\* memory_write is never a duplicate: its delivery id is fresh.
MemoryVerdict(q, verdict) ==
  IF verdict = "accepted" THEN At(q, "findJob")
  ELSE Answered(q, "error", None, q.results)

\* A webhook stops at the first event that throws; GitHub delivers it again.
WebhookVerdict(q, verdict) ==
  CASE verdict = "accepted" -> At(q, "findJob")
    [] verdict = "failed" -> Answered(q, "error", None, q.results)
    [] OTHER -> NextItem(q)

\* A batch goes on with the next item whatever became of this one.
BatchVerdict(q, verdict) == NextItem(q)

Verdict(r, verdict) ==
  LET q == Noted(req[r], verdict) IN
  CASE Body(r).via = "single" -> SingleVerdict(r, q, verdict)
    [] Body(r).via = "direct" -> DirectVerdict(r, q, verdict)
    [] Body(r).via = "memory" -> MemoryVerdict(q, verdict)
    [] Body(r).via = "webhook" -> WebhookVerdict(q, verdict)
    [] Body(r).via = "batch" -> BatchVerdict(q, verdict)

\* Mutant: the hashes are not compared.
ResolveReplay_Same(r) == "duplicate"
\* resolveReplay: an identity that is already stored.
ResolveReplay(r) ==
  IF event[Event(r)] = Item(r).hash THEN "duplicate" ELSE "conflict"

Look(r) ==
  /\ req[r].pc = "find"
  /\ IF event[Event(r)] # None THEN Set(r, Verdict(r, ResolveReplay(r)))
     ELSE Goto(r, "insert")
  /\ UNCHANGED <<event, job, faults>>

Insert(r) ==
  /\ req[r].pc = "insert"
  /\ event[Event(r)] = None
  /\ event' = [event EXCEPT ![Event(r)] = Item(r).hash]
  /\ Set(r, Verdict(r, "accepted"))
  /\ UNCHANGED <<job, faults>>

Refused(r) ==
  /\ req[r].pc = "insert"
  /\ event[Event(r)] # None
  /\ Set(r, Verdict(r, ResolveReplay(r)))
  /\ UNCHANGED <<event, job, faults>>

\* insertEvent, or persistNormalizedEvent for what a connector made of a webhook.
FromWebhook(r) == req[r].body # None /\ Body(r).via = "webhook"

FindEvent(r) == ~FromWebhook(r) /\ Look(r)
InsertEvent(r) == ~FromWebhook(r) /\ Insert(r)
InsertRefused(r) == ~FromWebhook(r) /\ Refused(r)

FindDelivery(r) == FromWebhook(r) /\ Look(r)
PersistDelivery(r) == FromWebhook(r) /\ Insert(r)
PersistRefused(r) == FromWebhook(r) /\ Refused(r)

\* Either statement throws.
InsertFails(r) ==
  /\ req[r].pc \in {"find", "insert"}
  /\ Fault("itemFails")
  /\ Set(r, Verdict(r, "failed"))
  /\ UNCHANGED <<event, job>>

(***************************************************************************)
(* A compilation request sorts its events by what has become of them.      *)
(* getEventsByIds and the two queries of getEventCompilationStatus.        *)
(***************************************************************************)
Active(e) == \E j \in DOMAIN job : job[j].status = "queued" /\ HasRow(j, e)
Compiled(e) == \E j \in DOMAIN job : HasRow(j, e) /\ job[j].row[e] = "compiled"

Classify(r) ==
  /\ req[r].pc = "classify"
  /\ LET verdict == [e \in Body(r).wants |->
           IF event[e] = None THEN "not_found"
           ELSE IF Active(e) THEN "already_active"
           ELSE IF Compiled(e) THEN "already_compiled" ELSE "queued"]
     IN Set(r, [req[r] EXCEPT !.results = verdict, !.pc = "findJob",
                              !.queued = {e \in Body(r).wants : verdict[e] = "queued"}])
  /\ UNCHANGED <<event, job, faults>>

\* Nothing catches what these lookups throw.
LookupFails(r) ==
  /\ req[r].pc \in {"replay", "classify"}
  /\ Fault("jobFails")
  /\ Set(r, Answered(req[r], "error", None, << >>))
  /\ UNCHANGED <<event, job>>

(***************************************************************************)
(* createJob: look the key up, insert, and let the unique index decide.    *)
(***************************************************************************)
\* processIngestBatch swallows what createJob and the statements after it throw
\* and answers with the items, and with the job once it has one; a webhook goes
\* on with the next event; the others report an error.
JobFailed(r) ==
  CASE Body(r).via = "batch" ->
         Answered(req[r], "ok", IF req[r].created THEN Job(r) ELSE None, req[r].results)
    [] Body(r).via = "webhook" -> NextItem(req[r])
    [] OTHER -> Answered(req[r], "error", None, req[r].results)

\* On a conflict a batch answers from the other job's snapshot, or names it.
BatchConflict(r) ==
  LET j == Job(r) IN
  IF job[j].snapshot # None THEN Repeated(req[r], SnapshotJob(j), SnapshotResults(j))
  ELSE Answered(req[r], "ok", j, req[r].results)

JobConflict(r) ==
  CASE Body(r).via = "batch" -> BatchConflict(r)
    [] Body(r).via \in {"single", "direct"} ->
         Answered(req[r], "ok", Job(r), req[r].results)
    [] Body(r).via = "compilation" -> Answered(req[r], "conflict", None, req[r].results)
    [] OTHER -> JobFailed(r)

\* Once createJob has answered.  A batch without `compile`, and a compilation
\* with nothing to queue, complete their job at once when it is theirs.
BatchCreated(q, j) ==
  IF ~q.created THEN Answered(q, "ok", IF q.body.compile THEN j ELSE None, q.results)
  ELSE At(q, IF q.body.compile THEN "rows" ELSE "complete")

CompilationCreated(q, j) ==
  IF q.queued # {} THEN At(q, "rows")
  ELSE IF q.created THEN At(q, "complete")
  ELSE Answered(q, "ok", j, q.results)

JobCreated(r, created) ==
  LET q == Leaves([req[r] EXCEPT !.created = created], Covers(r)) IN
  CASE OwnsEvents(r) -> At(q, "rows")
    [] Body(r).via = "batch" -> BatchCreated(q, Job(r))
    [] Body(r).via = "compilation" -> CompilationCreated(q, Job(r))

\* createJob refuses a job of no events: a batch nothing of which was accepted.
NothingToCreate(r) == Body(r).via = "batch" /\ Accepted(r) = {}

FindJob(r) ==
  /\ req[r].pc = "findJob"
  /\ \/ NothingToCreate(r) /\ Set(r, JobFailed(r))
     \/ ~NothingToCreate(r) /\ ~Exists(Job(r)) /\ Goto(r, "insertJob")
     \/ /\ ~NothingToCreate(r) /\ Exists(Job(r))
        /\ Set(r, IF job[Job(r)].hash = Hash(r) THEN JobCreated(r, FALSE) ELSE JobConflict(r))
  /\ UNCHANGED <<event, job, faults>>

\* The snapshot of a compilation is stored with the job, a batch's later.
InsertJob(r) ==
  /\ req[r].pc = "insertJob"
  /\ ~Exists(Job(r))
  /\ job' = Put(job, Job(r),
               [status |-> "queued", hash |-> Hash(r), announced |-> FALSE, row |-> << >>,
                snapshot |-> IF Body(r).via = "compilation"
                             THEN [job |-> Job(r), results |-> req[r].results] ELSE None])
  /\ Set(r, JobCreated(r, TRUE))
  /\ UNCHANGED <<event, faults>>

\* The loser of a race: createJob looks for the index's name in a message that
\* does not hold it, and throws what the driver threw.
InsertJobRefused(r) ==
  /\ req[r].pc = "insertJob"
  /\ Exists(Job(r))
  /\ Set(r, JobFailed(r))
  /\ UNCHANGED <<event, job, faults>>

(***************************************************************************)
(* The rows of the job, its snapshot, its message.                         *)
(***************************************************************************)
\* What follows the message, or its absence.
AfterSend(r) ==
  LET q == Leaves(req[r], {}) IN
  IF Body(r).via = "webhook" THEN NextItem(q)
  ELSE IF Body(r).via = "single" /\ Body(r).wait THEN At(q, "wait")
  ELSE Answered(q, "ok", Job(r), q.results)

AfterRows(r) ==
  IF Body(r).via = "batch" THEN At(req[r], "snapshot")
  ELSE IF OwnsEvents(r) /\ ~req[r].created THEN AfterSend(r)
  ELSE At(req[r], "send")

\* Mutant: goes on after the first row.
UpsertRow_First(r) ==
  /\ req[r].pc = "rows"
  /\ \E e \in req[r].todo :
       /\ job' = [job EXCEPT ![Job(r)] = Awaits(@, e)]
       /\ Set(r, AfterRows(r))
  /\ UNCHANGED <<event, faults>>
\* upsertJobEvent of one event after the other; `pending` overwrites.
UpsertRow(r) ==
  /\ req[r].pc = "rows"
  /\ \E e \in req[r].todo :
       /\ job' = [job EXCEPT ![Job(r)] = Awaits(@, e)]
       /\ Set(r, IF req[r].todo = {e} THEN AfterRows(r)
                 ELSE Leaves(req[r], req[r].todo \ {e}))
  /\ UNCHANGED <<event, faults>>
\* Mutant: the job of a request that does not compile is left queued.
CompleteJob_Not(r) ==
  /\ req[r].pc = "complete"
  /\ Set(r, IF Body(r).via = "batch" THEN At(req[r], "snapshot")
            ELSE Answered(req[r], "ok", Job(r), req[r].results))
  /\ UNCHANGED <<event, job, faults>>
CompleteJob(r) ==
  /\ req[r].pc = "complete"
  /\ job' = [job EXCEPT ![Job(r)] = Completed(@)]
  /\ Set(r, IF Body(r).via = "batch" THEN At(req[r], "snapshot")
            ELSE Answered(req[r], "ok", Job(r), req[r].results))
  /\ UNCHANGED <<event, faults>>
\* Mutant: the snapshot names the job even when the answer does not.
WriteSnapshot_Named(r) ==
  /\ req[r].pc = "snapshot"
  /\ job' = [job EXCEPT ![Job(r)] = Keeps(@, [job |-> Job(r), results |-> req[r].results])]
  /\ Set(r, IF Body(r).compile THEN At(req[r], "send")
            ELSE Answered(req[r], "ok", None, req[r].results))
  /\ UNCHANGED <<event, faults>>
WriteSnapshot(r) ==
  /\ req[r].pc = "snapshot"
  /\ LET named == IF Body(r).compile THEN Job(r) ELSE None IN
       /\ job' = [job EXCEPT ![Job(r)] = Keeps(@, [job |-> named, results |-> req[r].results])]
       /\ Set(r, IF Body(r).compile THEN At(req[r], "send")
                 ELSE Answered(req[r], "ok", named, req[r].results))
  /\ UNCHANGED <<event, faults>>

Send(r) ==
  /\ req[r].pc = "send"
  /\ job' = [job EXCEPT ![Job(r)] = Announced(@)]
  /\ Set(r, AfterSend(r))
  /\ UNCHANGED <<event, faults>>

\* Intake only logs a send that throws; enqueueCompilation reports it.
SendFails(r) ==
  /\ req[r].pc = "send"
  /\ Fault("sendFails")
  /\ Set(r, IF Body(r).via = "compilation"
            THEN Answered(Loses(req[r], Job(r)), "error", None, req[r].results)
            ELSE Loses(AfterSend(r), Job(r)))
  /\ UNCHANGED <<event, job>>

\* A statement about the job throws; what has been stored before it stays.
JobFails(r) ==
  /\ req[r].pc \in {"findJob", "insertJob", "rows", "complete", "snapshot"}
  /\ Fault("jobFails")
  /\ Set(r, Loses(Leaves(JobFailed(r), {}), Job(r)))
  /\ UNCHANGED <<event, job>>

\* waitForJob polls until the job is over, or until its time is.
WaitEnds(r) ==
  /\ req[r].pc = "wait"
  /\ job[Job(r)].status \in {"completed", "failed"}
  /\ Set(r, Answered(req[r], job[Job(r)].status, Job(r), req[r].results))
  /\ UNCHANGED <<event, job, faults>>

WaitTimesOut(r) ==
  /\ req[r].pc = "wait"
  /\ Set(r, Answered(req[r], "timedOut", Job(r), req[r].results))
  /\ UNCHANGED <<event, job, faults>>

Crash(r) ==
  /\ InFlight(r)
  /\ Fault("crash")
  /\ Goto(r, "crashed")
  /\ UNCHANGED <<event, job>>

(***************************************************************************)
(* The worker: a message is delivered, handleCompileJob settles every      *)
(* pending row and writes its own counts over the snapshot.  No request    *)
(* tells a processing job from a queued one, so this is one step.          *)
(***************************************************************************)
WorkerRuns(j) ==
  /\ job[j].announced
  /\ job[j].status = "queued"
  /\ \E outcome \in {"compiled", "failed"} :
       job' = [job EXCEPT ![j] = Settled(@, outcome)]
  /\ UNCHANGED <<event, req, faults>>

Sort(r) == ReplayBatch(r) \/ ReplayCompilation(r) \/ Classify(r) \/ LookupFails(r)
Intake(r) ==
  FindEvent(r) \/ InsertEvent(r) \/ InsertRefused(r) \/ FindDelivery(r) \/ PersistDelivery(r)
  \/ PersistRefused(r) \/ InsertFails(r)
Create(r) == FindJob(r) \/ InsertJob(r) \/ InsertJobRefused(r)
Announce(r) ==
  UpsertRow(r) \/ CompleteJob(r) \/ WriteSnapshot(r) \/ Send(r) \/ SendFails(r) \/ JobFails(r)
Wait(r) == WaitEnds(r) \/ WaitTimesOut(r)
Next ==
  \/ \E r \in Requests : Start(r) \/ Sort(r) \/ Intake(r) \/ Create(r)
                         \/ Announce(r) \/ Wait(r) \/ Crash(r)
  \/ \E j \in DOMAIN job : WorkerRuns(j)

Spec == Init /\ [][Next]_vars

-----------------------------------------------------------------------------
(***************************************************************************)
(* Properties.                                                             *)
(***************************************************************************)
\* An entry of jobs with its rows, and a request, hold what they have room for; a
\* request that has arrived has a body, and one that has answered an answer.
IsJob(entry) ==
  /\ entry = [status |-> entry.status, hash |-> entry.hash, announced |-> entry.announced,
              row |-> entry.row, snapshot |-> entry.snapshot]
  /\ entry.status \in {"queued", "completed", "failed"} /\ entry.announced \in BOOLEAN
  /\ DOMAIN entry.row \subseteq EventIds
  /\ entry.row \in [DOMAIN entry.row -> {"pending", "compiled", "failed"}]
  /\ entry.snapshot \notin {None, Counts} => entry.snapshot.job \in JobIds \union {None}
IsRequest(q) ==
  q = [pc |-> q.pc, body |-> q.body, at |-> q.at, results |-> q.results, queued |-> q.queued,
       todo |-> q.todo, created |-> q.created, lost |-> q.lost, said |-> q.said]
RequestOK(q) ==
  /\ IsRequest(q)
  /\ IF q.pc = "idle" THEN q = Idle ELSE q.body \in Bodies
  /\ q.at \in Nat \ {0} /\ q.queued \subseteq EventIds /\ q.todo \subseteq EventIds
  /\ q.created \in BOOLEAN /\ q.lost \subseteq JobIds
  /\ q.pc = "done" => q.said.job \in JobIds \union {None}

\* The tables and the requests stay within their types.
TypeOK ==
  /\ event \in [EventIds -> Payloads \union {None}]
  /\ DOMAIN job \subseteq JobIds /\ job = [j \in DOMAIN job |-> job[j]]
  /\ \A j \in DOMAIN job : IsJob(job[j])
  /\ DOMAIN req = Requests /\ req = [r \in Requests |-> req[r]]
  /\ \A r \in Requests : RequestOK(req[r])
  /\ faults \in 0..MaxFaults

\* What the n-th delivery of a request has been told of the identity it names.
Told(r, n) ==
  LET q == req[r] IN
  IF q.pc = "idle" THEN None
  ELSE IF q.body.via = "compilation" \/ n > Len(q.results) THEN None
  ELSE IF q.results[n] = "failed" THEN None
  ELSE [id |-> <<q.body.channel, Delivery(r), q.body.items[n].item>>,
        payload |-> q.body.items[n].hash, verdict |-> q.results[n]]

Log == INSTANCE EventLog WITH
  Ids <- EventIds, Deliveries <- Requests \X (1..MaxItems), Nothing <- None,
  stored <- event, told <- [d \in Requests \X (1..MaxItems) |-> Told(d[1], d[2])]

\* Intake implements EventLog: two deliveries of one identity that look it up
\* before either inserts are still told apart, by any pair of paths, a single
\* event and an item "root" of a batch with the same key included.
KeepsEventLog == Log!Spec

Over(j) == job[j].status \in {"completed", "failed"}

\* The rows a finished request promised: it stored the events, or its job is new.
Promised(r) ==
  IF OwnsEvents(r)
  THEN { <<"ingest_event", e>> : e \in Accepted(r) }
  ELSE IF req[r].created THEN {Job(r)} ELSE {}

Promises(r, j) == IF OwnsEvents(r) THEN {j[2]} ELSE Covers(r)

\* A request that has answered, whatever it answered, leaves every event it stored
\* (and, for a batch or a compilation that created its job, every event it accepted
\* or queued) with a row in a job that is announced or over, but for the jobs one
\* of whose own statements, or whose message, has failed: the failure a batch or a
\* webhook swallows for one job takes no other job with it.
AnsweredIsOnItsWay ==
  \A r \in Requests :
    (req[r].pc = "done" /\ Body(r).compile) =>
      \A j \in Promised(r) \ req[r].lost :
        /\ Exists(j) /\ (job[j].announced \/ Over(j))
        /\ \A e \in Promises(r, j) : HasRow(j, e)

\* Without faults, a queued job nobody has announced is one its request is still
\* working on: no path, the ones that do not compile included, leaves a job queued
\* for ever.
QueuedHasItsRequest ==
  \A j \in DOMAIN job :
    (faults = 0 /\ job[j].status = "queued" /\ ~job[j].announced) =>
      \E r \in Requests :
        /\ req[r].pc \in {"rows", "complete", "snapshot", "send"}
        /\ Job(r) = j /\ req[r].created

Duplicate(r) == req[r].pc = "done" /\ req[r].said.duplicate

\* A replayed batch or compilation is answered with the results, and the job, its
\* first request was answered with, unless a worker has finished the job since.
ReplayRepeats ==
  \A r, s \in Requests :
    (/\ Duplicate(r) /\ ~OwnsEvents(r)
     /\ req[s].pc = "done" /\ req[s].created /\ Job(s) = Job(r)
     /\ req[s].said.code = "ok" /\ job[Job(r)].snapshot # Counts) =>
        /\ req[r].said.results = req[s].said.results
        /\ req[r].said.job = req[s].said.job

\* A compilation request refuses an event as active or compiled only when someone
\* asked for its compilation: an event stored without `compile` stays eligible.
RefusedWasRequested ==
  \A r \in Requests :
    (req[r].pc # "idle" /\ Body(r).via = "compilation" /\ req[r].results # << >>) =>
      \A e \in Body(r).wants :
        req[r].results[e] \in {"already_active", "already_compiled"} =>
          \E s \in Requests :
            /\ req[s].pc # "idle"
            /\ IF Body(s).via = "compilation" THEN e \in req[s].queued
               ELSE Body(s).compile /\ e \in Accepted(s)

\* "null when compile=false" (ingest.ts of the schemas): the answer to a batch that
\* asked for no compilation names no job.
BatchJobIsNullWithoutCompile ==
  \A r \in Requests :
    (/\ req[r].pc = "done" /\ Body(r).via = "batch" /\ ~Body(r).compile
     /\ req[r].said.code = "ok" /\ ~Duplicate(r)) => req[r].said.job = None

\* "Store the full response as resultSnapshot so replays are byte-level identical"
\* (ingest-batch.ts): a replayed batch is answered with the first results.
BatchReplayIsIdentical ==
  \A r, s \in Requests :
    (/\ Duplicate(r) /\ Body(r).via = "batch"
     /\ req[s].pc = "done" /\ req[s].created /\ Job(s) = Job(r)) =>
        req[r].said.results = req[s].said.results
=============================================================================
