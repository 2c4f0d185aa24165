# TLA+ models of teamem-server

teamem-server collects events (pull requests, commits, agent sessions, notes),
compiles them with a language model into concept pages, and serves the pages to
people and agents. The server is TypeScript on Postgres; the only queue is
pg-boss, which lives in the same database. Requests, workers and timers run
concurrently, in one process or several, and meet only in the database. Almost
nothing is done in a transaction, so the statement is the unit of interleaving.
The portal is a React application: there, what is read before an answer arrives
and used after it is the unit.

| Module | Contents |
| --- | --- |
| `CompileJobs`, `JobLedger` | the life of a compilation job, and the abstract promise it implements |
| `CompileJobs_proofs` | what TLAPS proves of `CompileJobs`: types, bounds and the ledger; owners, outcomes and the queue |
| `Ingest_proofs`, `Concepts_proofs`, `Runtime_proofs` | what TLAPS proves of intake, of the pages, of a process |
| `Membership_proofs`, `Providers_proofs`, `Portal_proofs` | what TLAPS proves of invitations, roles and API keys; of webhooks, of GitHub's token and listings, and of the settings; of the record pages, the lists, search by words and the download |
| `StructuredOutput_proofs` | what TLAPS proves of the reading of a model's answer |
| `Ingest`, `EventLog` | how events come in and compilations are asked for; the promise to those who deliver events |
| `Concepts` | pages created and merged into by workers, purged by an owner, read by readers |
| `Membership`, `ApiKeys` | teams, invitations and roles; API keys over the connection pool |
| `Runtime` | start, teardown and exit of a process with work in flight |
| `GitHub`, `GitHubApi` | what webhooks are turned into; what the server asks of GitHub |
| `ProviderSchema`, `StructuredOutput`, `LlmSettings` | the schema sent to a model, the reading of its answer, the settings that choose it |
| `Paging` with `Listing`, `Retrieval`, `Export`; `Detail` | lists page by page; search and the context digest; the download; the pages of one record |
| `MC*.tla`, `MC_*.cfg` | instances for TLC |

`PROJECT.json` lists components, runs, mutants, the map to the source, findings,
hazards and theorems. Run a check with `tlc -config MC_ingest.cfg MCIngest`, the
proofs with `tlapm CompileJobs_proofs.tla` and so on. Source paths below are relative to
`src/apps/server/src/`, those of the portal to `src/apps/web/src/`.

## 1. Inventory

| Component | State it keeps | Operations | Hard behaviour | What makes it correct | Module |
| --- | --- | --- | --- | --- | --- |
| Job repository `db/repositories/jobs.ts` | `jobs`, `job_events` | create, claim, update status, reset, reclaim, upsert an outcome | each is one statement, reset and reclaim are two; status writes are unconditional | one claim per submission or retry; rows and status agree | `CompileJobs` |
| Worker `queue/worker.ts` | a local variable set per delivery | claim, load pending events, resolve the provider, compile, fail on error | duplicate and late deliveries, crashes, overruns, lost answers | one owner per job, no event paid for twice, every job ends | `CompileJobs` |
| Event compilation `compiler/f1/compile-job.ts` | the counters of one attempt | prefilter, model, map, embed, recall, merge or create, record | concept and outcome are written by separate statements | at most one concept per event and claim | `CompileJobs`, `Concepts` |
| Sweep `queue/stale-job-reclaimer.ts` | a timer | fail aged `processing` jobs, then their events | dies half way, meets a live worker | no job stays `processing`, only dead workers' jobs are failed | `CompileJobs` |
| Retry `http/routes/job-retry.ts` | - | read, reset, send | double clicks, redeliveries, a lost send | a reset is granted once per run and always announced | `CompileJobs`, `Detail` |
| Enqueueing `queue/enqueue-compilation.ts`, `ingest/create-compilation.ts` | the job's snapshot | replay check, classify events, create the job, its rows, the message | a repeated key, a crash between two steps | a key names one job, announced, and answered alike | `Ingest`, `CompileJobs` |
| Compile queue `queue/boss.ts` | pg-boss messages | send, work, offWork | at-least-once delivery, expiry, limit on retries | a queued job has a message | `CompileJobs`, `Runtime` |
| Event intake `ingest/`, `http/routes/events-write.ts`, `connector-webhook.ts`, `db/repositories/events.ts` | `events` | insert or replay an event, create its job, send | crash between event and job; conflicting payloads; a batch item failing alone | every accepted event is compiled; a repeated request is answered alike | `Ingest` |
| Concept pages `db/repositories/concepts-*.ts` | concepts, paths, evidence, contributors | create, merge, assemble | two workers merging into one page; a purge beside them | no evidence lost, doubled or shown apart from its text | `Concepts` |
| Candidates and merge decision `compiler/f2/` | - | recall, decision | a target that vanished | a merge only into a page that is there | `Concepts`, `ProviderSchema` |
| Membership `http/routes/members.ts`, `invites.ts`, `teams.ts`, `auth/invites.ts` | members, invitations | invite, accept, change role, remove | the last owner counted before it is changed | a team keeps an owner; an invitation is used once | `Membership` |
| Sign-in `auth/oauth-github.ts`, `http/session.ts` | users, sessions | callback, first-team bootstrap, session check | two first logins at once | one bootstrap | `Membership` |
| API keys `http/routes/keys.ts`, `auth/` | keys, pooled connections | mint, look up, revoke, rotate | a transaction spread over pooled connections | one live key of a rotation | `ApiKeys` |
| Purge and audit `http/routes/purge.ts`, `db/repositories/audit.ts` | all rows of a project | delete, audit | workers and readers still running | all or nothing; what is recorded has happened | `Concepts`, `Detail` |
| Lifecycle `lifecycle.ts`, `composition-root.ts`, `worker.ts`, `index.ts` | running parts | start, drain, stop | stop while a handler runs, a failing start, a timer | the pool outlives the work, every teardown ends | `Runtime` |
| GitHub connector `connectors/github/` | token cache | dispatch, normalize, resolve, list | late, repeated, reordered deliveries; changes between two pages | an event is about what it names; a listing is complete | `GitHub`, `GitHubApi` |
| LLM `llm/`, `http/routes/llm-config.ts` | the configuration row | schema, call, repair, save, test | damaged answers, two admins | what is read is what was meant; what was acknowledged is used | three modules |
| Lists `http/routes/*-read.ts`, portal `pages/` | cursor, rows on the page | page, filter, load more, retry | writers between pages, late answers | a walk misses and repeats nothing | `Listing`, `Detail` |
| Search and context `search/`, `compiler/search/hybrid.ts`, `http/routes/context.ts` | - | two sources, fusion, cursor; digest | ties, rounding, a page that spans both sources | a walk is exact; the digest fits | `Retrieval` |
| Export `export/` | - | page, render, pack, audit | writers and purges meanwhile; names at the header's limit | everything that was there is in it, under its name | `Export` |
| Waiting `http/wait-for-job.ts` | - | poll with a timeout | the job ends as the wait does | the answer is a state the job was in | - |

How they meet: an intake or compilation request writes `events`, `jobs` and
`job_events` and sends a message; pg-boss delivers it to a worker, which claims the
job by a conditional UPDATE, writes concepts and outcomes, and moves the job to its
end; the sweep, started by every worker process, fails jobs that have been
`processing` too long; the retry endpoint makes an ended job `queued` again and
sends a message with a fresh id; a purge deletes under all of them; lists, search,
digest, download and the record pages read what they leave. Every hazard, at its
line, is in `PROJECT.json`.

## 2. Plan

Done, in this order: `CompileJobs` with `JobLedger` and their proofs; `Ingest` with
`EventLog`; `Concepts`; `Membership`, `ApiKeys`, `Runtime`; the outside world
(`GitHub`, `GitHubApi`, `ProviderSchema`, `StructuredOutput`, `LlmSettings`); what
readers see (`Listing`, `Retrieval`, `Export`, `Detail`); first proofs about
`Membership` and `GitHubApi`; the invariants and action properties of `Concepts`,
`Runtime`, `CompileJobs`, `Ingest`, `Membership`, `ApiKeys`, `GitHub`, `GitHubApi`,
`LlmSettings`, `Detail`, `Listing`, `Retrieval` (the walk by words) and `Export`
proved, with `EventLog` as a refinement.

Left, in the order of what it would add:

1. `WaitForJob`: the poll against the worker that ends the job.
2. The prefilter and mapper of an extraction (`compiler/f1/skip-filter.ts`,
   `to-concept.ts`) and canonical JSON as pure algorithms.
3. The portal's settings of keys, members and sources, and onboarding.

Every module takes its actors and bounds as CONSTANTS with named assumptions,
has one action per statement, and declares no RECURSIVE operator.

## 3. CompileJobs

### State

| Variable | Code |
| --- | --- |
| `status`, `error`, `attempts` | the columns of `jobs`; error texts are reduced to their codes |
| `aged` | `started_at` is older than the sweep's threshold |
| `row` | `job_events.status` of each event |
| `msg` | pg-boss messages of a job: message 0 has the job's own id, message n is the n-th retry's; state and redeliveries left |
| `handler` | one record per handler invocation: where it is, its job, the events it has yet to settle, the event whose concept is written and not yet recorded |
| `admin`, `producer` | requests to the retry and to the compilations endpoint in flight |
| `sweep` | jobs whose first sweep statement is done and whose second is not |
| `page`, `resets` | history: concepts written for an event, successful resets |
| `faults` | faults so far, at most `MaxFaults` |

### Actions

An action is one statement with the code up to the next `await`. The claim
(`worker.ts:115`) stands outside the try block, so an error there does not touch
the job; any error inside reaches the catch block, which writes `failed`
whatever the status is and throws. An event goes through `WritePage` (the concept
transaction) and `RecordCompiled`, or through `SettleWithoutPage`; if recording
throws, the event's own catch records `failed` and the concept stays. `ResetJob`
and `ResetRows`, `SweepJobs` and `SweepRows` are the two statements of a reset
and of a sweep. A request that repeats a key is answered by the replay check
(`create-compilation.ts:135`); one that raced past it goes through `createJob` and
either replays the row or loses to the unique index.

Faults: `workerCrash` (the process dies, its message expires), `overrun` (a
handler outlives `expireInSeconds`, or its job outlives the staleness threshold),
`dbError` (a statement throws and wrote nothing), `ackLost` (a statement commits
and its answer is lost), `sweeperCrash`, `senderCrash` (a request dies or its
send fails). pg-boss is external and modelled from how `queue/boss.ts` uses it:
an existing id is not inserted again; a failed or expired delivery is delivered
again until the retry limit; nothing stops a handler whose delivery was given up.

### What it implements

`JobLedger` has three variables per job: runs granted, runs used, concepts written.
`CompileJobs` maps to them `Granted` (one for the row in `jobs`, one for each
reset), `attempts` and `page`. `CreateJob` of a new row is `Submit`, a successful
`ResetJob` is `Retry`, a claim is `Run`, `WritePage` is `Write`, and every other
statement is a stutter, the late and repeated status writes included. Its guards
are the point: a retry is granted only to a job that has run, a run only if it was
granted, a concept only within a run.

### Left out

The result of prompt, model, mapper, embedding and merge is a choice. Jobs do not
share rows or messages, so instances have one job. A job's events are never
absent, since only a purge deletes events (`Concepts` has it). `resultSnapshot` and
the request hash are in `Ingest`; malformed messages and provider
resolution beyond "there is none" are data. Authentication
precedes each request and changes nothing here. A lost answer is modelled for the
claim and for the job's final write, not for the statements between them, whose
loss the catch block treats as a failure. `cancelled` is a declared status nobody
writes. Intake of single events, batches
and webhooks creates jobs by the same repository calls and is `Ingest`.

## 4. The other modules

In all of them one action is one statement with the code up to the next `await`
(or, in the portal, one answer or click with the render it leads to), and what a
request or a page keeps across an await is a record of its own. Bounds and names of
faults are CONSTANTS. Where a property is about the past, a history variable or
field says so in its comment.

### Ingest, EventLog

State: `events` (the payload stored under each identity `<<channel, delivery,
item>>`), `jobs` with rows, request hash and snapshot, the requests, the faults so
far. A request is one of six paths (`single`, the command line's `direct`, the tool
`memory_write`, `webhook`, `batch`, `compilation`); it resolves or inserts its items
one after the other, creates or replays its job, writes rows, completes a job with
nothing to do, writes the snapshot, sends. The faults are
`crash`, `sendFails`, `itemFails` (the look-up or the INSERT of an event throws) and
`jobFails` (a statement about the job throws and wrote nothing). A batch and a webhook
swallow a `jobFails`: the batch answers with its items, and with the job once it has
one, and the webhook goes on with the next event (`ingest-batch.ts:348`,
`connector-webhook.ts:261`); the other paths report an error, and so do the look-ups
of a replay and of the classification. Not modelled: a statement that commits and whose
answer is lost, and the look-up in `ingest-one.ts:193`, whose failure is ignored. The
worker is reduced to `WorkerRuns`: it settles rows, completes an announced job and puts
its counts where the snapshot was.

`EventLog` is what those who deliver events are promised: the first payload of an
identity stays, exactly one delivery is told it stored it, every other is told
truly whether it repeats or conflicts. An event written by `memory_write` has
a delivery id made on the spot and a channel of its own (`memory_write.ts:65`), so it
meets no other delivery (`BodiesAssumption`). `KeepsEventLog` maps `stored` to `event` and
`told` to what each item was answered, and holds for every pair of paths, though a
single event and an item `root` of a batch share an identity.

What stays open by design of the code, and is outside the properties' premises: a
request that dies between `insertEvent` and `createJob` leaves an event nobody
compiles, since its replay is answered as a duplicate; a batch that dies between
`createJob` and the snapshot is refused as a conflict from then on; of two batches
with one key running at once, the loser's accepted events get no row; two
compilation requests may queue one event twice; a batch or a webhook whose job fails
has told its client `accepted` of events that no job will run; `ingestOne` only logs a
failed send; the request hash ignores `options.compile`.

### Concepts

State: rows of `concepts`, `concept_paths`, `concept_evidence`,
`concept_contributors` and `job_events`, two workers, a purge and a reader. A
transaction's writes show at its commit and the row it wrote is locked till then;
a purge and a merge can meet in a deadlock, which Postgres ends by aborting one.
A worker recalls a candidate, may find no page or a page that is gone, creates a
page (whose path may be taken) or merges (UPDATE, comparison of evidence, INSERTs),
and records the outcome. The purge deletes table by table in one transaction and
writes its audit record afterwards. A body stands for the event it was written from
and evidence for its fingerprint; title, tags, status and embedding are overwritten
together with the body and are not kept.

A crash after `createConcept` and before `recordCompiled` leaves a page without
outcome, and the next attempt collides with its path or writes a second page. A
worker that loaded its event before a purge can create a page after it. Both are in
the model and contradict none of its properties.

### Membership, ApiKeys

`Membership`: users with their memberships in the order of joining (the members'
routes take the earliest), teams, sessions, invitations, requests. Each request
verifies its session, reads the membership, and goes by what it read: someone
demoted meanwhile still acts. `acceptInvite` is one step, because its transaction
has a connection of its own and locks the invitation's row; the creation of a team
is two, because its BEGIN goes to the pool. `InviteUsedOnce`,
`OnlyOwnersChangeRoles` and `OwnersLostOnlyByRace` are checked from a new server, a
team with two owners, and one with an owner and an admin. Two first logins may
both bootstrap a team, and a crash between a team and its owner leaves it without
one: neither is promised otherwise.

`ApiKeys`: rows of `api_keys`, the pool's connections with the transaction each has
open, the stack of idle connections, requests. `db.$client.query` takes a
connection per statement, so a rotation's `BEGIN`, `UPDATE`, `INSERT` and `COMMIT`
are on one connection only as long as nobody else takes it in between.
`LoneRotationIsAtomic` says that much holds, through errors and idle timeouts.
What a transaction holds back is kept per row; its `UPDATE ... WHERE id` writes
nothing when a rollback on the same connection has taken the row away again.

### Runtime

State: where each process stands, which of its four resources can be used and which
the teardown will still stop, the force-exit timer, the handler, requests, jobs and
messages. Start is database, queue, HTTP server, worker; stop the reverse; a failing
start stops what it started and exits with 1; handlers for signals exist only after
a complete start; a second signal is ignored; one `stop()` that rejects skips the
rest. Draining the queue may take longer than the timer (30 s against 10 s): the
process then exits with 1 and `CleanExitSettles` says nothing of it.

### GitHub, GitHubApi

`GitHub` has both sides: numbers that are issues or pull requests from their first
day, threads that hang below them, times, deliveries that arrive late, again and in
any order; and the handler past the signature, with dispatch, the four normalizers,
removal of private regions (nested, unclosed) and the identity of each item. The link
in a payload is the object's own, its parent's, one to another host or no URL at all; a
comment may come without. A pull request ignores it, a comment's is compared with the
facts, an issue's is kept if it parses (`issue.ts:348`). Times are whole seconds, which
several happenings may share; a payload may lack any of `created_at` (or
`submitted_at`), `updated_at` and `dismissed_at`, and each normalizer has its order of
fallbacks. Bound: one payload is odd in its link or in its times, not in both. A
delivery is handled in one step some of whose items may fail; `Ingest` has its
statements.

`GitHubApi` has the token provider with its cache and margin, exchanges that run at
once, a request with each status, offset paging with changes between two pages, and
the resolution of a commit to issues. The cache is not invalidated by a 401.
The resolver is not called in production yet.

### ProviderSchema, StructuredOutput, LlmSettings

`ProviderSchema` derives the schema that is sent from the two schemas answers are
validated with, and defines which answers each admits. `StructuredOutput` is one
call: the model writes an answer, possibly damaged (line breaks or backslashes raw,
in an envelope, as a string, cut off) and with prose around it: a sentence, a fence, a
remark after it in braces, or before it in braces or in brackets, or an example in the
form of the answer. The scan begins at the first brace or bracket, whichever it is, so
the last three hide the answer, and an example is taken for it; the server's side is the
request, the deadline, the statuses, the scan, the repair, the unwrapping and the
validation. A list parses, but no schema takes one: it counts as a failure. The
algorithms are recursive functions over a sequence of character classes.
`LlmSettings` is the configuration row, the settings page and the onboarding step
of two admins, the PUT that may keep the stored key, the connection test, and what
the compiler resolves. Encryption is external; a key carries the provider it is of.
A save that keeps the key keeps it when the provider changes; a stored key that
cannot be decrypted is sent as the text `__STORED__`.

### Listing, Retrieval, Export, Detail

`Listing`: one table of rows under writers (with timestamps of a transaction's
start, so that a row may appear behind the cursor), the cursor and its filter hash,
the answer of each route, and the page that appends what arrives. Which controls a
page offers in which state comes from its screen. A page holds its answers as sets; the
order within one, by which the jobs page puts failed jobs first, is layout. `Paging`
has what a query with an order and a limit finds.

`Retrieval`: a walk through searches with both sources, fusion, rounding, batch
limits and degradation, relevances as integers so that `0.7`, `0.3` and the third
decimal are what they are. A rank may exceed 1, as `ts_rank` may: fusion clamps it
(`hybrid.ts:114`), and the query by words orders and compares by the rank as it is but
answers, and names in the cursor, the clamped one (`concepts-fts-search.ts:209`). Then
comes the digest with its budget and the preview that
parses it back. A page of a search is a set of rows, and its end is the row a cursor
names.

`Export`: the paged read (rows, paths, evidence: three statements a page),
rendering with links rewritten to files that are there, names around the 100 bytes
of a tar header, the audit record, the answer, and the button that shows it, with
writers, a purge and a project switch in between. A row that fails another check of the
schema (`export.ts:213-250`) is skipped by the code; the model's rows pass them. What was read is a set of concepts,
each with the page it came in; pages that would share a name are refused, as the
renderer does.

`Detail`: the pages of one event, one job and one concept in a tab, the routes they
read with role and scope, the audit record before a payload, retries, purges, role
changes and answers in any order. The event page cancels what it no longer wants;
the concept page does not. The job page and the retry route look at the team only,
not at the project asked for. An answer for a page that has been left is dropped.

## 5. Runs

Twelve: ten pass, two expect a violation. A run over several modules packs
behaviours that do not meet: a behaviour is one of the parts while the others rest
at one initial state of theirs, so nothing is multiplied and nothing hidden (the
`MC` module says it in its Init and Next). `MCAccess`, `MCProviders` and `MCPortal`
are of this kind.

| Run | Instance | What it shows |
| --- | --- | --- |
| `all_faults` | a job of two events; every fault, one per behaviour; 2 handlers, 2 submitters, 1 retry | one claim per submission or retry; concepts written and owed never exceed the claims; `JobLedger` is implemented |
| `worker_faults` | worker crash, failing statement, sweep crash, two per behaviour; 2 admins, 1 retry, 2 redeliveries | types; one owner per job; a queued job always has a message on its way; partial retries keep compiled events |
| `calm_retries` | no fault; 3 handlers, 2 admins, 2 retries | concepts only for pending events |
| `liveness` | all faults but `senderCrash`, two per behaviour; 1 handler, 1 retry, 2 redeliveries; fairness | a job stays neither `processing` nor `queued` |
| `ingest` | 3 requests, 2 in flight, one key, bodies of up to 2 items with 2 payloads on every path; one fault of the four | `EventLog` is implemented; what was answered is on its way; without faults every queued job has a request at work or a message; replays repeat |
| `concepts` | 2 workers, 2 events sharing evidence, 2 paths, 3 compilations, a purge, a reader; one crash | no evidence twice; a text stands with its evidence, for readers too; an outcome's page exists; a purge on record has happened |
| `access` | 3 users, 3 requests, 2 invitations, one of which may expire; or 1 key, 3 requests, 2 connections, one refused statement, one idle timeout | an invitation lets one user in; only owners change roles; one request alone never takes the last owner; a rotation alone is atomic |
| `runtime` | an all-in-one server and a worker, 2 requests, one restart; fairness | no work meets a closed pool; exit 0 leaves nothing open; teardowns end |
| `providers` | 2 deliveries that arrive twice in all; 2 API calls over 3 ticks, 3 repositories behind pages of 2; texts of 3 characters, cut by up to 4; 2 admins, 5 clicks | evidence leads to its object; provider times tell the order; tokens are live on arrival; listings are complete; answers are content the model wrote and legible ones are read; an acknowledged key is used |
| `portal` | 3 rows behind pages of 1, 2 clicks, one failure; 3 concepts of two ranks below 1 and one above, behind pages of 2 and 3, one edit; digests of 3 entries; downloads of 3 concepts with names of 99, 100 and 101 bytes; 3 requests of one tab | walks are exact (by words: for ranks below 1, and for all of them unless a page before the last was all of relevance 1); a calm page is of its filter; the digest is shown as sent; a download is whole; payloads are audited; an event page is of its address |
| `last_owner` (violation) | 2 requests on teams of two | `TeamKeepsAnOwner` |
| `batch_replay` (violation) | as `ingest` | `BatchReplayIsIdentical` |

Actors, events, keys and connections of a kind are interchangeable, which safety
runs use as symmetry (the liveness runs do not). In `access`, requests and key
requests, and invitations and connections, share model values so that one symmetry
serves both parts.

**Why the bounds are enough.** `CompileJobs`: a sweep has something to do only after
a fault, so two faults are the least that interrupt one; `worker_faults` and
`liveness` have them. `all_faults` has one of every kind and the second submitter, and
what it checks is proved for any number. Two handlers are the least that can race for a
claim, three the least that can race while one is late; two resets let a message
of the first retry meet the second. Two events distinguish "all failed" from "some
failed". `RetryLimit` is 1 or 2 instead of 3, and never below the number of faults where
a queued job is to be delivered: the claim is outside the try block
(`worker.ts:115`), and a claim that throws at every delivery uses the message up.
`Ingest`: two requests race, the third comes to what they left. `Concepts`: two
workers on one page, a third compilation repeats an event, one purge meets all of
them. Pages of one row over three rows have a first and a next page, and
two rows of one time at a boundary; 2 of 3 repositories fill a page exactly or not.
Texts of three characters hold a backslash, what follows it and what follows that; a cut
of four takes an envelope's braces, a quote and a character. (Walks and texts of any
length are proved, section 8.) Names of 99, 100 and 101 bytes are the last that fits,
the first that does not, and one beyond. Two ticks around the margin of a token are the least in which a
check and an arrival fall on different sides of its expiry.

**Deadlock** is checked for the jobs and for `Concepts`. Elsewhere a behaviour ends
when its requests, clicks or restarts are used up, and the configurations say so.

**Kept beside the runs.** These hold in the same instances and were left out so that
each run asks one question: `PagesWithinAttempts` and `BegunIsClaimed` (proved),
`ErrorOnlyWhenFailed`, `CompletedIsSettled`, `RetryNotRepeated`,
`InterruptedIsRetryable` (`MC_no_retry.cfg`); the type invariants of the other
modules; `RefusedWasRequested` (`Ingest`), `PageIsWhole` and `OnlyPurgeForgets`
(`Concepts`), `OwnersMakeOwners` (`Membership`), `AnswersHold` and
`OneHeirUnlessOverlapped` (`ApiKeys`), `MissedOnlyInTeardown` (`Runtime`),
`RedeliveryIsDuplicate` and `PrivateStaysOut` (`GitHub`), `LinksAreEarliest`
(`GitHubApi`), `SteeringAdmits` (`StructuredOutput`), `ForeignLooksAbsent`
(`Listing`), `CloserIsNoLess` (`Retrieval`), `PagesAreSupported` (`Export`),
`RetryIsShown` (`Detail`).

What the passing runs leave out is deliberate. `worker_faults` has no overrun:
with one, two handlers do run one job. `calm_retries` has no fault together with a
retry: there, a redelivered message can be claimed between the two statements of a
reset, and from then on a completed job may have pending events. Both are in
section 7.

## 6. Fairness

`CompileJobs`: weak fairness, on what the runtime does unasked. pg-boss fetches a ready
message while a handler is free and expires an abandoned delivery; a handler
reaches its next statement (each model call has a 30 s deadline, each statement
returns or throws); the sweep's interval fires; a request that started runs on.
None on faults, on submissions, or on retries by an admin.

`Runtime`: weak fairness of each step of a teardown that is possible (the event loop
runs it), of the timer, and of a request's next statement. None on a handler: a model
call may outlast the teardown, which is why `TeardownEnds` needs the timer. None on
signals, crashes or restarts.

The other modules have no liveness properties: nothing in that code retries by
itself.

## 7. Where code and comments part

Two runs expect a violation, each the claim of a comment and the behaviour that
refutes it:

| Run | Claim | Behaviour |
| --- | --- | --- |
| `last_owner` | `http/routes/members.ts:230` and `:311` "Last-owner protection enforced" | two owners count two owners each and demote or remove each other; count and write are two statements |
| `batch_replay` | `ingest/ingest-batch.ts:86` replays are "byte-level identical" | the worker stores its counts over the snapshot (`compile-job.ts:685`) and the replay is answered without results |

The following configurations are not among the runs; each is one more counterexample,
found with `tlc -config <file> <module>`. Where a file has several properties, those
after the first stand in comments, to be activated one at a time.

| Configuration (module) | Claim or expectation | Behaviour |
| --- | --- | --- |
| `MC_catch_overwrites` (`MCCompileJobs`) | `queue/worker.ts:212` only a job still `processing` is moved | the final write commits, its answer is lost, and the catch block fails a completed job |
| `MC_failed_after_success` | `db/repositories/jobs.ts:443` a job fails only when every event fails | a partial retry counts only the events it ran |
| `MC_sweep_takes_live` | `jobs.ts:521` a job in flight on a live replica is never stale | a long batch outlives the threshold |
| `MC_reset_not_atomic` | `jobs.ts:439` the reset is atomic, and cannot touch a running job | a redelivered message is claimed between its statements |
| `MC_retry_is_noop` | `worker.ts:204` pg-boss retries the failed job | the redelivery is dropped, since the job is not `queued` |
| `MC_replay_strands` | `enqueue-compilation.ts:19` a retry re-attempts the send | the endpoint answers the retry before it gets there |
| `MC_replay_overwrites` | `enqueue-compilation.ts:107` only missing rows are filled in | the upsert sets recorded outcomes back to `pending` |
| `MC_batch_replay` (`MCIngest`), its second property | `BatchJobIsNullWithoutCompile` (`packages/schema/src/ingest.ts:113` "null when compile=false") | of two batches with one key, the one that loses the INSERT finds no snapshot yet and names the other's job (`ingest-batch.ts:347`) |
| `MC_stale_freshness` (`MCConcepts`) | `concepts-merge.ts`, header: only a confirmation touches `last_confirmed` | a merge that extends writes back the value it read before another's confirmation |
| `MC_rotation_not_atomic` (`MCAccess`) | `http/routes/keys.ts:266` old and new key change "simultaneously" | another request takes the connection in between: the statements commit apart |
| `MC_rounded_cursor` (`MCPortal`) | `compiler/search/hybrid.ts:11` stable pagination | the cursor's relevance is rounded up past the row it names, and the next page is the same page |
| | `KeywordWalkIsWhole` (`hybrid.ts:110-113` the clamp keeps "cursor comparisons" stable) | the cursor is clamped and the rank it is compared with is not (`concepts-fts-search.ts:209`): after a page that ends above 1, the other concepts above 1 are skipped |
| `MC_portal_counterexamples` | `ConceptIsOfItsAddress` | a late answer is shown under another concept's address: this page has no cancellation |
| | `PageIsOfItsFilter` | rows of the earlier filter arrive last |
| | `ErrorsCanBeRetried` | the audit page's error screen offers nothing |
| | `FiltersApply`, `DegradationIsExplicit` | vector recall ignores the filters (`hybrid.ts:329`); a page above the neighbours' limit is not semantic and does not say so |
| | `CursorStaysValid` (`render-okf-bundle.ts:150` "never") | a purge between two pages makes the cursor's row vanish: the download ends in an error |
| | `FeedbackIsOfProject` | the outcome of a download is shown under the project switched to |
| `MC_providers_counterexamples` (`MCProviders`) | `ModelIsOfProvider` (`settings-llm-page.tsx:289`) | a list of models arrives after another provider was chosen |
| | `ReferencesAreLinked`, `OpenHeadIsTip` (`anchor-resolver.ts`) | "closes #1 fixes #2" loses the second; an open pull request counts whether or not the commit is its tip |
| | `BackslashesAreRepaired` (`llm/factory.ts:493`) | a backslash before a raw line break leaves the text unreadable |
| | `PayloadIsRecovered` (`llm/factory.ts:571-576`) | a remark in braces or brackets, or an example, before the answer is extracted in its place |

## 8. Proofs

Every theorem holds for any sets of actors, events, keys and pages, for any bound on
faults, and, unless a hypothesis says otherwise, for any subset of the faults. Each
inductive invariant was first checked by TLC as an invariant of the instance of the
run. Together they state 37 of the properties the runs check, and
eleven more the runs leave out (`PagesAreSupported`, `CloserIsNoLess`, `BegunIsClaimed`,
`OwnersMakeOwners`, `PagesWithinAttempts`,
`PageIsWhole`, `OnlyPurgeForgets`, `MissedOnlyInTeardown`, `RefusedWasRequested`, and
the type invariants).

`CompileJobs_proofs` holds for any finite set of handlers and any retry limit. Assumed: `ActorsAssumption` and `BoundsAssumption`.

- `TypeCorrect`: `TypeOK` is inductive. One lemma per group of actions; the helper
  lemmas say what a change of one handler, request or message does to its type.
- `ClaimsBounded`: `attempts + [queued] <= resets + [exists]` is inductive with the
  types. A claim turns a queued run into an attempt, a submission or a reset adds one
  to both sides, and the unconditional status writes of late handlers, of the
  catch block and of the sweep can only lower the left side, because none of them writes
  `queued`. `StatusSteps` isolates the statements that matter.
- `PagesBounded`: `page <= attempts` is not inductive: nothing in it says that a
  running handler still has a right to write. `PagesAccounted` adds the
  handlers that owe a concept (claimed, or with the event on their list and its
  concept unwritten) and that a handler has at most one concept unrecorded. A
  claim adds one attempt and at most one debtor, a write moves one from owed to
  written, and every other step can only drop debtors.

- `ClaimedBeforeBegun`: `BegunIsClaimed` is inductive with the types. `StatusSteps`
  says which handlers write a status, `BegunSteps` that a handler gets where it may
  do so only through the claim, and `AttemptsGrow` that attempts never fall.
- `LedgerKept`: `Spec => Ledger!Spec`. The guard of `Retry` comes from
  `BegunIsClaimed` (a terminal job has attempts), that of `Run` from
  `ClaimsWithinRetries` (a queued job has a run left), that of `Write` from
  `PagesAccounted` (a handler about to write is owed a concept), that of `Submit`
  from `AbsentIsFresh`, an invariant of its own: a job without a row was never
  reset. `StatusSteps`, `AttemptsSteps` and `PageSteps` show that nothing else
  touches the ledger.

What the rest of the module shows does not hold under every fault, and each
theorem names the faults it excludes; section 7 has the counterexample for each.

- `OneOwner` (`OwnersAreSure`: no `overrun`, no `ackLost`): `SingleOwner` is not
  inductive, since a status write by one handler could open the job to another.
  `OwnInv` adds that a handler past its claim finds its job `processing` and not aged
  (`OwnerHasJob`), so that neither claim nor sweep nor reset gets at it. With an
  overrun, the sweep takes a job from a live handler (`MC_sweep_takes_live`), and a
  retry gives it a second owner.
- `OnlyPendingWritten` (also `WorkersAreSound`: no `workerCrash`, no `dbError`):
  adds that a `processing` job has a handler at it and that what the handler has yet
  to settle is pending. Either fault alone
  breaks it: the sweep fails an abandoned job, an admin retries it, and the sweep's
  second statement then fails the rows the new handler has just loaded.
- `CompiledIsKept` (`OwnersAreSure`, `OneProducer`): `CompiledInv` adds that what a
  handler has yet to settle is not compiled, and that a job is untouched until the
  request that submits it has sent. A second request with the key undoes a row
  (`MC_replay_overwrites`).
- `QueuedAnnounced` (`SendsAreSure`: no `senderCrash`, and no more faults than
  redeliveries): `QueueInv` follows the latest message of a job, the one sent for
  its last submission or reset: it is still to be sent by a request that is running,
  under way with as many redeliveries left as faults may still come, or with a
  handler that has not claimed. Overruns, crashes and lost answers are allowed.
  A message used up by failing claims strands a job, which is why the number of
  faults is bounded.

The hypotheses are met by the runs: `worker_faults` has the faults of `OneOwner`,
`CompiledIsKept` and `QueuedAnnounced`, `calm_retries` those of `OnlyPendingWritten`.

`Ingest_proofs` assumes what `Ingest` does (`BodiesAssumption`, `FaultsAssumption`,
`NoneAssumption`: what a request may ask, and that nothing is not something). Its
`Inv` has two halves. `RequestInv` says where a request is and what it has told so
far (`InOrder`, `Placed`), that what it says is stored is stored (`StoredIsThere`),
and by one delivery (`StoredOnce`). `JobInv` relates jobs to requests: an event's
own job was made by the request that stored the event (`EventJobsAreTheirs`); what an
owner or a creator owes to a job, statement by statement, until it is announced
or over (`OwnersSettle`, `CreatorsSettle`); there is one creator (`OneCreator`), whose
answer is the snapshot until a worker replaces it (`SnapshotsAreAnswers`); and a
row is of a job someone asked for (`RowsWereAsked`).

- `AnswersAreKept`, `ReplaysRepeat` follow from `Inv`; `QueuedAreHeld` and
  `RefusalsWereRequested` are inductive beside it. That a job of a key has one creator
  is what makes the answer of a replay that of the first request, and why only the
  creator's crash or lost message, or a statement of its own about that job that threw,
  excuses an answer (`lost`): a failure that is swallowed takes no other job with it.
- `IntakeKeepsTheLog`: `Spec => Log!Spec`. Each statement appends at most one
  verdict of one request (`Hears`); an insertion is `Accept` of the log,
  a verdict on a row that is there `Refuse`, and everything else a stutter. `StoredIsThere`
  and `StoredOnce` give the guards: two requests never both say they stored one
  identity, although the look-up and the insertion are two statements.

`Concepts_proofs` assumes `EventsAssumption`. One `Inv` carries all its theorems,
because each part needs the others. Evidence is unique (`EvidenceStandsOnce`) because a
merge that has compared it still holds its page (`Compared`, `Exclusive`). A text
has its evidence (`TextHasItsEvidence`) because a page is committed with it, and a
merge commits text and evidence at once. A purge takes pages whole because it
began when nobody held one (`PurgeOK`, `Apart`), so `OutcomesNamePages`,
`PagesAreWhole` and `KnowledgeIsKept` hold beside it. A reader sees what the tables keep
whole, unless a purge committed since its first statement (`ReaderOK`:
`AnswersAreSupported`). `RecordedPurgesHappened` needs `AuditsOK`: the audit record
follows the commit.

`Runtime_proofs` assumes that `None` is no process and no resource. `PoolStaysOpen`
is not inductive without the order of start and teardown: `Inv` (theorem `Ordered`)
says that what is up will be stopped (`Stacked`), that whatever will be stopped has
below it what it stands on, and that a handler has its queue, a request its HTTP
server. `StopsInOrder` and `StartsInOrder` derive from `SHUTDOWN_ORDER` and
`StartOrder` that the database is last and the queue outlasts what needs it.
`CleanExitsSettle` follows: exit with code 0 comes after the last resource, whose
drain waits for its work. `OnlyTeardownsMiss` says when a message is missed.

`Membership_proofs` holds for any users, teams, invitations and requests.
Assumed: `InitialAssumption` (a user starts with at most one membership of a team)
and `NoneAssumption` (nothing is not a role).
`InvitesAreSingleUse`: `InviteUsedOnce` is not inductive, because a claim adds one to a count whatever it claims. `OneUse` adds that a request about
to claim has seen a row (`ClaimsSeenRow`: only `LookupInvite` sends one there, and
rows are never taken away), and that counts are numbers. Then the state re-read
under the lock is the argument: a valid row has count zero, and the claim makes
it used; creation and expiry leave a row whose count is zero.

`RolesAreGiven` is the invariant behind the theorems about roles. It has to
say why it does not matter that a role is read statements before it is used. A
request acts on a team's members only if its user has been an owner there
(`Granted`; who has been one is never forgotten, while who is one may change), an
invitation to be an owner was made by one, and a team between its two rows is named by
nothing but the request that founds it (`TeamsFounded`), so that its founder cannot
displace anyone. Each of the four writes reaches one user in one team (`Changes`).

- `OwnersChangeRoles`, `OwnersComeFromOwners`: of the four writes, a founder's and a
  guest's are on a user without a role in the team, a removal leaves none, and a
  change is a former owner's. Nothing is said of the role the user has by then: a
  demoted owner's request still goes through, as in the code.
- `OwnersLostByRace` needs `Spares`: the count of the owners, taken before the write,
  left another owner, and every other write to the team since then marks the request as
  overtaken. `TeamKeepsAnOwner` without that excuse is false (`MC_last_owner`).
- `RowsKeepTheirKeys`: `TypeOK`, with one membership per user and team.

Of `ApiKeys` the same module holds for any keys, requests and connections. Assumed:
`KeysAssumption` (the initial keys are keys, the bounds are numbers, nothing is neither a
key nor a connection nor the state of a row).
`LoneRotation` needs the rotation followed from its first statement on (`KeysInv`). Alone
on the server, it takes each time the connection that became idle last, which is the one
its last statement was on (`Alone`); the idle timeout may close any other, but not this
one. So it finds there the transaction it has opened and the rows it holds back
(`Progress`), and the commit applies both at once. `Rows` says why that makes a difference
to both keys: the old one was live when it was read, in the view of that connection, and
nobody else could touch it since; the new one is nowhere before its mint. A connection that
an earlier rotation has left open or aborted is no exception: a `BEGIN` on it fails, or
joins the transaction.

`Providers_proofs` is about three of the parts that deal with the outside. Of `GitHubApi`
it holds for any calls, pull requests, lists of repositories, page sizes and caps.
Assumed: `PagesAssumption` (a page and the cap are not zero) and `TimingAssumption`, that is, a request reaches GitHub within
`TOKEN_EXPIRY_MARGIN_MS` (five minutes), and an exchange and a request together
take less than a token lives (an hour). The code sets no deadline on these
requests, so this is an assumption about the network.
`NoExpiredToken`: `ApiInv` dates each request: it left at most `Latency` ago and its token
outlives its latest arrival. `TokenKeeps` has it from the margin for a cached
token, `RefreshKeeps` from the age an exchanged token can have, `TickKeeps` from
the clock that waits for what is due; whichever exchange filled the cache last does
not matter, as the margin is looked at when the token is taken.
`ListingsAreComplete`: a listing nothing was taken from holds the pages before the
one it asks for, and GitHub's list is the one it began with (`Listed`). `PagesOf` is the
arithmetic: a page that is not full is the end of the list, and only then, or at
`MAX_PAGES`, the loop stops. An edit marks every listing that is under way, so what
remains is about lists that stood still; for the others nothing is promised, as in the
code.

Of `GitHub` it holds for any numbers, threads, commits, deliveries and arrivals, and
assumes nothing. `HookInv` has two layers: what a delivery says agrees with the world it
tells of (`TellsOf`), which never changes since kinds and homes are for ever; and a stored
event was made of its delivery by one of the normalizers (`MadeOf`), whenever it came.

- `EvidenceIsTrue`: the dispatch and the pointer leave each kind of event to the objects
  it is of, and a link that agrees with the facts of the payload is the permalink
  (`PermalinkIsTrue`). An issue's link is only known to be one GitHub sent, or its own.
- `ProviderTimesOrder`: the times of an object never go back (`InOrderUntil`), so whatever
  a normalizer falls back on is not later than the delivery's own time, and is that time
  when the payload has it (`ChosenTime`). Two changes of one second share a time. A
  payload that lacks its own time may be dated before what preceded it, which is why the
  later of the two must have it (`SaysWhen`); a deletion never has, and an edited review
  without a time of its own is dated by the server.

Of `LlmSettings` it holds for any admins and clicks. Assumed: `NoneAssumption`
(nothing is neither a row nor a key).
`StoredKeyIsUsed`: `AcknowledgedKeyIsUsed` speaks of a save that has been answered. The
invariant follows it from the write on (`SavesStand`): a save that nobody has written
over (`Stands`) is what the row says, with a key that was really issued. A save that
kept the old key read it one statement before it writes it back, and is never such a
save; one that was acknowledged was alone, and the next click takes that away from it.
A connection test writes the same row between the two, but not its provider or key.

`Portal_proofs` holds for any records and any number of calls and retries, and assumes
nothing. `DetailInv` relates the calls to the page they were made by.
- `PayloadsLeaveAudited`: an event's call has got as far as its role and the audit log
  let it (`CallGood`), so whatever the page was ever shown since it was mounted was
  recorded, for a reader who was a member when the request came, though he may not
  be one any more.
- `EventsAreOfTheirAddress`: a call that is still heard asks for the page's own address,
  because every change of address takes the hearing from the calls before it; the
  record the page shows is therefore its own, or the page shows that it is loading.

Of `Listing` it holds for any rows, clock, page size, clicks and failures. Assumed:
`ListingAssumption` (ids are natural numbers, of which there are finitely many, a page
has a row, and nothing is neither a cursor nor an answer). `RanksTell` and `FirstPage`
are about any query with an order and a limit: how many rows come before a row tells the
rows apart, so a page is what does not come after its last row. `PageContinues` makes of it what an
answer to a cursor holds.
`ListInv` says, while nobody has acted out of turn, what the pages up to the cursor hold
(`Walked`): of the rows there from the first page on, those that do not come after the
cursor once and the others not at all. The one request under way is about the filter and
the cursor of the page, and its answer is what comes next (`Continued`), however the
table changes before it arrives: writers never bring back a row that was read
(`Older`), as ids are used once and a rewrite makes a row of another version.

- `WalksAreExact`: without a cursor, nothing comes after it.
- `CalmPagesAreOfTheirFilter`: every page was read under the filter of the walk, and a
  cursor carries it, so the server never refuses it.

A list whose first page fails keeps the rows and the cursor an earlier one has left, under
the filter chosen since; it is not calm. The proof needed this said: with more failures
than the run allows, the rows of two filters would stand side by side.

Of `Retrieval` it holds for any concepts, ranks and page sizes. Assumed:
`RetrievalAssumption` (ranks are natural numbers without an upper bound, similarities are integers, sizes,
lengths, the budget of tokens and ids natural numbers, a token is at least one character,
there are finitely many ids, and nothing is neither a cursor nor a concept). A behaviour may leave the words
for the vectors at any page; `FindInv` speaks of walks that never did (`WordsOK`).

- `KeywordWalksAreExact`: the pages so far hold, once, the unedited concepts up to the
  cursor and of the unedited no other (`WordsWalked`, `ShownOnce`); an edit only takes a
  concept out of what is promised. It rests on the cursor being the clamped rank itself:
  rounded to three decimals, as the answer shows it, two concepts could share a place.
  A clamped cursor says less than the rank where a page ended (`AnsweredPage`): below 1 it
  is the rank, and a page that ends at 1 is all of relevance 1 (`Blunt`), after which the
  rest of the ranks of 1 and more may be skipped, but nothing is shown twice and nothing
  below 1 missed. The fused walk has
  no such theorem, since it does round (`MC_rounded_cursor`).
- `CloserIsNeverLess`: a batch holds whatever scores higher than anything it holds
  (`BatchIsUpward`), so of two concepts the closer one never misses a score the other
  has; the weighted sum, the clamp and the rounding keep the order.
- `DigestsAreShown`: a digest is within its budget, and the preview that reads the text back
  shows its concepts each under its own title, none of low confidence, and before each
  exactly the concepts that go first. It holds for any number of entries of any length.
  The digest is put together by recursive functions over numbers, so two lemmas carry the
  induction: `UpTo` (a set of numbers with the first and with the next of each it has holds all
  of them) and `StepByStep` (what a function that is defined by its last step returns).
  `DigestAssembled` says what is in the text after each entry, `DigestRead` what
  the reader has found after each line.

Of `Export` it holds for any concepts, file names of any length, page sizes, links and
numbers of creations, merges and purges. Assumed: `ExportAssumption` (a path belongs to
one concept, uuids are ordered like numbers, a name field takes the name of the index).

- `DownloadsAreWhole`: `ExportInv` says what has been read up to the cursor
  (`ReadUpTo`): of what was there at the request and not purged since, everything
  before the cursor, under its path and with at least its evidence; nothing that was
  read lies beyond, so no concept comes twice, though writers commit with times before
  the cursor. For the page in hand `PageOf` says the same up to the next cursor, for
  whichever of its statements have answered. A purge empties the promise with the tables. The
  renderer's backstop therefore never speaks (`NoneCollide`), and unpacking the archive
  gives back what was packed (`TarIsFaithful`).
- `PagesCiteTheirBody`: the evidence of a page is read after its rows and only grows,
  so the event a body comes from is among what the page cites (`PagesAreSupported`).

`StructuredOutput_proofs` holds for free text of any length, with any characters of it
written raw, in any envelope and prose, and for a cut at any character. Assumed:
`MaxSaidAssumption` (the bounds are numbers). The library's induction theorems take an
operator and cannot be used; `UpTo` and `TextInduction` say the same of sets (a set of
texts that holds the empty one and, with a text, every one a character longer holds them
all), and `StepByStep` that a recursive function over a text is what its last step says. So
`UnescapeRuns`, `RepairRuns`, `ScanRuns` and `EscapeRuns` give each algorithm of
`llm/factory.ts` one character at a time.

- The invariant `CallInv` follows the text as it is written (`Written`): the open string,
  and the repair of it, both say what the model meant so far or have become unreadable
  (`Matched`, kept by every character: `MatchedOn`), and the repair stays readable while the
  damage is of the kinds it is made for. A raw backslash hangs until the next character
  decides whether it reads as an escape (`Hanging`); a raw quote, or a backslash that does,
  makes the text ambiguous (`Misread`), and nothing is promised.
- `AroundLenient`: closed, wrapped and cut off, such a text is read as what it says, or as
  the empty object of a remark, or not at all; whole and with nothing before it that hides
  it, as what it says; after an example, as the example (`ExampleLenient`). The scan is
  followed from either opener (`ScanRunsFrom`, `Openers`). It rests on where the scan for the end of a value stops
  (`ScansClosed`, `PartScans`), on what `JSON.parse` makes of a part (`PartParses`), and on
  the repair leaving braces and prose alone (`RepairsOutside`, `ProseStays`).
- `AnswersAreWritten` and `LegibleAnswersAreRead` follow (`JudgedRight`). An answer
  that is serialized in its envelope is read twice: `EscapeMatched` says that the string
  inside comes back as it was escaped, and what it holds is then read as above. A string
  whose end was cut off is never taken for a shorter string.

Out of TLAPS's reach and left to TLC: liveness under fairness
(`ProcessingEnds`, `QueuedEnds`, `TeardownEnds`), and anything with ENABLED. Every other property
of a passing run is stated by a theorem. Of the algorithms, the references of
`GitHubApi` are checked only by the run that refutes what is said of them.

## 9. Not modelled

| Part | Why |
| --- | --- |
| `http/wait-for-job.ts` | a poll over one column with a deadline; `Runtime` lets it end at any time. In the plan |
| `compiler/f1/skip-filter.ts`, `to-concept.ts`, `prompt.ts` | regular expressions and text; their result is a choice in `CompileJobs` and `Concepts`. In the plan as pure algorithms |
| canonical JSON, hashing | a payload is a value here, and two payloads are equal or not |
| `http/routes/projects.ts` | single-row reads and writes without a protocol |
| the exchange of an OAuth code, its signed state, the signature of a webhook, encryption of secrets | cryptography; represented by their outcomes |
| MCP transport and session | the tools call the intake, search and read functions that are modelled; the transport is a library |
| `bootstrap.ts`, the scripts, configuration from the environment | run once, by hand or at start; a wrong value is refused at the start |
| `http/errors.ts`, `health.ts`, `spa.ts`, the wire contract | serialisation and type declarations |
| migrations and schema | the constraints that matter (unique indexes, foreign keys, cascades) are guards of the actions that meet them |
| portal: members, keys, sources, onboarding, layout | one load and one action at a time over routes that are modelled; only their save of the model settings is (`LlmSettings`) |
| `src/scripts/m1-*.ts` | offline evaluation, not part of the running system |

Rows are kept small on purpose: texts are members of small sets, times are ticks,
and what only formats, logs or lays out is left out.
