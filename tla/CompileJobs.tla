---------------------------- MODULE CompileJobs ----------------------------
(***************************************************************************)
(* The life of a compilation job: the row in `jobs`, its rows in           *)
(* `job_events`, the pg-boss messages that announce it, and every process  *)
(* that writes them -- the request that submits it, the worker handler     *)
(* that runs it, the stale-job sweep that gives up on it and the admin     *)
(* request that retries it.                                                *)
(*                                                                         *)
(* One action is one statement against Postgres, with the code between it  *)
(* and the next await, because that is the granularity at which the        *)
(* processes interleave: none of these code paths opens a transaction.     *)
(*                                                                         *)
(* Jobs never share rows or messages, so the interesting instances have    *)
(* one job and several actors.  Every job covers the same Events.          *)
(***************************************************************************)
EXTENDS Naturals, FiniteSets

CONSTANTS
  Jobs,         \* job ids; a producer's idempotency key names one
  Events,       \* the events of a compilation request
  Handlers,     \* handler invocations that may be alive at once, all workers
  Admins,       \* POST /v1/jobs/:id/retry requests in flight at once
  Producers,    \* POST /v1/compilations requests in flight at once
  Sweepers,     \* worker processes, each with its stale-job sweep
  NoJob,        \* "no job", for idle actors
  RetryLimit,   \* pg-boss retryLimit: redeliveries of one message
  MaxResets,    \* bound: successful retries of one job
  Faults,       \* the kinds of fault this instance may suffer
  MaxFaults     \* bound: faults in one behaviour

AllFaults ==
  { "workerCrash",  \* a worker process dies with a handler in it
    "overrun",      \* a handler is still running after expireInSeconds
    "dbError",      \* a statement of the worker throws, nothing written
    "ackLost",      \* the claim or the job's final write commits, its answer is lost
    "sweeperCrash", \* the sweep dies between its two statements
    "senderCrash" } \* a request dies, or its send fails, before the message

ASSUME ActorsAssumption ==
  /\ NoJob \notin Jobs
  /\ IsFiniteSet(Handlers)
  /\ Faults \subseteq AllFaults
ASSUME BoundsAssumption ==
  /\ RetryLimit \in Nat
  /\ MaxResets \in Nat
  /\ MaxFaults \in Nat

VARIABLES
  status,    \* jobs.status, "absent" before the row exists
  error,     \* jobs.error.code
  attempts,  \* jobs.attempts
  aged,      \* jobs.started_at is older than staleAfterMs
  row,       \* job_events.status of each event, "absent" before the row exists
  page,      \* history: concept writes done for each event of the job
  msg,       \* the pg-boss messages: 0 has the job's own id, n > 0 is retry n
  resets,    \* history: successful resetJobForRetry calls
  handler,   \* the handler invocations
  admin,     \* the retry requests
  producer,  \* the compilation requests
  sweep,     \* jobs the sweep has failed and whose events it has yet to fail
  faults     \* faults so far

columns == <<status, error, attempts, aged>>
tables  == <<columns, row, page>>
actors  == <<handler, admin, producer, sweep>>
vars    == <<tables, msg, resets, actors, faults>>

-----------------------------------------------------------------------------

\* `cancelled` is declared and never written.
JobStatus == {"absent", "queued", "processing", "completed", "failed"}
Terminal  == {"completed", "failed"}
ErrorCode == { "none", "no_events_found", "no_llm_provider", "all_events_failed",
               "worker_failure", "worker_interrupted" }
RowStatus == {"absent", "pending", "compiled", "skipped", "failed"}
MsgState  == {"unsent", "ready", "active", "done", "dead"}
Sends     == 0 .. MaxResets
RetryMode == {"failed", "all"}

HandlerState ==
  [ pc      : {"idle", "fetched", "claimed", "loaded", "reject", "loop", "catch",
               "return", "throw"},
    job     : Jobs \cup {NoJob},
    send    : Sends,            \* the message this invocation was delivered
    late    : BOOLEAN,          \* pg-boss has given the delivery up
    todo    : SUBSET Events,    \* events loaded and not yet settled
    written : SUBSET Events,    \* the event whose concept is written, not recorded
    anyOk   : BOOLEAN,          \* compiledCount + skippedCount > 0
    reason  : ErrorCode ]       \* the error a "reject" is about to write
AdminState ==
  [ pc : {"idle", "events", "reset", "rows", "send"}, job : Jobs \cup {NoJob},
    mode : RetryMode, send : Sends ]
ProducerState ==
  [ pc : {"idle", "create", "rows", "send", "answered"}, job : Jobs \cup {NoJob},
    todo : SUBSET Events ]

IdleHandler  == [pc |-> "idle", job |-> NoJob, send |-> 0, late |-> FALSE,
                 todo |-> {}, written |-> {}, anyOk |-> FALSE, reason |-> "none"]
IdleAdmin    == [pc |-> "idle", job |-> NoJob, mode |-> "failed", send |-> 0]
IdleProducer == [pc |-> "idle", job |-> NoJob, todo |-> {}]

Init ==
  /\ status   = [j \in Jobs |-> "absent"]
  /\ error    = [j \in Jobs |-> "none"]
  /\ attempts = [j \in Jobs |-> 0]
  /\ aged     = [j \in Jobs |-> FALSE]
  /\ row      = [j \in Jobs |-> [e \in Events |-> "absent"]]
  /\ page     = [j \in Jobs |-> [e \in Events |-> 0]]
  /\ msg      = [j \in Jobs |-> [n \in Sends |-> [state |-> "unsent", left |-> RetryLimit]]]
  /\ resets   = [j \in Jobs |-> 0]
  /\ handler  = [h \in Handlers |-> IdleHandler]
  /\ admin    = [a \in Admins |-> IdleAdmin]
  /\ producer = [p \in Producers |-> IdleProducer]
  /\ sweep    = [s \in Sweepers |-> {}]
  /\ faults   = 0

\* A fault of kind f happens in this step; a step without one leaves the budget.
Fault(f) == /\ f \in Faults
            /\ faults < MaxFaults
            /\ faults' = faults + 1
NoFault  == UNCHANGED faults

-----------------------------------------------------------------------------
(* The job repository.                                                     *)

Keep == "keep"  \* updateJobStatus without opts.error leaves the column alone

\* updateJobStatus: writes whatever the current status is.  Entering
\* `processing` restarts the started_at clock; a terminal status leaves it.
UpdateJobStatus(j, s, e) ==
  /\ status' = [status EXCEPT ![j] = s]
  /\ error'  = [error EXCEPT ![j] = IF e = Keep THEN @ ELSE e]
  /\ aged'   = [aged EXCEPT ![j] = IF s = "processing" THEN FALSE ELSE @]
  /\ UNCHANGED attempts

\* upsertJobEvent: at most one row per (job, event), the last writer wins.
UpsertJobEvent(j, e, s) == row' = [row EXCEPT ![j][e] = s]

\* claimJob: one atomic UPDATE ... WHERE status = 'queued'.
Claimable_Any(j) == TRUE  \* mutant: the WHERE clause forgets the status
Claimable(j) == status[j] = "queued"
ClaimJob(j) ==
  /\ Claimable(j)
  /\ status'   = [status EXCEPT ![j] = "processing"]
  /\ attempts' = [attempts EXCEPT ![j] = @ + 1]
  /\ aged'     = [aged EXCEPT ![j] = FALSE]
  /\ UNCHANGED error

\* The events a worker loads: getJobEvents filtered on `pending`.
PendingEvents_All(j) == {e \in Events : row[j][e] # "absent"}  \* mutant: no filter
PendingEvents(j) == {e \in Events : row[j][e] = "pending"}

-----------------------------------------------------------------------------
(* The queue: pg-boss behind CompileQueue.                                 *)

\* send: an id that already exists is not inserted a second time.
Send(j, n) ==
  msg' = IF msg[j][n].state = "unsent" THEN [msg EXCEPT ![j][n].state = "ready"] ELSE msg

\* A failed or expired delivery is retried until retryLimit, then given up.
Exhausted_Early(m) == m.left <= 1  \* mutant: the limit is off by one
Exhausted(m) == m.left = 0
Redeliver(j, n) ==
  msg' = [msg EXCEPT ![j][n] =
            IF Exhausted(@) THEN [@ EXCEPT !.state = "dead"]
                            ELSE [state |-> "ready", left |-> @.left - 1]]

\* The consumer fetches a message and calls the handler with it.
Deliver(h, j, n) ==
  /\ handler[h].pc = "idle"
  /\ msg[j][n].state = "ready"
  /\ msg' = [msg EXCEPT ![j][n].state = "active"]
  /\ handler' = [handler EXCEPT ![h] =
       [IdleHandler EXCEPT !.pc = "fetched", !.job = j, !.send = n]]
  /\ UNCHANGED <<tables, resets, admin, producer, sweep, faults>>

\* The invocation the current delivery of message n of j was made to.
Holds(h, j, n) ==
  /\ handler[h].pc # "idle"
  /\ handler[h].job = j
  /\ handler[h].send = n
  /\ ~handler[h].late

\* The delivery of a dead worker expires.
ExpireAbandoned(j, n) ==
  /\ msg[j][n].state = "active"
  /\ \A h \in Handlers : ~Holds(h, j, n)
  /\ Redeliver(j, n)
  /\ UNCHANGED <<tables, resets, actors, faults>>

\* The delivery of a live handler expires: pg-boss gives it up and may deliver
\* the message again, and nothing stops the handler.
ExpireOverrun(h) ==
  LET j == handler[h].job
      n == handler[h].send
  IN /\ Fault("overrun")
     /\ handler[h].pc # "idle"
     /\ Holds(h, j, n)
     /\ Redeliver(j, n)
     /\ handler' = [handler EXCEPT ![h].late = TRUE]
     /\ UNCHANGED <<tables, resets, admin, producer, sweep>>

\* The handler returned: its message is completed, unless it was given up.
Acknowledge(h) ==
  LET j == handler[h].job
      n == handler[h].send
  IN /\ handler[h].pc = "return"
     /\ msg' = IF handler[h].late THEN msg ELSE [msg EXCEPT ![j][n].state = "done"]
     /\ handler' = [handler EXCEPT ![h] = IdleHandler]
     /\ UNCHANGED <<tables, resets, admin, producer, sweep, faults>>

\* The handler threw: its message is retried, unless it was given up.
Reject(h) ==
  /\ handler[h].pc = "throw"
  /\ IF handler[h].late THEN UNCHANGED msg ELSE Redeliver(handler[h].job, handler[h].send)
  /\ handler' = [handler EXCEPT ![h] = IdleHandler]
  /\ UNCHANGED <<tables, resets, admin, producer, sweep, faults>>

-----------------------------------------------------------------------------
(* The worker handler: createCompileJobHandler and handleCompileJob.       *)

Goto(h, pc) == handler' = [handler EXCEPT ![h].pc = pc]

\* Claim: a message whose job is not queued is acknowledged and dropped.
Claim(h) ==
  LET j == handler[h].job
  IN /\ handler[h].pc = "fetched"
     /\ \/ /\ ClaimJob(j)
           /\ Goto(h, "claimed")
        \/ /\ ~Claimable(j)
           /\ Goto(h, "return")
           /\ UNCHANGED columns
     /\ UNCHANGED <<row, page, msg, resets, admin, producer, sweep, faults>>

\* The claim commits but its answer is lost; it stands outside the try block,
\* so the handler throws without touching the job again.
ClaimAnswerLost(h) ==
  /\ Fault("ackLost")
  /\ handler[h].pc = "fetched"
  /\ ClaimJob(handler[h].job)
  /\ Goto(h, "throw")
  /\ UNCHANGED <<row, page, msg, resets, admin, producer, sweep>>

\* Load the events still pending; none is a failure of its own.
LoadPending(h) ==
  LET pending == PendingEvents(handler[h].job)
  IN /\ handler[h].pc = "claimed"
     /\ handler' = [handler EXCEPT ![h] =
          IF pending = {} THEN [@ EXCEPT !.pc = "reject", !.reason = "no_events_found"]
                          ELSE [@ EXCEPT !.pc = "loaded", !.todo = pending]]
     /\ UNCHANGED <<tables, msg, resets, admin, producer, sweep, faults>>

\* The team has no LLM provider, neither its own nor the environment's.
NoProvider(h) ==
  /\ handler[h].pc = "loaded"
  /\ handler' = [handler EXCEPT ![h].pc = "reject", ![h].reason = "no_llm_provider"]
  /\ UNCHANGED <<tables, msg, resets, admin, producer, sweep, faults>>

\* Fail the job before any event is compiled.
RejectJob(h) ==
  /\ handler[h].pc = "reject"
  /\ UpdateJobStatus(handler[h].job, "failed", handler[h].reason)
  /\ Goto(h, "return")
  /\ UNCHANGED <<row, page, msg, resets, admin, producer, sweep, faults>>

\* handleCompileJob writes `processing` a second time before the first event.
StartCompiling(h) ==
  /\ handler[h].pc = "loaded"
  /\ UpdateJobStatus(handler[h].job, "processing", Keep)
  /\ Goto(h, "loop")
  /\ UNCHANGED <<row, page, msg, resets, admin, producer, sweep, faults>>

\* Record the outcome of event e and take it off the list.
Rest_Same(h, e) == handler[h].todo  \* mutant: the event stays on the list
Rest(h, e) == handler[h].todo \ {e}
Settle(h, e, outcome) ==
  /\ UpsertJobEvent(handler[h].job, e, outcome)
  /\ handler' = [handler EXCEPT ![h].todo = Rest(h, e), ![h].written = {},
                                ![h].anyOk = @ \/ outcome # "failed"]
  /\ UNCHANGED <<columns, page, msg, resets, admin, producer, sweep>>

\* The prefilter, the model or the mapper finds nothing to keep: `skipped`.  The
\* model, the embedding or the rolled back concept transaction fails: `failed`.
SettleWithoutPage(h, e) ==
  /\ handler[h].pc = "loop"
  /\ handler[h].written = {}
  /\ e \in handler[h].todo
  /\ \E outcome \in {"skipped", "failed"} : Settle(h, e, outcome)
  /\ NoFault

\* createConcept or mergeIntoConcept commits, in its own transaction.
WritePage(h, e) ==
  /\ handler[h].pc = "loop"
  /\ handler[h].written = {}
  /\ e \in handler[h].todo
  /\ page' = [page EXCEPT ![handler[h].job][e] = @ + 1]
  /\ handler' = [handler EXCEPT ![h].written = {e}]
  /\ UNCHANGED <<columns, row, msg, resets, admin, producer, sweep, faults>>

RecordCompiled(h, e) ==
  /\ e \in handler[h].written
  /\ handler[h].pc = "loop"
  /\ Settle(h, e, "compiled")
  /\ NoFault

\* recordCompiled throws: the event's own catch records it `failed`, and the
\* concept that was written stays.
RecordCompiledThrows(h, e) ==
  /\ Fault("dbError")
  /\ e \in handler[h].written
  /\ handler[h].pc = "loop"
  /\ Settle(h, e, "failed")

\* The last event is settled: the job fails if none was compiled or skipped.
FinalStatus(h) == IF handler[h].anyOk THEN "completed" ELSE "failed"
FinalError(h)  == IF handler[h].anyOk THEN Keep ELSE "all_events_failed"

AllSettled(h) == handler[h].todo = {}
FinishAt(h, pc) ==
  /\ handler[h].pc = "loop"
  /\ AllSettled(h)
  /\ UpdateJobStatus(handler[h].job, FinalStatus(h), FinalError(h))
  /\ Goto(h, pc)
  /\ UNCHANGED <<row, page, msg, resets, admin, producer, sweep>>
Finish(h) == FinishAt(h, "return") /\ NoFault

\* The final write commits and its answer is lost: the handler catches the error
\* of a job it has already moved.
FinishAnswerLost(h) == FinishAt(h, "catch") /\ Fault("ackLost")

\* A statement throws: the claim outside the try block, any other inside it.
StatementThrows(h) ==
  /\ Fault("dbError")
  /\ \/ handler[h].pc = "fetched" /\ Goto(h, "throw")
     \/ handler[h].pc \in {"claimed", "loaded", "reject", "loop"} /\ Goto(h, "catch")
  /\ UNCHANGED <<tables, msg, resets, admin, producer, sweep>>

\* The catch block fails the job, whatever its status, and throws again.
CatchFailsJob(h) ==
  /\ handler[h].pc = "catch"
  /\ UpdateJobStatus(handler[h].job, "failed", "worker_failure")
  /\ Goto(h, "throw")
  /\ UNCHANGED <<row, page, msg, resets, admin, producer, sweep, faults>>

\* Its status write throws as well: the error is logged and the job left as it is.
CatchWriteThrows(h) ==
  /\ Fault("dbError")
  /\ handler[h].pc = "catch"
  /\ Goto(h, "throw")
  /\ UNCHANGED <<tables, msg, resets, admin, producer, sweep>>

\* The worker process dies; its delivery stays active until pg-boss expires it.
WorkerCrash(h) ==
  /\ Fault("workerCrash")
  /\ handler[h].pc # "idle"
  /\ handler' = [handler EXCEPT ![h] = IdleHandler]
  /\ UNCHANGED <<tables, msg, resets, admin, producer, sweep>>

-----------------------------------------------------------------------------
(* The stale-job sweep.                                                    *)

\* Handler h is between its claim of j and the last write it makes to it.
Running(h, j) ==
  /\ handler[h].job = j
  /\ handler[h].pc \in {"claimed", "loaded", "reject", "loop", "catch"}

\* started_at passes the staleness threshold with no handler on the job ...
AgeAbandoned(j) ==
  /\ status[j] = "processing"
  /\ ~aged[j]
  /\ \A h \in Handlers : ~Running(h, j)
  /\ aged' = [aged EXCEPT ![j] = TRUE]
  /\ UNCHANGED <<status, error, attempts, row, page, msg, resets, actors, faults>>

\* ... or with a handler still going through a long batch.
AgeOverrun(j) ==
  /\ Fault("overrun")
  /\ status[j] = "processing"
  /\ ~aged[j]
  /\ \E h \in Handlers : Running(h, j)
  /\ aged' = [aged EXCEPT ![j] = TRUE]
  /\ UNCHANGED <<status, error, attempts, row, page, msg, resets, actors>>

\* reclaimStaleProcessingJobs, first statement: every aged job, at once.
Stale_Queued == {j \in Jobs : status[j] = "queued" /\ aged[j]}  \* mutant: wrong status
Stale == {j \in Jobs : status[j] = "processing" /\ aged[j]}
SweepJobs(s) ==
  /\ sweep[s] = {}
  /\ Stale # {}
  /\ status' = [j \in Jobs |-> IF j \in Stale THEN "failed" ELSE status[j]]
  /\ error'  = [j \in Jobs |-> IF j \in Stale THEN "worker_interrupted" ELSE error[j]]
  /\ sweep'  = [sweep EXCEPT ![s] = Stale]
  /\ UNCHANGED <<attempts, aged, row, page, msg, resets, handler, admin, producer, faults>>

\* Second statement: the pending events of the jobs the first one returned.
Swept(r) == IF r = "pending" THEN "failed" ELSE r
SweepRows(s) ==
  /\ sweep[s] # {}
  /\ row' = [j \in Jobs |-> [e \in Events |->
               IF j \in sweep[s] THEN Swept(row[j][e]) ELSE row[j][e]]]
  /\ sweep' = [sweep EXCEPT ![s] = {}]
  /\ UNCHANGED <<columns, page, msg, resets, handler, admin, producer, faults>>

SweeperCrash(s) ==
  /\ Fault("sweeperCrash")
  /\ sweep[s] # {}
  /\ sweep' = [sweep EXCEPT ![s] = {}]
  /\ UNCHANGED <<tables, msg, resets, handler, admin, producer>>

-----------------------------------------------------------------------------
(* POST /v1/jobs/:id/retry.                                                *)

\* getJob: a job queued or processing is refused; mode 'failed' looks at the
\* events as well.
RetryRead(a, j, mode) ==
  /\ admin[a].pc = "idle"
  /\ resets[j] < MaxResets
  /\ status[j] \in Terminal
  /\ admin' = [admin EXCEPT ![a] =
       [IdleAdmin EXCEPT !.pc = IF mode = "failed" THEN "events" ELSE "reset",
                         !.job = j, !.mode = mode]]
  /\ UNCHANGED <<tables, msg, resets, handler, producer, sweep, faults>>

\* getJobEvents: without a failed event there is nothing to retry.
RetryReadEvents(a) ==
  /\ admin[a].pc = "events"
  /\ admin' = [admin EXCEPT ![a] =
       IF \E e \in Events : row[admin[a].job][e] = "failed"
       THEN [@ EXCEPT !.pc = "reset"] ELSE IdleAdmin]
  /\ UNCHANGED <<tables, msg, resets, handler, producer, sweep, faults>>

\* resetJobForRetry, first statement: the job, if it is still terminal.  (At the
\* bound on resets the request is refused like one that lost the race.)
Retryable(j) == status[j] \in Terminal /\ resets[j] < MaxResets
ErrorAfterReset_Blank(e) == ""  \* mutant: an empty code where NULL is meant
ErrorAfterReset(e) == "none"
ResetJob(a) ==
  LET j == admin[a].job
  IN /\ admin[a].pc = "reset"
     /\ \/ /\ Retryable(j)
           /\ status' = [status EXCEPT ![j] = "queued"]
           /\ error'  = [error EXCEPT ![j] = ErrorAfterReset(@)]
           /\ aged'   = [aged EXCEPT ![j] = FALSE]
           /\ resets' = [resets EXCEPT ![j] = @ + 1]
           /\ admin'  = [admin EXCEPT ![a].pc = "rows", ![a].send = resets[j] + 1]
        \/ /\ ~Retryable(j)
           /\ admin' = [admin EXCEPT ![a] = IdleAdmin]
           /\ UNCHANGED <<status, error, aged, resets>>
     /\ UNCHANGED <<attempts, row, page, msg, handler, producer, sweep, faults>>

\* Second statement: the events, in mode 'failed' only those that failed.
Targeted_Any(mode, r) == r # "absent"  \* mutant: the mode is ignored
Targeted(mode, r) == r # "absent" /\ (mode = "failed" => r = "failed")
ResetRows(a) ==
  LET j == admin[a].job
  IN /\ admin[a].pc = "rows"
     /\ row' = [row EXCEPT ![j] =
          [e \in Events |-> IF Targeted(admin[a].mode, row[j][e]) THEN "pending" ELSE row[j][e]]]
     /\ admin' = [admin EXCEPT ![a].pc = "send"]
     /\ UNCHANGED <<columns, page, msg, resets, handler, producer, sweep, faults>>

\* The message of a retry has a fresh id.
RetryMessage_JobId(a) == 0  \* mutant: the job's own id again
RetryMessage(a) == admin[a].send
RetrySend(a) ==
  /\ admin[a].pc = "send"
  /\ Send(admin[a].job, RetryMessage(a))
  /\ admin' = [admin EXCEPT ![a] = IdleAdmin]
  /\ UNCHANGED <<tables, resets, handler, producer, sweep, faults>>

\* The request dies between two statements, or its send fails.
AdminCrash(a) ==
  /\ Fault("senderCrash")
  /\ admin[a].pc \in {"rows", "send"}
  /\ admin' = [admin EXCEPT ![a] = IdleAdmin]
  /\ UNCHANGED <<tables, msg, resets, handler, producer, sweep>>

-----------------------------------------------------------------------------
(* POST /v1/compilations through enqueueCompilation.                       *)

\* The replay check: a key that already names a job is answered from its row.
Submit(p, j) ==
  /\ producer[p].pc = "idle"
  /\ producer' = [producer EXCEPT ![p] =
       [pc |-> IF status[j] = "absent" THEN "create" ELSE "answered",
        job |-> j, todo |-> {}]]
  /\ UNCHANGED <<tables, msg, resets, handler, admin, sweep, faults>>

\* createJob: insert the row, or replay the one a concurrent request inserted.
CreateJob(p) ==
  LET j == producer[p].job
  IN /\ producer[p].pc = "create"
     /\ status' = [status EXCEPT ![j] = IF @ = "absent" THEN "queued" ELSE @]
     /\ producer' = [producer EXCEPT ![p].pc = "rows", ![p].todo = Events]
     /\ UNCHANGED <<error, attempts, aged, row, page, msg, resets, handler, admin, sweep, faults>>

\* The concurrent insert fell between createJob's own lookup and its insert: the
\* violation of jobs_idempotency_uq ends the request.
CreateJobLosesRace(p) ==
  /\ producer[p].pc = "create"
  /\ status[producer[p].job] # "absent"
  /\ producer' = [producer EXCEPT ![p] = IdleProducer]
  /\ UNCHANGED <<tables, msg, resets, handler, admin, sweep, faults>>

\* The event rows, one statement each, for a replayed job as for a new one.
CreateRow(p, e) ==
  /\ producer[p].pc = "rows"
  /\ e \in producer[p].todo
  /\ UpsertJobEvent(producer[p].job, e, "pending")
  /\ producer' = [producer EXCEPT ![p].todo = @ \ {e}]
  /\ UNCHANGED <<columns, page, msg, resets, handler, admin, sweep, faults>>

\* The message carries the job's own id.
EnqueueSend(p) ==
  /\ producer[p].pc = "rows"
  /\ producer[p].todo = {}
  /\ Send(producer[p].job, 0)
  /\ producer' = [producer EXCEPT ![p].pc = "answered"]
  /\ UNCHANGED <<tables, resets, handler, admin, sweep, faults>>

\* The client may call again, with any key.
NextRequest(p) ==
  /\ producer[p].pc = "answered"
  /\ producer' = [producer EXCEPT ![p] = IdleProducer]
  /\ UNCHANGED <<tables, msg, resets, handler, admin, sweep, faults>>

ProducerCrash(p) ==
  /\ Fault("senderCrash")
  /\ producer[p].pc \in {"create", "rows"}
  /\ producer' = [producer EXCEPT ![p] = IdleProducer]
  /\ UNCHANGED <<tables, msg, resets, handler, admin, sweep>>

-----------------------------------------------------------------------------

Queue ==
  \/ \E h \in Handlers, j \in Jobs, n \in Sends : Deliver(h, j, n)
  \/ \E j \in Jobs, n \in Sends : ExpireAbandoned(j, n)
  \/ \E h \in Handlers : ExpireOverrun(h) \/ Acknowledge(h) \/ Reject(h)

\* What a handler does of its own accord ...
HandlerStep(h) ==
  \/ Claim(h) \/ LoadPending(h) \/ NoProvider(h) \/ RejectJob(h) \/ StartCompiling(h)
  \/ \E e \in Events : SettleWithoutPage(h, e) \/ WritePage(h, e) \/ RecordCompiled(h, e)
  \/ Finish(h) \/ CatchFailsJob(h)

\* ... and what may happen to it.
HandlerFault(h) ==
  \/ ClaimAnswerLost(h) \/ FinishAnswerLost(h) \/ StatementThrows(h)
  \/ \E e \in Events : RecordCompiledThrows(h, e)
  \/ CatchWriteThrows(h) \/ WorkerCrash(h)

Sweeper ==
  \/ \E j \in Jobs : AgeAbandoned(j) \/ AgeOverrun(j)
  \/ \E s \in Sweepers : SweepJobs(s) \/ SweepRows(s) \/ SweeperCrash(s)

Admin(a) ==
  \/ \E j \in Jobs, mode \in RetryMode : RetryRead(a, j, mode)
  \/ RetryReadEvents(a) \/ ResetJob(a) \/ ResetRows(a) \/ RetrySend(a) \/ AdminCrash(a)

Producer(p) ==
  \/ \E j \in Jobs : Submit(p, j)
  \/ CreateJob(p) \/ CreateJobLosesRace(p)
  \/ \E e \in Events : CreateRow(p, e)
  \/ EnqueueSend(p) \/ NextRequest(p) \/ ProducerCrash(p)

Next ==
  \/ Queue
  \/ \E h \in Handlers : HandlerStep(h) \/ HandlerFault(h)
  \/ Sweeper
  \/ \E a \in Admins : Admin(a)
  \/ \E p \in Producers : Producer(p)

Spec == Init /\ [][Next]_vars

(***************************************************************************)
(* Postgres, pg-boss and the event loop keep going: a message in the queue *)
(* is fetched, a handler reaches its next statement (every model call has  *)
(* a 30 s deadline), an abandoned delivery expires, the sweep's timer      *)
(* fires and a started request runs to its end.  Nobody has to submit or   *)
(* to retry a job, and no fault has to happen.                             *)
(***************************************************************************)
Fairness ==
  /\ \A j \in Jobs, n \in Sends :
       /\ WF_vars(\E h \in Handlers : Deliver(h, j, n))
       /\ WF_vars(ExpireAbandoned(j, n))
  /\ \A h \in Handlers : WF_vars(HandlerStep(h)) /\ WF_vars(Acknowledge(h) \/ Reject(h))
  /\ \A j \in Jobs : WF_vars(AgeAbandoned(j))
  /\ \A s \in Sweepers : WF_vars(SweepJobs(s)) /\ WF_vars(SweepRows(s))
  /\ \A a \in Admins : WF_vars(ResetJob(a) \/ ResetRows(a) \/ RetrySend(a) \/ RetryReadEvents(a))
  /\ \A p \in Producers :
       WF_vars(CreateJob(p) \/ EnqueueSend(p) \/ \E e \in Events : CreateRow(p, e))

FairSpec == Spec /\ Fairness

-----------------------------------------------------------------------------
(* Properties.                                                             *)

\* Every variable stays within its type; an actor knows its job while it has one.
TypeOK ==
  /\ status   \in [Jobs -> JobStatus]
  /\ error    \in [Jobs -> ErrorCode]
  /\ attempts \in [Jobs -> Nat]
  /\ aged     \in [Jobs -> BOOLEAN]
  /\ row      \in [Jobs -> [Events -> RowStatus]]
  /\ page     \in [Jobs -> [Events -> Nat]]
  /\ msg      \in [Jobs -> [Sends -> [state : MsgState, left : 0 .. RetryLimit]]]
  /\ resets   \in [Jobs -> Sends]
  /\ handler  \in [Handlers -> HandlerState]
  /\ admin    \in [Admins -> AdminState]
  /\ producer \in [Producers -> ProducerState]
  /\ sweep    \in [Sweepers -> SUBSET Jobs]
  /\ faults   \in 0 .. MaxFaults
  /\ \A h \in Handlers : handler[h].pc # "idle" => handler[h].job \in Jobs
  /\ \A a \in Admins : admin[a].pc # "idle" => admin[a].job \in Jobs
  /\ \A p \in Producers : producer[p].pc # "idle" => producer[p].job \in Jobs

\* However often pg-boss redelivers, however many messages name the job, and
\* whatever late handlers write over its status, the job is claimed -- and its
\* model calls paid for -- at most once for its submission and once for each retry.
RunsOf(j) == attempts[j] + IF status[j] = "queued" THEN 1 ELSE 0
ClaimsWithinRetries ==
  \A j \in Jobs : RunsOf(j) <= resets[j] + IF status[j] = "absent" THEN 0 ELSE 1

\* A claim writes at most one concept for an event, crashes and overruns included.
PagesWithinAttempts ==
  \A j \in Jobs, e \in Events : page[j][e] <= attempts[j]

\* Why that is so: a claim is worth one concept per event, already written or
\* still owed by the handler that made the claim, and by no other.
Owes(r, j, e) ==
  /\ r.job = j
  /\ \/ r.pc = "claimed"
     \/ r.pc \in {"loaded", "loop"} /\ e \in r.todo /\ e \notin r.written
Owing(j, e) == {h \in Handlers : Owes(handler[h], j, e)}
PagesAccounted ==
  /\ \A j \in Jobs, e \in Events : page[j][e] + Cardinality(Owing(j, e)) <= attempts[j]
  /\ \A h \in Handlers : \A d, e \in handler[h].written : d = e

\* A job that is running or has ended was claimed, and so was every job a handler
\* works on: no late write brings a job to its end that never ran.
BegunIsClaimed ==
  /\ \A j \in Jobs : status[j] \notin {"absent", "queued"} => attempts[j] > 0
  /\ \A h \in Handlers :
       handler[h].pc \in {"claimed", "loaded", "reject", "loop", "catch"} =>
         attempts[handler[h].job] > 0

\* Jobs keep the promise of JobLedger: a row in `jobs` is its submission's grant, a
\* reset a retry's, a claim a run, a concept transaction a written concept.
Granted == [j \in Jobs |-> resets[j] + IF status[j] = "absent" THEN 0 ELSE 1]
Ledger == INSTANCE JobLedger WITH granted <- Granted, used <- attempts, pages <- page
KeepsLedger == Ledger!Spec

\* At most one handler is between its claim of a job and its last write to it.
SingleOwner ==
  \A j \in Jobs, g, h \in Handlers : Running(g, j) /\ Running(h, j) => g = h

\* A second click, or a stale page, cannot reset a job whose retry has not been
\* claimed yet (jobs.ts:440).
RetryNotRepeated == \A j \in Jobs : resets[j] <= attempts[j]

\* A queued job is never stranded: some message for it will be delivered, or the
\* request that owes it one is still running.
Announced(j) ==
  \/ \E n \in Sends :
       \/ msg[j][n].state = "ready"
       \/ /\ msg[j][n].state = "active"
          /\ \A h \in Handlers : Holds(h, j, n) => handler[h].pc \in {"fetched", "throw"}
  \/ \E a \in Admins : admin[a].pc \in {"rows", "send"} /\ admin[a].job = j
  \/ \E p \in Producers : producer[p].pc = "rows" /\ producer[p].job = j
QueuedIsAnnounced == \A j \in Jobs : status[j] = "queued" => Announced(j)

\* A completed job has settled every one of its events.
CompletedIsSettled ==
  \A j \in Jobs : status[j] = "completed" => PendingEvents(j) = {}

\* 'Retry failed' never pays for a compiled event again: a compiled row changes
\* only at the hands of a 'Retry all' (job-retry.ts:14-20).
CompiledStays ==
  [][\A j \in Jobs, e \in Events :
       row[j][e] = "compiled" /\ row'[j][e] # "compiled" =>
         \E a \in Admins : admin[a].pc = "rows" /\ admin[a].job = j /\ admin[a].mode = "all"]_vars

\* A concept is only ever written for an event whose row is still pending: what
\* another handler, a sweep or an earlier attempt has settled is not done again.
WritesOnlyPending ==
  [][\A j \in Jobs, e \in Events : page'[j][e] # page[j][e] => row[j][e] = "pending"]_vars

\* Once the sweep is through with a job it gave up, every event the dead worker
\* did not reach is `failed`, so that 'Retry failed' picks it up (jobs.ts:527-532).
InterruptedIsRetryable ==
  \A j \in Jobs :
    /\ status[j] = "failed"
    /\ error[j] = "worker_interrupted"
    /\ \A s \in Sweepers : j \notin sweep[s]
    => PendingEvents(j) = {}

\* A job fails for its events only when every one of them failed (jobs.ts:443).
FailedMeansAllFailed ==
  \A j \in Jobs : status[j] = "failed" /\ error[j] = "all_events_failed" =>
    \A e \in Events : row[j][e] \notin {"compiled", "skipped"}

\* The catch block only moves a job that is still `processing` (worker.ts:212).
CatchOnlyFailsProcessing ==
  [][\A h \in Handlers : handler[h].pc = "catch" /\ handler'[h].pc = "throw" =>
       LET j == handler[h].job
       IN status'[j] # status[j] => status[j] = "processing"]_vars

\* The sweep reclaims only the jobs of dead workers: one that is in flight on a
\* live replica is not stale (jobs.ts:521-523).
SweepSparesLiveJobs ==
  [][\A j \in Jobs : status[j] = "processing" /\ error'[j] = "worker_interrupted"
                     /\ status'[j] = "failed" => \A h \in Handlers : ~Running(h, j)]_vars

\* A reset is atomic: it never touches the events of a running job (jobs.ts:439).
ResetSparesRunningJobs ==
  [][\A a \in Admins : admin[a].pc = "rows" /\ admin'[a].pc = "send" =>
       \A h \in Handlers : ~Running(h, admin[a].job)]_vars

\* A replayed request only fills in rows that are missing
\* (enqueue-compilation.ts:102-108).
Outcomes == {"compiled", "skipped", "failed"}
ReplayKeepsOutcomes ==
  [][\A p \in Producers, j \in Jobs, e \in Events :
       producer'[p] # producer[p] /\ row[j][e] \in Outcomes => row'[j][e] = row[j][e]]_vars

\* A job carries an error only when it failed (packages/schema/src/job.ts:83-85).
ErrorOnlyWhenFailed == \A j \in Jobs : error[j] # "none" => status[j] = "failed"

\* A request answered with the job id leaves no job without a message, unless the
\* request that created it is still running.
AnsweredIsAnnounced ==
  \A p \in Producers : producer[p].pc = "answered" /\ status[producer[p].job] = "queued"
                       => Announced(producer[p].job)

\* A job that pg-boss redelivers after an unhandled failure runs again
\* (worker.ts:204-206).
FailureIsRetried ==
  \A j \in Jobs :
    (status[j] = "failed" /\ error[j] = "worker_failure" /\ msg[j][0].state = "ready")
      ~> (status[j] \in {"queued", "processing", "completed"})

\* Whatever happens to the worker, a job does not stay `processing`: it finishes
\* or the sweep fails it.
ProcessingEnds == \A j \in Jobs : status[j] = "processing" ~> status[j] # "processing"

\* A submitted or retried job does not stay `queued`.
QueuedEnds == \A j \in Jobs : status[j] = "queued" ~> status[j] # "queued"

=============================================================================
