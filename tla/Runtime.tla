------------------------------- MODULE Runtime -------------------------------
(***************************************************************************)
(* A server or worker process from its start to its exit, with the work    *)
(* that is in flight while it goes down.                                   *)
(*                                                                         *)
(* composition-root.ts starts the database, the compile queue, the HTTP    *)
(* server and, in the all-in-one topology, the embedded worker; it stops   *)
(* them worker first and database last. worker.ts is the same process      *)
(* without the HTTP server. lifecycle.ts turns a signal into one teardown  *)
(* with a timer that forces the exit. Meanwhile requests record a job and  *)
(* send its message, and the worker compiles what it fetched.              *)
(*                                                                         *)
(* Ingest has the request in full and CompileJobs the handler; here each   *)
(* keeps only the steps that touch the pool or the queue.                  *)
(***************************************************************************)
EXTENDS Naturals, Sequences

CONSTANTS
    Processes,    \* the processes of the deployment
    Servers,      \* those that run index.ts; the others run worker.ts
    AllInOne,     \* TEAMEM_ALL_IN_ONE: a server embeds a worker
    Requests,     \* HTTP requests; each records one job, named like it
    MaxBoots,     \* how often the deployment starts a process again
    None

ASSUME ProcessesAssumption == Servers \subseteq Processes
ASSUME ConfigAssumption == AllInOne \in BOOLEAN /\ MaxBoots \in Nat

VARIABLES
    phase,      \* where each process stands
    up,         \* its resources that can be used
    started,    \* its resources the teardown will stop
    closing,    \* the resource whose stop() it awaits
    armed,      \* whether its force-exit timer runs
    exit,       \* how it last exited: with code 0 or otherwise
    handler,    \* the delivery its worker is busy with
    req,        \* per request: where it stands and which process has it
    job,        \* the job rows; completed, failed and cancelled are settled
    msg,        \* pg-boss's messages
    boots       \* bounds the restarts

vars == <<phase, up, started, closing, armed, exit, handler, req, job, msg, boots>>
lifecycle == <<phase, up, started, closing, armed, exit, boots>>
work == <<handler, req, job, msg>>

Resources == {"worker", "queue", "httpServer", "database"}

ASSUME NoneAssumption == None \notin Resources \cup {"clean", "failed"}

\* Mutant: the queue goes down after the database.
SHUTDOWN_ORDER_PoolFirst == <<"worker", "httpServer", "database", "queue">>

\* Teardown order of the composition root, and of worker.ts without HTTP.
SHUTDOWN_ORDER == <<"worker", "queue", "httpServer", "database">>

\* worker.ts never starts the database: it makes the pool and uses it.
StartOrder(p) ==
    IF p \notin Servers THEN <<"queue", "worker">>
    ELSE IF AllInOne THEN <<"database", "queue", "httpServer", "worker">>
    ELSE <<"database", "queue", "httpServer">>

\* The first of S in the order, if there is one.
FirstIn(order, S) ==
    {s \in S : \E i \in DOMAIN order :
                 order[i] = s /\ \A j \in DOMAIN order : j < i => order[j] \notin S}

IdleHandler == [job |-> None, pc |-> "idle"]
IdleRequest == [at |-> None, pc |-> "idle", pooled |-> TRUE, queued |-> TRUE]
InFlight(r) == req[r].pc \in {"accepted", "recorded", "sent"}
Held(j) == \E p \in Processes : handler[p].job = j

\* createDbHandle makes the pool before anything is started.
Init ==
    /\ phase = [p \in Processes |-> "starting"]
    /\ up = [p \in Processes |-> {"database"}]
    /\ started = [p \in Processes |-> {}]
    /\ closing = [p \in Processes |-> None]
    /\ armed = [p \in Processes |-> FALSE]
    /\ exit = [p \in Processes |-> None]
    /\ handler = [p \in Processes |-> IdleHandler]
    /\ req = [r \in Requests |-> IdleRequest]
    /\ job = [r \in Requests |-> "none"]
    /\ msg = [r \in Requests |-> "none"]
    /\ boots = 0

(***************************************************************************)
(* Starting.                                                               *)
(***************************************************************************)

\* Everything a process holds in memory, its in-flight requests included.
Exit(p, how) ==
    /\ phase' = [phase EXCEPT ![p] = "exited"]
    /\ exit' = [exit EXCEPT ![p] = how]
    /\ up' = [up EXCEPT ![p] = {}]
    /\ started' = [started EXCEPT ![p] = {}]
    /\ closing' = [closing EXCEPT ![p] = None]
    /\ armed' = [armed EXCEPT ![p] = FALSE]
    /\ handler' = [handler EXCEPT ![p] = IdleHandler]
    /\ req' = [r \in Requests |->
                 IF InFlight(r) /\ req[r].at = p
                 THEN [IdleRequest EXCEPT !.pc = "over"] ELSE req[r]]
    /\ UNCHANGED <<job, msg, boots>>

\* What the startup has to start next.
Unstarted(p) == FirstIn(StartOrder(p), Resources \ started[p])

StartResource(p) ==
    /\ phase[p] = "starting"
    /\ \E s \in Unstarted(p) :
        /\ up' = [up EXCEPT ![p] = @ \cup {s}]
        /\ started' = [started EXCEPT ![p] = @ \cup {s}]
    /\ UNCHANGED <<phase, closing, armed, exit, boots, work>>

\* The signal handlers are installed once the startup has returned.
Ready(p) ==
    /\ phase[p] = "starting" /\ Unstarted(p) = {}
    /\ phase' = [phase EXCEPT ![p] = "running"]
    /\ started' = [started EXCEPT ![p] =
                     IF p \in Servers THEN @ ELSE @ \cup {"database"}]
    /\ UNCHANGED <<up, closing, armed, exit, boots, work>>

\* A start that throws: the server tears down what it started, the worker
\* exits at once. boss.start() may have connected before createQueue throws;
\* nothing then stops it.
StartFails(p) ==
    /\ phase[p] = "starting" /\ Unstarted(p) # {}
    /\ IF p \in Servers
       THEN /\ phase' = [phase EXCEPT ![p] = "failing"]
            /\ \E orphan \in SUBSET ({"queue"} \cap Unstarted(p)) :
                 up' = [up EXCEPT ![p] = @ \cup orphan]
            /\ UNCHANGED <<started, closing, armed, exit, boots, work>>
       ELSE Exit(p, "failed")

\* The deployment starts an exited process again.
Restart(p) ==
    /\ phase[p] = "exited" /\ boots < MaxBoots
    /\ boots' = boots + 1
    /\ phase' = [phase EXCEPT ![p] = "starting"]
    /\ up' = [up EXCEPT ![p] = {"database"}]
    /\ exit' = [exit EXCEPT ![p] = None]
    /\ UNCHANGED <<started, closing, armed, work>>

(***************************************************************************)
(* Stopping. shutdown() of the composition root stops one resource after   *)
(* the other; a stop that rejects leaves the ones behind it running.       *)
(***************************************************************************)

\* Mutant: the teardown runs without its safety timer.
Signal_Unarmed(p) ==
    \/ /\ phase[p] \in {"starting", "failing"}
       /\ Exit(p, "failed")
    \/ /\ phase[p] = "running"
       /\ phase' = [phase EXCEPT ![p] = "stopping"]
       /\ UNCHANGED <<armed, up, started, closing, exit, boots, work>>

\* Before the handlers are installed a signal ends the process as it is.
\* A second signal during the teardown is ignored: it is no step.
Signal(p) ==
    \/ /\ phase[p] \in {"starting", "failing"}
       /\ Exit(p, "failed")
    \/ /\ phase[p] = "running"
       /\ phase' = [phase EXCEPT ![p] = "stopping"]
       /\ armed' = [armed EXCEPT ![p] = TRUE]
       /\ UNCHANGED <<up, started, closing, exit, boots, work>>

TearingDown(p) == phase[p] \in {"stopping", "failing"} /\ closing[p] = None
ToStop(p) == FirstIn(SHUTDOWN_ORDER, started[p])

BeginStop(p) ==
    /\ TearingDown(p)
    /\ \E s \in ToStop(p) :
         /\ closing' = [closing EXCEPT ![p] = s]
         /\ started' = [started EXCEPT ![p] = @ \ {s}]
    /\ UNCHANGED <<phase, up, armed, exit, boots, work>>

\* Mutant: stopping the queue does not wait for the handler.
Drained_SkipsQueue(p, s) ==
    s = "httpServer" => \A r \in Requests : req[r].at = p => ~InFlight(r)

\* offWork only stops fetching; boss.stop() waits for the delivery in hand,
\* server.close() for the requests in flight.
Drained(p, s) ==
    CASE s = "queue" -> handler[p] = IdleHandler
      [] s = "httpServer" -> \A r \in Requests : req[r].at = p => ~InFlight(r)
      [] OTHER -> TRUE

FinishStop(p) ==
    /\ closing[p] # None /\ Drained(p, closing[p])
    /\ up' = [up EXCEPT ![p] = @ \ {closing[p]}]
    /\ closing' = [closing EXCEPT ![p] = None]
    /\ UNCHANGED <<phase, started, armed, exit, boots, work>>

StopFails(p) == closing[p] # None /\ Exit(p, "failed")

TeardownDone(p) ==
    /\ TearingDown(p) /\ ToStop(p) = {}
    /\ Exit(p, IF phase[p] = "stopping" THEN "clean" ELSE "failed")

ForceExit(p) == armed[p] /\ Exit(p, "failed")

\* SIGKILL, or the machine is gone.
Crash(p) == phase[p] # "exited" /\ Exit(p, "failed")

(***************************************************************************)
(* Requests. A request that finds the pool or the queue closed goes on     *)
(* with what its handler does about the error, and remembers that it did.  *)
(***************************************************************************)

Accept(p, r) ==
    /\ "httpServer" \in up[p] /\ closing[p] # "httpServer"
    /\ req[r].pc = "idle"
    /\ req' = [req EXCEPT ![r] = [IdleRequest EXCEPT !.at = p, !.pc = "accepted"]]
    /\ UNCHANGED <<lifecycle, handler, job, msg>>

\* Authentication, insertEvent and createJob, or a 500 without the pool.
Record(r) ==
    /\ req[r].pc = "accepted"
    /\ IF "database" \in up[req[r].at]
       THEN /\ job' = [job EXCEPT ![r] = "queued"]
            /\ req' = [req EXCEPT ![r].pc = "recorded"]
       ELSE /\ req' = [req EXCEPT ![r].pc = "sent", ![r].pooled = FALSE]
            /\ UNCHANGED job
    /\ UNCHANGED <<lifecycle, handler, msg>>

\* The intake only logs a send that fails: event and job stay.
SendMessage(r) ==
    /\ req[r].pc = "recorded"
    /\ IF "queue" \in up[req[r].at]
       THEN /\ msg' = [msg EXCEPT ![r] = "created"]
            /\ req' = [req EXCEPT ![r].pc = "sent"]
       ELSE /\ req' = [req EXCEPT ![r].pc = "sent", ![r].queued = FALSE]
            /\ UNCHANGED msg
    /\ UNCHANGED <<lifecycle, handler, job>>

\* The answer, after waitForJob where the client asked for it: it ends when
\* the job is over, the client has gone or 30 seconds have passed, so the
\* model lets it end at any time. A poll that throws is polled again.
Answer(r) ==
    /\ req[r].pc = "sent"
    /\ req' = [req EXCEPT ![r] = [IdleRequest EXCEPT !.pc = "over"]]
    /\ UNCHANGED <<lifecycle, handler, job, msg>>

(***************************************************************************)
(* The worker: one delivery at a time, and the sweep for what a process    *)
(* that is gone has left in processing.                                    *)
(***************************************************************************)

Fetch(p, j) ==
    /\ "worker" \in up[p] /\ closing[p] # "worker"
    /\ handler[p] = IdleHandler /\ msg[j] = "created"
    /\ msg' = [msg EXCEPT ![j] = "active"]
    /\ handler' = [handler EXCEPT ![p] = [job |-> j, pc |-> "fetched"]]
    /\ UNCHANGED <<lifecycle, req, job>>

\* claimJob takes a queued row only; without it the delivery is acknowledged.
ClaimJob(p) ==
    /\ handler[p].pc = "fetched" /\ "database" \in up[p]
    /\ IF job[handler[p].job] = "queued"
       THEN /\ job' = [job EXCEPT ![handler[p].job] = "processing"]
            /\ handler' = [handler EXCEPT ![p].pc = "claimed"]
       ELSE /\ handler' = [handler EXCEPT ![p].pc = "done"]
            /\ UNCHANGED job
    /\ UNCHANGED <<lifecycle, req, msg>>

Compile(p) ==
    /\ handler[p].pc = "claimed" /\ "database" \in up[p]
    /\ job' = [job EXCEPT ![handler[p].job] =
                 IF @ = "processing" THEN "settled" ELSE @]
    /\ handler' = [handler EXCEPT ![p].pc = "done"]
    /\ UNCHANGED <<lifecycle, req, msg>>

Acknowledge(p) ==
    /\ handler[p].pc = "done" /\ "queue" \in up[p]
    /\ msg' = [msg EXCEPT ![handler[p].job] = "completed"]
    /\ handler' = [handler EXCEPT ![p] = IdleHandler]
    /\ UNCHANGED <<lifecycle, req, job>>

\* pg-boss expires a delivery nobody holds any more and delivers it again.
Expire(j) ==
    /\ msg[j] = "active" /\ ~Held(j)
    /\ msg' = [msg EXCEPT ![j] = "created"]
    /\ UNCHANGED <<lifecycle, handler, req, job>>

\* The sweep of a process with a worker fails a job left in processing.
Reclaim(p, j) ==
    /\ "worker" \in up[p] /\ closing[p] # "worker"
    /\ job[j] = "processing" /\ ~Held(j)
    /\ job' = [job EXCEPT ![j] = "settled"]
    /\ UNCHANGED <<lifecycle, handler, req, msg>>

Lifecycle(p) ==
    \/ StartResource(p) \/ Ready(p) \/ StartFails(p) \/ Restart(p)
    \/ Signal(p) \/ BeginStop(p) \/ FinishStop(p) \/ StopFails(p)
    \/ TeardownDone(p) \/ ForceExit(p) \/ Crash(p)

Handle(p) == ClaimJob(p) \/ Compile(p) \/ Acknowledge(p)
Serve(r) == Record(r) \/ SendMessage(r) \/ Answer(r)

Next ==
    \/ \E p \in Processes : Lifecycle(p) \/ Handle(p)
    \/ \E p \in Processes, r \in Requests :
         Accept(p, r) \/ Fetch(p, r) \/ Reclaim(p, r)
    \/ \E r \in Requests : Serve(r) \/ Expire(r)

\* The event loop runs what it can run and a timer fires; a request's waits
\* are bounded. Nothing is assumed of the handler: a model call may hang.
Fairness ==
    /\ \A p \in Processes :
         /\ WF_vars(BeginStop(p)) /\ WF_vars(FinishStop(p))
         /\ WF_vars(TeardownDone(p)) /\ WF_vars(ForceExit(p))
    /\ \A r \in Requests : WF_vars(Serve(r))

Spec == Init /\ [][Next]_vars /\ Fairness

(***************************************************************************)
(* Properties.                                                             *)
(***************************************************************************)

TypeOK ==
    /\ phase \in [Processes -> {"starting", "running", "stopping", "failing", "exited"}]
    /\ up \in [Processes -> SUBSET Resources]
    /\ started \in [Processes -> SUBSET Resources]
    /\ closing \in [Processes -> Resources \cup {None}]
    /\ armed \in [Processes -> BOOLEAN]
    /\ exit \in [Processes -> {None, "clean", "failed"}]
    /\ handler \in [Processes -> [job : Requests \cup {None},
                                  pc : {"idle", "fetched", "claimed", "done"}]]
    /\ req \in [Requests -> [at : Processes \cup {None}, pooled : BOOLEAN, queued : BOOLEAN,
                             pc : {"idle", "accepted", "recorded", "sent", "over"}]]
    /\ job \in [Requests -> {"none", "queued", "processing", "settled"}]
    /\ msg \in [Requests -> {"none", "created", "active", "completed"}]
    /\ boots \in 0 .. MaxBoots
    /\ \A p \in Processes : (phase[p] = "exited") = (exit[p] # None)

\* No request and no compilation ever meets a closed pool: the database goes
\* down last, after the queue has drained the handler and the HTTP server its
\* requests (composition-root.ts: "the database drains last, once nothing
\* else can touch it").
PoolOutlivesWork ==
    /\ \A r \in Requests : req[r].pooled
    /\ \A p \in Processes : handler[p] # IdleHandler => {"database", "queue"} \subseteq up[p]

\* A job is recorded without its message only by a request that was already
\* accepted, or came, while its process was shutting the queue down: in a
\* process that serves, the queue is there before the socket and until the
\* teardown. The job then waits for a retry nobody sends.
MissedOnlyInTeardown ==
    [][\A r \in Requests :
         (req[r].queued /\ ~req'[r].queued) =>
            phase[req[r].at] \in {"stopping", "failing"}]_vars

\* Exit code 0 means what it says: the process leaves no request unanswered,
\* no delivery unacknowledged and no job it had claimed in processing.
CleanExitSettles ==
    [][\A p \in Processes :
         (exit[p] = None /\ exit'[p] = "clean") =>
            /\ handler[p] = IdleHandler
            /\ \A r \in Requests : req[r].at = p => ~InFlight(r)]_vars

\* Once a teardown has begun the process ends, whatever the handler it drains
\* is waiting for: by the timer after a signal, and after a failed start
\* because no handler exists yet and every request's wait is bounded.
TeardownEnds ==
    \A p \in Processes :
        (phase[p] \in {"stopping", "failing"}) ~> (phase[p] = "exited")
==============================================================================
