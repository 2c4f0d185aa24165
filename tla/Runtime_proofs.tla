---------------------------- MODULE Runtime_proofs ----------------------------
(***************************************************************************)
(* The order of start and teardown, for any processes, requests and        *)
(* restarts: no work meets a closed pool, a clean exit leaves nothing      *)
(* open, and the queue is there as long as the socket is.                  *)
(***************************************************************************)
EXTENDS Runtime, TLAPS

\* What the process has to stop, or is stopping.
Owed(p) == started[p] \cup {closing[p]}

\* What is up will be stopped, the database and an orphaned queue excepted, and
\* what will be stopped has below it what it stands on.
Stacked(p) ==
    /\ closing[p] \notin started[p]
    /\ \A s \in {"worker", "httpServer"} : s \in up[p] => s \in Owed(p)
    /\ "worker" \in started[p] => "queue" \in started[p]
    /\ "queue" \in Owed(p) => "queue" \in up[p]
    /\ phase[p] = "starting" \/ started[p] # {} \/ closing[p] # None => "database" \in up[p]
    /\ closing[p] = "database" => started[p] = {}

\* The phases in which nothing is being stopped, or nothing is left.
Phased(p) ==
    /\ phase[p] \in {"starting", "running"} =>
         /\ closing[p] = None
         /\ "httpServer" \in started[p] => "queue" \in started[p]
    /\ phase[p] = "exited" => up[p] = {} /\ started[p] = {} /\ closing[p] = None

\* Work stands on what has not been stopped.
HandlerOK(p) == handler[p] # IdleHandler => "queue" \in Owed(p)
RequestOK(r) ==
    /\ InFlight(r) => req[r].at \in Processes /\ "httpServer" \in Owed(req[r].at)
    /\ req[r].pooled

Inv ==
    /\ TypeOK
    /\ \A p \in Processes : Stacked(p) /\ Phased(p) /\ HandlerOK(p)
    /\ \A r \in Requests : RequestOK(r)

----------------------------------------------------------------------------
(* The orders                                                               *)

Others(s) == Resources \ {s}

\* The database is last, and the queue outlasts the worker.
LEMMA StopsInOrder ==
    ASSUME NEW p \in Processes, started[p] \subseteq Resources
    PROVE  /\ \A s \in ToStop(p) : s \in started[p]
           /\ "database" \in ToStop(p) => started[p] = {"database"}
           /\ "queue" \in ToStop(p) => "worker" \notin started[p]
           /\ ToStop(p) = {} => started[p] = {}
<1> DEFINE order == SHUTDOWN_ORDER
<1>1. /\ DOMAIN order = 1..4
      /\ order[1] = "worker" /\ order[2] = "queue"
      /\ order[3] = "httpServer" /\ order[4] = "database"
    BY DEF SHUTDOWN_ORDER
<1> HIDE DEF order
<1>2. ToStop(p) = {s \in started[p] : \E i \in 1..4 :
                     order[i] = s /\ \A j \in 1..4 : j < i => order[j] \notin started[p]}
    BY <1>1 DEF ToStop, FirstIn, order
<1>3. "database" \in ToStop(p) => started[p] = {"database"}
    BY <1>1, <1>2 DEF Resources
<1>4. "queue" \in ToStop(p) => "worker" \notin started[p]
    BY <1>1, <1>2
<1>5. ToStop(p) = {} => started[p] = {}
  <2> SUFFICES ASSUME ToStop(p) = {} PROVE started[p] = {}
    OBVIOUS
  <2>1. "worker" \notin started[p]
    BY <1>1, <1>2
  <2>2. "queue" \notin started[p]
    BY <1>1, <1>2, <2>1
  <2>3. "httpServer" \notin started[p]
    BY <1>1, <1>2, <2>1, <2>2
  <2>4. "database" \notin started[p]
    BY <1>1, <1>2, <2>1, <2>2, <2>3
  <2> QED BY <2>1, <2>2, <2>3, <2>4 DEF Resources
<1> QED BY <1>2, <1>3, <1>4, <1>5

\* The queue comes up before what needs it.
LEMMA StartsInOrder ==
    ASSUME NEW p \in Processes, NEW s \in Unstarted(p)
    PROVE  /\ s \in Resources
           /\ s \in {"worker", "httpServer"} => "queue" \in started[p]
<1> DEFINE order == StartOrder(p)
           S == Resources \ started[p]
<1>1. s \in S /\ \E i \in DOMAIN order :
                   order[i] = s /\ \A j \in DOMAIN order : j < i => order[j] \notin S
    BY DEF Unstarted, FirstIn
<1>2. CASE p \notin Servers
  <2>1. DOMAIN order = 1..2 /\ order[1] = "queue" /\ order[2] = "worker"
    BY <1>2 DEF StartOrder
  <2> HIDE DEF order
  <2> QED BY <1>1, <2>1 DEF Resources
<1>3. CASE p \in Servers /\ AllInOne
  <2>1. /\ DOMAIN order = 1..4
        /\ order[1] = "database" /\ order[2] = "queue"
        /\ order[3] = "httpServer" /\ order[4] = "worker"
    BY <1>3 DEF StartOrder
  <2> HIDE DEF order
  <2> QED BY <1>1, <2>1 DEF Resources
<1>4. CASE p \in Servers /\ ~AllInOne
  <2>1. /\ DOMAIN order = 1..3
        /\ order[1] = "database" /\ order[2] = "queue" /\ order[3] = "httpServer"
    BY <1>4 DEF StartOrder
  <2> HIDE DEF order
  <2> QED BY <1>1, <2>1 DEF Resources
<1> QED BY <1>2, <1>3, <1>4

----------------------------------------------------------------------------
(* Starting, stopping, exiting                                              *)

\* A step of one process that leaves the work alone.
LEMMA ProcessMoves ==
    ASSUME Inv, NEW p \in Processes, UNCHANGED work, TypeOK',
           \A q \in Processes \ {p} :
             /\ phase'[q] = phase[q] /\ up'[q] = up[q]
             /\ started'[q] = started[q] /\ closing'[q] = closing[q],
           Stacked(p)', Phased(p)',
           handler[p] # IdleHandler /\ "queue" \in Owed(p) => "queue" \in Owed(p)',
           \A r \in Requests : InFlight(r) /\ req[r].at = p /\ "httpServer" \in Owed(p)
              => "httpServer" \in Owed(p)'
    PROVE  Inv'
<1>1. UNCHANGED <<handler, req>>
    BY DEF work
<1>2. \A q \in Processes \ {p} : Stacked(q)' /\ Phased(q)' /\ Owed(q)' = Owed(q)
    BY DEF Inv, Stacked, Phased, Owed
<1>3. \A q \in Processes : HandlerOK(q)'
    BY <1>1, <1>2 DEF Inv, HandlerOK
<1>4. ASSUME NEW r \in Requests PROVE RequestOK(r)'
  <2>1. RequestOK(r) /\ (InFlight(r)' <=> InFlight(r)) /\ req'[r] = req[r]
    BY <1>1 DEF Inv, InFlight
  <2>2. CASE ~InFlight(r)
    BY <2>1, <2>2 DEF RequestOK
  <2>3. CASE InFlight(r)
    <3>1. req[r].at \in Processes /\ "httpServer" \in Owed(req[r].at) /\ req[r].pooled
      BY <2>1, <2>3 DEF RequestOK
    <3>2. CASE req[r].at = p
      <4>1. "httpServer" \in Owed(p)'
        BY <2>3, <3>1, <3>2
      <4> QED BY <2>1, <3>1, <3>2, <4>1 DEF RequestOK, Owed
    <3>3. CASE req[r].at # p
      BY <1>2, <2>1, <3>1, <3>3 DEF RequestOK, Owed
    <3> QED BY <3>2, <3>3
  <2> QED BY <2>2, <2>3
<1> QED BY <1>2, <1>3, <1>4 DEF Inv

LEMMA StartKeeps ==
    ASSUME Inv, NEW p \in Processes, StartResource(p)
    PROVE  Inv'
<1>1. PICK s \in Unstarted(p) :
        /\ up' = [up EXCEPT ![p] = @ \cup {s}]
        /\ started' = [started EXCEPT ![p] = @ \cup {s}]
    BY DEF StartResource
<1>2. /\ phase[p] = "starting" /\ closing[p] = None
      /\ UNCHANGED <<phase, closing, armed, exit, boots, work, handler, req, job, msg>>
    BY DEF StartResource, work, Inv, Phased
<1>3. s \in Resources /\ (s \in {"worker", "httpServer"} => "queue" \in started[p])
    BY StartsInOrder
<1>4. TypeOK'
    BY <1>1, <1>2, <1>3 DEF Inv, TypeOK
<1>5. /\ up'[p] = up[p] \cup {s} /\ started'[p] = started[p] \cup {s}
      /\ \A q \in Processes \ {p} : up'[q] = up[q] /\ started'[q] = started[q]
    BY <1>1 DEF Inv, TypeOK
<1>6. Stacked(p) /\ Phased(p)
    BY DEF Inv
<1>7. Stacked(p)'
    BY <1>2, <1>3, <1>5, <1>6, NoneAssumption DEF Stacked, Owed, Resources
<1>8. Phased(p)'
    BY <1>2, <1>3, <1>5, <1>6 DEF Phased
<1> QED BY <1>2, <1>4, <1>5, <1>7, <1>8, ProcessMoves DEF Owed

LEMMA ReadyKeeps ==
    ASSUME Inv, NEW p \in Processes, Ready(p)
    PROVE  Inv'
<1>1. /\ phase[p] = "starting" /\ closing[p] = None /\ "database" \in up[p]
      /\ phase' = [phase EXCEPT ![p] = "running"]
      /\ UNCHANGED <<up, closing, armed, exit, boots, work, handler, req, job, msg>>
    BY DEF Ready, work, Inv, Phased, Stacked
<1>2. /\ started'[p] \in {started[p], started[p] \cup {"database"}}
      /\ \A q \in Processes \ {p} : started'[q] = started[q] /\ phase'[q] = phase[q]
      /\ started' \in [Processes -> SUBSET Resources]
      /\ phase'[p] = "running"
    BY <1>1 DEF Ready, Inv, TypeOK, Resources
<1>3. TypeOK'
    BY <1>1, <1>2 DEF Inv, TypeOK
<1>4. Stacked(p) /\ Phased(p)
    BY DEF Inv
<1>5. Stacked(p)'
    BY <1>1, <1>2, <1>4, NoneAssumption DEF Stacked, Owed, Resources
<1>6. Phased(p)'
    BY <1>1, <1>2, <1>4 DEF Phased
<1> QED BY <1>1, <1>2, <1>3, <1>5, <1>6, ProcessMoves DEF Owed

\* What an exit leaves behind is nothing.
LEMMA ExitKeeps ==
    ASSUME Inv, NEW p \in Processes, NEW how \in {"clean", "failed"}, Exit(p, how)
    PROVE  Inv'
<1>1. /\ phase' = [phase EXCEPT ![p] = "exited"]
      /\ exit' = [exit EXCEPT ![p] = how]
      /\ up' = [up EXCEPT ![p] = {}]
      /\ started' = [started EXCEPT ![p] = {}]
      /\ closing' = [closing EXCEPT ![p] = None]
      /\ armed' = [armed EXCEPT ![p] = FALSE]
      /\ handler' = [handler EXCEPT ![p] = IdleHandler]
      /\ UNCHANGED <<job, msg, boots>>
    BY DEF Exit
<1> DEFINE Over == [IdleRequest EXCEPT !.pc = "over"]
           Lost(r) == InFlight(r) /\ req[r].at = p
<1>2. req' = [r \in Requests |-> IF Lost(r) THEN Over ELSE req[r]]
    BY DEF Exit
<1>3. /\ Over \in [at : Processes \cup {None}, pooled : BOOLEAN, queued : BOOLEAN,
                   pc : {"idle", "accepted", "recorded", "sent", "over"}]
      /\ Over.pc = "over" /\ Over.pooled
    BY DEF IdleRequest
<1> HIDE DEF Over, Lost
<1>4. TypeOK'
  <2>1. handler' \in [Processes -> [job : Requests \cup {None},
                                    pc : {"idle", "fetched", "claimed", "done"}]]
    BY <1>1 DEF Inv, TypeOK, IdleHandler
  <2>2. req' \in [Requests -> [at : Processes \cup {None}, pooled : BOOLEAN, queued : BOOLEAN,
                               pc : {"idle", "accepted", "recorded", "sent", "over"}]]
    BY <1>2, <1>3 DEF Inv, TypeOK
  <2>3. \A q \in Processes : (phase'[q] = "exited") = (exit'[q] # None)
    BY <1>1, NoneAssumption DEF Inv, TypeOK
  <2>4. /\ phase' \in [Processes -> {"starting", "running", "stopping", "failing", "exited"}]
        /\ up' \in [Processes -> SUBSET Resources]
        /\ started' \in [Processes -> SUBSET Resources]
        /\ closing' \in [Processes -> Resources \cup {None}]
        /\ armed' \in [Processes -> BOOLEAN]
        /\ exit' \in [Processes -> {None, "clean", "failed"}]
    BY <1>1 DEF Inv, TypeOK
  <2> QED BY <1>1, <2>1, <2>2, <2>3, <2>4 DEF Inv, TypeOK
<1>5. /\ phase'[p] = "exited" /\ up'[p] = {} /\ started'[p] = {} /\ closing'[p] = None
      /\ handler'[p] = IdleHandler
      /\ \A q \in Processes \ {p} :
           /\ phase'[q] = phase[q] /\ up'[q] = up[q]
           /\ started'[q] = started[q] /\ closing'[q] = closing[q] /\ handler'[q] = handler[q]
    BY <1>1 DEF Inv, TypeOK
<1>6. ASSUME NEW q \in Processes PROVE Stacked(q)' /\ Phased(q)' /\ HandlerOK(q)'
  <2>1. CASE q = p
    BY <1>5, <2>1, NoneAssumption DEF Stacked, Phased, HandlerOK, Owed, Resources
  <2>2. CASE q # p
    <3>1. Stacked(q) /\ Phased(q) /\ HandlerOK(q)
      BY DEF Inv
    <3> QED BY <1>5, <2>2, <3>1 DEF Stacked, Phased, HandlerOK, Owed
  <2> QED BY <2>1, <2>2
<1>7. ASSUME NEW r \in Requests PROVE RequestOK(r)'
  <2>1. CASE Lost(r)
    BY <1>2, <1>3, <2>1 DEF RequestOK, InFlight
  <2>2. CASE ~Lost(r)
    <3>1. req'[r] = req[r] /\ RequestOK(r)
      BY <1>2, <2>2 DEF Inv
    <3>2. InFlight(r)' => InFlight(r) /\ req[r].at # p
      BY <2>2, <3>1 DEF Lost, InFlight
    <3> QED BY <1>5, <3>1, <3>2 DEF RequestOK, Owed
  <2> QED BY <2>1, <2>2
<1> QED BY <1>4, <1>6, <1>7 DEF Inv

LEMMA StartFailsKeeps ==
    ASSUME Inv, NEW p \in Processes, StartFails(p)
    PROVE  Inv'
<1>1. CASE p \notin Servers
    BY <1>1, ExitKeeps DEF StartFails
<1>2. CASE p \in Servers
  <2>1. /\ phase[p] = "starting" /\ closing[p] = None
        /\ phase' = [phase EXCEPT ![p] = "failing"]
        /\ UNCHANGED <<started, closing, armed, exit, boots, work, handler, req, job, msg>>
    BY <1>2 DEF StartFails, work, Inv, Phased
  <2>2. PICK orphan \in SUBSET {"queue"} : up' = [up EXCEPT ![p] = @ \cup orphan]
    BY <1>2 DEF StartFails
  <2>3. TypeOK'
    BY <2>1, <2>2 DEF Inv, TypeOK, Resources
  <2>4. /\ phase'[p] = "failing" /\ up'[p] = up[p] \cup orphan
        /\ \A q \in Processes \ {p} : up'[q] = up[q] /\ phase'[q] = phase[q]
    BY <2>1, <2>2 DEF Inv, TypeOK
  <2>5. Stacked(p)
    BY DEF Inv
  <2>6. Stacked(p)' /\ Phased(p)'
    BY <2>1, <2>4, <2>5 DEF Stacked, Phased, Owed
  <2> QED BY <2>1, <2>3, <2>4, <2>6, ProcessMoves DEF Owed
<1> QED BY <1>1, <1>2

LEMMA RestartKeeps ==
    ASSUME Inv, NEW p \in Processes, Restart(p)
    PROVE  Inv'
<1>1. /\ phase[p] = "exited" /\ boots < MaxBoots /\ boots' = boots + 1
      /\ phase' = [phase EXCEPT ![p] = "starting"]
      /\ up' = [up EXCEPT ![p] = {"database"}]
      /\ exit' = [exit EXCEPT ![p] = None]
      /\ UNCHANGED <<started, closing, armed, work, handler, req, job, msg>>
    BY DEF Restart, work
<1>2. started[p] = {} /\ closing[p] = None
    BY <1>1 DEF Inv, Phased
<1>3. TypeOK'
    BY <1>1, ConfigAssumption DEF Inv, TypeOK, Resources
<1>4. /\ phase'[p] = "starting" /\ up'[p] = {"database"}
      /\ \A q \in Processes \ {p} : up'[q] = up[q] /\ phase'[q] = phase[q]
    BY <1>1 DEF Inv, TypeOK
<1>5. Stacked(p)' /\ Phased(p)'
    BY <1>1, <1>2, <1>4, NoneAssumption DEF Stacked, Phased, Owed, Resources
<1> QED BY <1>1, <1>3, <1>4, <1>5, ProcessMoves DEF Owed

LEMMA SignalKeeps ==
    ASSUME Inv, NEW p \in Processes, Signal(p)
    PROVE  Inv'
<1>1. CASE Exit(p, "failed")
    BY <1>1, ExitKeeps
<1>2. CASE /\ phase[p] = "running"
           /\ phase' = [phase EXCEPT ![p] = "stopping"]
           /\ armed' = [armed EXCEPT ![p] = TRUE]
           /\ UNCHANGED <<up, started, closing, exit, boots, work>>
  <2>1. TypeOK'
    BY <1>2 DEF Inv, TypeOK, work
  <2>2. phase'[p] = "stopping" /\ \A q \in Processes \ {p} : phase'[q] = phase[q]
    BY <1>2 DEF Inv, TypeOK
  <2>3. Stacked(p)' /\ Phased(p)'
    BY <1>2, <2>2 DEF Inv, Stacked, Phased, Owed
  <2> QED BY <1>2, <2>1, <2>2, <2>3, ProcessMoves DEF Owed
<1> QED BY <1>1, <1>2 DEF Signal

LEMMA BeginStopKeeps ==
    ASSUME Inv, NEW p \in Processes, BeginStop(p)
    PROVE  Inv'
<1>1. PICK s \in ToStop(p) :
        /\ closing' = [closing EXCEPT ![p] = s]
        /\ started' = [started EXCEPT ![p] = @ \ {s}]
    BY DEF BeginStop
<1>2. /\ phase[p] \in {"stopping", "failing"} /\ closing[p] = None
      /\ UNCHANGED <<phase, up, armed, exit, boots, work, handler, req, job, msg>>
    BY DEF BeginStop, TearingDown, work
<1>3. started[p] \subseteq Resources
    BY DEF Inv, TypeOK
<1>4. /\ s \in started[p]
      /\ s = "database" => started[p] = {"database"}
      /\ s = "queue" => "worker" \notin started[p]
    BY <1>3, StopsInOrder
<1>5. TypeOK'
    BY <1>1, <1>2, <1>3, <1>4 DEF Inv, TypeOK
<1>6. /\ closing'[p] = s /\ started'[p] = started[p] \ {s}
      /\ \A q \in Processes \ {p} : closing'[q] = closing[q] /\ started'[q] = started[q]
    BY <1>1 DEF Inv, TypeOK
<1>7. Stacked(p)
    BY DEF Inv
<1>8. Stacked(p)'
    BY <1>2, <1>3, <1>4, <1>6, <1>7, NoneAssumption DEF Stacked, Owed, Resources
<1>9. Phased(p)'
    BY <1>2 DEF Phased
<1> QED BY <1>2, <1>4, <1>5, <1>6, <1>8, <1>9, NoneAssumption, ProcessMoves DEF Owed, Resources

LEMMA FinishStopKeeps ==
    ASSUME Inv, NEW p \in Processes, FinishStop(p)
    PROVE  Inv'
<1> DEFINE s == closing[p]
<1>1. /\ s # None /\ Drained(p, s)
      /\ up' = [up EXCEPT ![p] = @ \ {s}]
      /\ closing' = [closing EXCEPT ![p] = None]
      /\ UNCHANGED <<phase, started, armed, exit, boots, work, handler, req, job, msg>>
    BY DEF FinishStop, work
<1>2. /\ s = "queue" => handler[p] = IdleHandler
      /\ s = "httpServer" => \A r \in Requests : req[r].at = p => ~InFlight(r)
    BY <1>1 DEF Drained
<1>3. TypeOK'
    BY <1>1 DEF Inv, TypeOK
<1>4. /\ closing'[p] = None /\ up'[p] = up[p] \ {s}
      /\ \A q \in Processes \ {p} : closing'[q] = closing[q] /\ up'[q] = up[q]
    BY <1>1 DEF Inv, TypeOK
<1>5. Stacked(p) /\ Phased(p) /\ phase[p] \in {"starting", "running", "stopping", "failing", "exited"}
    BY DEF Inv, TypeOK
<1>6. phase[p] \in {"stopping", "failing"}
    BY <1>1, <1>5 DEF Phased
<1>7. s \in Resources /\ started[p] \subseteq Resources
    BY <1>1 DEF Inv, TypeOK
<1>8. Stacked(p)'
    BY <1>1, <1>4, <1>5, <1>6, <1>7, NoneAssumption DEF Stacked, Owed, Resources
<1>9. Phased(p)'
    BY <1>1, <1>6 DEF Phased
<1> QED BY <1>1, <1>2, <1>3, <1>4, <1>8, <1>9, ProcessMoves DEF Owed

LEMMA LifecycleKeeps ==
    ASSUME Inv, NEW p \in Processes, Lifecycle(p)
    PROVE  Inv'
<1>1. CASE StopFails(p) \/ TeardownDone(p) \/ ForceExit(p) \/ Crash(p)
    BY <1>1, ExitKeeps DEF StopFails, TeardownDone, ForceExit, Crash
<1> QED BY <1>1, StartKeeps, ReadyKeeps, StartFailsKeeps, RestartKeeps, SignalKeeps,
           BeginStopKeeps, FinishStopKeeps DEF Lifecycle

----------------------------------------------------------------------------
(* The work                                                                 *)

\* Work moves on while the processes stay as they are.
LEMMA WorkMoves ==
    ASSUME Inv, UNCHANGED lifecycle, TypeOK',
           \A p \in Processes : handler'[p] # IdleHandler =>
             handler[p] # IdleHandler \/ "queue" \in Owed(p),
           \A r \in Requests : RequestOK(r)'
    PROVE  Inv'
<1>1. UNCHANGED <<phase, up, started, closing, armed, exit, boots>>
    BY DEF lifecycle
<1>2. \A p \in Processes : Stacked(p)' /\ Phased(p)' /\ HandlerOK(p)'
    BY <1>1 DEF Inv, Stacked, Phased, HandlerOK, Owed
<1> QED BY <1>2 DEF Inv

\* One request moves on in its process.
LEMMA RequestMoves ==
    ASSUME Inv, NEW r \in Requests, NEW x, UNCHANGED <<lifecycle, handler>>,
           req' = [req EXCEPT ![r] = x],
           x \in [at : Processes \cup {None}, pooled : BOOLEAN, queued : BOOLEAN,
                  pc : {"idle", "accepted", "recorded", "sent", "over"}],
           x.pooled,
           x.pc \in {"accepted", "recorded", "sent"} =>
             x.at \in Processes /\ "httpServer" \in Owed(x.at),
           job' \in [Requests -> {"none", "queued", "processing", "settled"}],
           msg' \in [Requests -> {"none", "created", "active", "completed"}]
    PROVE  Inv'
<1>1. UNCHANGED <<phase, up, started, closing, armed, exit, boots, handler>>
    BY DEF lifecycle
<1>2. req'[r] = x /\ \A t \in Requests \ {r} : req'[t] = req[t]
    BY DEF Inv, TypeOK
<1>3. TypeOK'
    BY <1>1, ZenonT(60) DEF Inv, TypeOK
<1>4. ASSUME NEW t \in Requests PROVE RequestOK(t)'
  <2>1. CASE t = r
    BY <1>1, <1>2, <2>1 DEF RequestOK, InFlight, Owed
  <2>2. CASE t # r
    BY <1>1, <1>2, <2>2 DEF Inv, RequestOK, InFlight, Owed
  <2> QED BY <2>1, <2>2
<1> QED BY <1>1, <1>3, <1>4, WorkMoves

\* A request in flight finds the pool open.
LEMMA InFlightFacts ==
    ASSUME Inv, NEW r \in Requests, InFlight(r)
    PROVE  /\ req[r] \in [at : Processes \cup {None}, pooled : BOOLEAN, queued : BOOLEAN,
                          pc : {"idle", "accepted", "recorded", "sent", "over"}]
           /\ req[r].at \in Processes /\ "httpServer" \in Owed(req[r].at)
           /\ req[r].pooled
           /\ "database" \in up[req[r].at]
<1>1. req[r].at \in Processes /\ "httpServer" \in Owed(req[r].at) /\ req[r].pooled
    BY DEF Inv, RequestOK
<1>2. "database" \in up[req[r].at]
    BY <1>1, NoneAssumption DEF Inv, Stacked, Owed, Resources
<1>3. req[r] \in [at : Processes \cup {None}, pooled : BOOLEAN, queued : BOOLEAN,
                  pc : {"idle", "accepted", "recorded", "sent", "over"}]
    BY DEF Inv, TypeOK
<1> QED BY <1>1, <1>2, <1>3

LEMMA ServeKeeps ==
    ASSUME Inv, NEW r \in Requests, Serve(r)
    PROVE  Inv'
<1>1. InFlight(r) /\ UNCHANGED <<lifecycle, handler>>
    BY DEF Serve, Record, SendMessage, Answer, InFlight
<1>2. /\ req[r] \in [at : Processes \cup {None}, pooled : BOOLEAN, queued : BOOLEAN,
                     pc : {"idle", "accepted", "recorded", "sent", "over"}]
      /\ req[r].at \in Processes /\ "httpServer" \in Owed(req[r].at)
      /\ req[r].pooled
      /\ "database" \in up[req[r].at]
    BY <1>1, InFlightFacts
<1>3. /\ job' \in [Requests -> {"none", "queued", "processing", "settled"}]
      /\ msg' \in [Requests -> {"none", "created", "active", "completed"}]
    BY DEF Serve, Record, SendMessage, Answer, Inv, TypeOK
<1>4. CASE Record(r)
  <2> DEFINE x == [req[r] EXCEPT !.pc = "recorded"]
  <2>1. req' = [req EXCEPT ![r] = x]
    BY <1>2, <1>4 DEF Record
  <2>2. /\ x \in [at : Processes \cup {None}, pooled : BOOLEAN, queued : BOOLEAN,
                  pc : {"idle", "accepted", "recorded", "sent", "over"}]
        /\ x.at = req[r].at /\ x.pooled
    BY <1>2
  <2> HIDE DEF x
  <2> QED BY <1>1, <1>2, <1>3, <2>1, <2>2, RequestMoves
<1>5. CASE SendMessage(r)
  <2> DEFINE x == [req[r] EXCEPT !.pc = "sent"]
             y == [[req[r] EXCEPT !.pc = "sent"] EXCEPT !.queued = FALSE]
  <2>1. req' = [req EXCEPT ![r] = x] \/ req' = [req EXCEPT ![r] = y]
    BY <1>2, <1>5 DEF SendMessage, Inv, TypeOK
  <2>2. /\ x \in [at : Processes \cup {None}, pooled : BOOLEAN, queued : BOOLEAN,
                  pc : {"idle", "accepted", "recorded", "sent", "over"}]
        /\ x.at = req[r].at /\ x.pooled
    BY <1>2
  <2>3. /\ y \in [at : Processes \cup {None}, pooled : BOOLEAN, queued : BOOLEAN,
                  pc : {"idle", "accepted", "recorded", "sent", "over"}]
        /\ y.at = req[r].at /\ y.pooled
    BY <1>2
  <2> HIDE DEF x, y
  <2>4. CASE req' = [req EXCEPT ![r] = x]
    BY <1>1, <1>2, <1>3, <2>2, <2>4, RequestMoves
  <2>5. CASE req' = [req EXCEPT ![r] = y]
    BY <1>1, <1>2, <1>3, <2>3, <2>5, RequestMoves
  <2> QED BY <2>1, <2>4, <2>5
<1>6. CASE Answer(r)
  <2> DEFINE x == [IdleRequest EXCEPT !.pc = "over"]
  <2>1. req' = [req EXCEPT ![r] = x]
    BY <1>6 DEF Answer
  <2>2. /\ x \in [at : Processes \cup {None}, pooled : BOOLEAN, queued : BOOLEAN,
                  pc : {"idle", "accepted", "recorded", "sent", "over"}]
        /\ x.pc = "over" /\ x.pooled
    BY DEF IdleRequest
  <2> HIDE DEF x
  <2> QED BY <1>1, <1>3, <2>1, <2>2, RequestMoves
<1> QED BY <1>4, <1>5, <1>6 DEF Serve

LEMMA AcceptKeeps ==
    ASSUME Inv, NEW p \in Processes, NEW r \in Requests, Accept(p, r)
    PROVE  Inv'
<1> DEFINE x == [[IdleRequest EXCEPT !.at = p] EXCEPT !.pc = "accepted"]
<1>1. "httpServer" \in Owed(p)
    BY DEF Accept, Inv, Stacked
<1>2. req' = [req EXCEPT ![r] = x] /\ UNCHANGED <<lifecycle, handler, job, msg>>
    BY DEF Accept
<1>3. /\ x \in [at : Processes \cup {None}, pooled : BOOLEAN, queued : BOOLEAN,
                pc : {"idle", "accepted", "recorded", "sent", "over"}]
      /\ x.at = p /\ x.pooled
    BY DEF IdleRequest
<1> HIDE DEF x
<1> QED BY <1>1, <1>2, <1>3, RequestMoves DEF Inv, TypeOK

\* The requests do not notice the worker.
LEMMA HandlerMoves ==
    ASSUME Inv, NEW p \in Processes, NEW h, UNCHANGED <<lifecycle, req>>,
           handler' = [handler EXCEPT ![p] = h],
           h \in [job : Requests \cup {None}, pc : {"idle", "fetched", "claimed", "done"}],
           h # IdleHandler => handler[p] # IdleHandler \/ "queue" \in Owed(p),
           job' \in [Requests -> {"none", "queued", "processing", "settled"}],
           msg' \in [Requests -> {"none", "created", "active", "completed"}]
    PROVE  Inv'
<1>1. UNCHANGED <<phase, up, started, closing, armed, exit, boots, req>>
    BY DEF lifecycle
<1>2. handler'[p] = h /\ \A q \in Processes \ {p} : handler'[q] = handler[q]
    BY DEF Inv, TypeOK
<1>3. TypeOK'
    BY <1>1 DEF Inv, TypeOK
<1>4. \A r \in Requests : RequestOK(r)'
    BY <1>1 DEF Inv, RequestOK, InFlight, Owed
<1> QED BY <1>1, <1>2, <1>3, <1>4, WorkMoves

LEMMA HandleKeeps ==
    ASSUME Inv, NEW p \in Processes, Handle(p)
    PROVE  Inv'
<1> DEFINE Deliveries == [job : Requests \cup {None}, pc : {"idle", "fetched", "claimed", "done"}]
           Goes(pc) == [handler[p] EXCEPT !.pc = pc]
<1>1. handler[p] \in Deliveries /\ UNCHANGED <<lifecycle, req>>
    BY DEF Inv, TypeOK, Handle, ClaimJob, Compile, Acknowledge
<1>2. handler[p] # IdleHandler
  <2>1. handler[p].pc # "idle"
    BY DEF Handle, ClaimJob, Compile, Acknowledge
  <2> QED BY <2>1 DEF IdleHandler
<1>3. /\ job' \in [Requests -> {"none", "queued", "processing", "settled"}]
      /\ msg' \in [Requests -> {"none", "created", "active", "completed"}]
  <2>1. CASE ClaimJob(p)
    BY <2>1 DEF ClaimJob, Inv, TypeOK
  <2>2. CASE Compile(p)
    BY <2>2 DEF Compile, Inv, TypeOK
  <2>3. CASE Acknowledge(p)
    BY <2>3 DEF Acknowledge, Inv, TypeOK
  <2> QED BY <2>1, <2>2, <2>3 DEF Handle
<1>4. \/ handler' = [handler EXCEPT ![p] = Goes("claimed")]
      \/ handler' = [handler EXCEPT ![p] = Goes("done")]
      \/ handler' = [handler EXCEPT ![p] = IdleHandler]
    BY DEF Handle, ClaimJob, Compile, Acknowledge
<1>5. Goes("claimed") \in Deliveries /\ Goes("done") \in Deliveries /\ IdleHandler \in Deliveries
    BY <1>1 DEF IdleHandler
<1> HIDE DEF Goes
<1> QED BY <1>1, <1>2, <1>3, <1>4, <1>5, HandlerMoves

LEMMA FetchKeeps ==
    ASSUME Inv, NEW p \in Processes, NEW j \in Requests, Fetch(p, j)
    PROVE  Inv'
<1> DEFINE h == [job |-> j, pc |-> "fetched"]
<1>1. "queue" \in Owed(p)
    BY DEF Fetch, Inv, Stacked, Owed
<1>2. handler' = [handler EXCEPT ![p] = h] /\ UNCHANGED <<lifecycle, req, job>>
    BY DEF Fetch
<1>3. h \in [job : Requests \cup {None}, pc : {"idle", "fetched", "claimed", "done"}]
    OBVIOUS
<1>4. /\ job' \in [Requests -> {"none", "queued", "processing", "settled"}]
      /\ msg' \in [Requests -> {"none", "created", "active", "completed"}]
    BY DEF Fetch, Inv, TypeOK
<1> HIDE DEF h
<1> QED BY <1>1, <1>2, <1>3, <1>4, HandlerMoves

\* What changes neither a handler nor a request.
LEMMA RowsKeep ==
    ASSUME Inv, UNCHANGED <<lifecycle, handler, req>>,
           job' \in [Requests -> {"none", "queued", "processing", "settled"}],
           msg' \in [Requests -> {"none", "created", "active", "completed"}]
    PROVE  Inv'
<1>1. UNCHANGED <<phase, up, started, closing, armed, exit, boots, handler, req>>
    BY DEF lifecycle
<1>2. TypeOK'
    BY <1>1 DEF Inv, TypeOK
<1>3. \A r \in Requests : RequestOK(r)'
    BY <1>1 DEF Inv, RequestOK, InFlight, Owed
<1> QED BY <1>1, <1>2, <1>3, WorkMoves

----------------------------------------------------------------------------

LEMMA InitInv == Init => Inv
<1> SUFFICES ASSUME Init PROVE Inv
    OBVIOUS
<1>1. TypeOK
    BY ConfigAssumption DEF Init, TypeOK, IdleHandler, IdleRequest, Resources
<1>2. \A p \in Processes : Stacked(p) /\ Phased(p) /\ HandlerOK(p)
    BY NoneAssumption DEF Init, Stacked, Phased, HandlerOK, Owed, Resources
<1>3. \A r \in Requests : RequestOK(r)
    BY DEF Init, RequestOK, InFlight, IdleRequest
<1> QED BY <1>1, <1>2, <1>3 DEF Inv

LEMMA NextInv == Inv /\ [Next]_vars => Inv'
<1> SUFFICES ASSUME Inv, [Next]_vars PROVE Inv'
    OBVIOUS
<1>1. CASE UNCHANGED vars
    BY <1>1, RowsKeep DEF vars, lifecycle, Inv, TypeOK
<1>2. ASSUME NEW p \in Processes, NEW r \in Requests, Reclaim(p, r)
      PROVE  Inv'
    BY <1>2, RowsKeep DEF Reclaim, Inv, TypeOK
<1>3. ASSUME NEW r \in Requests, Expire(r)
      PROVE  Inv'
    BY <1>3, RowsKeep DEF Expire, Inv, TypeOK
<1> QED BY <1>1, <1>2, <1>3, LifecycleKeeps, HandleKeeps, AcceptKeeps, FetchKeeps, ServeKeeps
        DEF Next

\* Every reachable state is well typed.
THEOREM TypeCorrect == Spec => []TypeOK
<1>1. Inv => TypeOK
    BY DEF Inv
<1> QED BY <1>1, InitInv, NextInv, PTL DEF Spec

\* What stands on a resource is stopped before it, from the first start to the last
\* exit: SHUTDOWN_ORDER and the order of startRuntime agree (composition-root.ts).
THEOREM Ordered == Spec => []Inv
BY InitInv, NextInv, PTL DEF Spec

\* No request and no compilation meets a closed pool, however starts, stops,
\* failing starts, forced exits and crashes fall.
THEOREM PoolStaysOpen == Spec => []PoolOutlivesWork
<1>1. Inv => PoolOutlivesWork
    BY NoneAssumption DEF Inv, HandlerOK, RequestOK, Stacked, Owed, PoolOutlivesWork, Resources
<1> QED BY <1>1, Ordered, PTL

\* A process that exits with code 0 leaves no request and no delivery open.
THEOREM CleanExitsSettle == Spec => CleanExitSettles
<1>1. ASSUME Inv, [Next]_vars, NEW p \in Processes, exit[p] = None, exit'[p] = "clean"
      PROVE  handler[p] = IdleHandler /\ \A r \in Requests : req[r].at = p => ~InFlight(r)
  <2>1. exit' # exit
    BY <1>1, NoneAssumption
  <2>2. PICK q \in Processes : Lifecycle(q)
    BY <1>1, <2>1 DEF Next, Handle, ClaimJob, Compile, Acknowledge, Accept, Fetch, Reclaim,
                      Serve, Record, SendMessage, Answer, Expire, lifecycle, vars
  <2>3. q = p /\ ~Exit(q, "failed")
    <3>1. \A how : Exit(q, how) => exit' = [exit EXCEPT ![q] = how]
      BY DEF Exit
    <3>2. exit'[p] # exit[p]
      BY <1>1, NoneAssumption
    <3>3. \/ exit' = exit
          \/ exit' = [exit EXCEPT ![q] = None]
          \/ \E how \in {"clean", "failed"} : exit' = [exit EXCEPT ![q] = how]
      BY <2>2, <3>1 DEF Lifecycle, StartResource, Ready, StartFails, Restart, Signal, BeginStop,
            FinishStop, StopFails, TeardownDone, ForceExit, Crash
    <3>4. q = p
      BY <1>1, <3>2, <3>3 DEF Inv, TypeOK
    <3>5. ~Exit(q, "failed")
      BY <1>1, <3>1, <3>4 DEF Inv, TypeOK
    <3> QED BY <3>4, <3>5
  <2>4. TeardownDone(p)
    BY <1>1, <2>1, <2>2, <2>3, NoneAssumption DEF Lifecycle, StartResource, Ready, StartFails,
          Restart, Signal, BeginStop, FinishStop, StopFails, ForceExit, Crash, Inv, TypeOK
  <2>5. started[p] = {} /\ closing[p] = None
    BY <1>1, <2>4, StopsInOrder DEF TeardownDone, TearingDown, Inv, TypeOK
  <2>6. ~("queue" \in Owed(p)) /\ ~("httpServer" \in Owed(p))
    BY <2>5, NoneAssumption DEF Owed, Resources
  <2> QED BY <1>1, <2>6 DEF Inv, HandlerOK, RequestOK
<1>2. Inv /\ [Next]_vars =>
        [\A p \in Processes :
           (exit[p] = None /\ exit'[p] = "clean") =>
              /\ handler[p] = IdleHandler
              /\ \A r \in Requests : req[r].at = p => ~InFlight(r)]_vars
    BY <1>1
<1> QED BY <1>2, Ordered, PTL DEF Spec, CleanExitSettles

\* A message is missed only by a request whose process is going down.
THEOREM OnlyTeardownsMiss == Spec => MissedOnlyInTeardown
<1> DEFINE Type == [at : Processes \cup {None}, pooled : BOOLEAN, queued : BOOLEAN,
                    pc : {"idle", "accepted", "recorded", "sent", "over"}]
<1>1. Inv => req \in [Requests -> Type]
    BY DEF Inv, TypeOK
<1>2. ASSUME Inv, [Next]_vars, NEW r \in Requests, req[r].queued, ~req'[r].queued
      PROVE  phase[req[r].at] \in {"stopping", "failing"}
  <2>1. SendMessage(r) /\ "queue" \notin up[req[r].at]
    <3> req \in [Requests -> Type]
      BY <1>1, <1>2
    <3> HIDE DEF Type
    <3>1. req' # req /\ req'[r] # req[r]
      BY <1>2
    <3>2. ~\E p \in Processes : Handle(p)
      BY <3>1 DEF Handle, ClaimJob, Compile, Acknowledge
    <3>3. ~\E p \in Processes, t \in Requests : Fetch(p, t) \/ Reclaim(p, t)
      BY <3>1 DEF Fetch, Reclaim
    <3>4. ~\E t \in Requests : Expire(t)
      BY <3>1 DEF Expire
    <3>5. ~\E p \in Processes : Lifecycle(p)
      <4> SUFFICES ASSUME NEW p \in Processes, Lifecycle(p) PROVE FALSE
        OBVIOUS
      <4>1. PICK how : Exit(p, how)
        BY <3>1 DEF Lifecycle, StartResource, Ready, StartFails, Restart, Signal, BeginStop,
              FinishStop, StopFails, TeardownDone, ForceExit, Crash, work
      <4>2. req'[r] \in {req[r], [IdleRequest EXCEPT !.pc = "over"]}
        BY <4>1 DEF Exit
      <4>3. [IdleRequest EXCEPT !.pc = "over"].queued
        BY DEF IdleRequest
      <4> QED BY <1>2, <3>1, <4>2, <4>3
    <3>6. ~\E p \in Processes, t \in Requests : Accept(p, t)
      <4> SUFFICES ASSUME NEW p \in Processes, NEW t \in Requests, Accept(p, t) PROVE FALSE
        OBVIOUS
      <4>1. t = r
        BY <3>1 DEF Accept
      <4>2. req'[r] = [[IdleRequest EXCEPT !.at = p] EXCEPT !.pc = "accepted"]
        BY <4>1 DEF Accept
      <4>3. [[IdleRequest EXCEPT !.at = p] EXCEPT !.pc = "accepted"].queued
        BY DEF IdleRequest
      <4> QED BY <1>2, <4>2, <4>3
    <3>7. PICK t \in Requests : Serve(t)
      BY <1>2, <3>1, <3>2, <3>3, <3>4, <3>5, <3>6 DEF Next, vars
    <3>8. t = r
      <4>1. \E x : req' = [req EXCEPT ![t] = x]
        BY <3>7 DEF Serve, Record, SendMessage, Answer
      <4> QED BY <3>1, <4>1
    <3>9. ~Answer(r)
      <4> SUFFICES ASSUME Answer(r) PROVE FALSE
        OBVIOUS
      <4>1. req'[r] = [IdleRequest EXCEPT !.pc = "over"]
        BY DEF Answer
      <4>2. [IdleRequest EXCEPT !.pc = "over"].queued
        BY DEF IdleRequest
      <4> QED BY <1>2, <4>1, <4>2
    <3>10. ~Record(r)
      <4> SUFFICES ASSUME Record(r) PROVE FALSE
        OBVIOUS
      <4>1. "database" \in up[req[r].at]
        BY <1>2, InFlightFacts DEF Record, InFlight
      <4>2. req'[r].queued = req[r].queued
        BY <4>1 DEF Record, Type
      <4> QED BY <1>2, <4>2
    <3>11. SendMessage(r)
      BY <3>7, <3>8, <3>9, <3>10 DEF Serve
    <3>12. CASE "queue" \in up[req[r].at]
      <4>1. req'[r].queued = req[r].queued
        BY <3>11, <3>12 DEF SendMessage, Type
      <4> QED BY <1>2, <4>1
    <3> QED BY <3>11, <3>12
  <2>2. /\ req[r].at \in Processes /\ "httpServer" \in Owed(req[r].at)
    BY <1>2, <2>1, InFlightFacts DEF SendMessage, InFlight
  <2> QED BY <1>2, <2>1, <2>2, NoneAssumption DEF Inv, TypeOK, Stacked, Phased, Owed, Resources
<1>3. Inv /\ [Next]_vars =>
        [\A r \in Requests :
           (req[r].queued /\ ~req'[r].queued) =>
              phase[req[r].at] \in {"stopping", "failing"}]_vars
    BY <1>2
<1> QED BY <1>3, Ordered, PTL DEF Spec, MissedOnlyInTeardown
=============================================================================
