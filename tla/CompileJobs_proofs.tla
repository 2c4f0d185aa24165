------------------------- MODULE CompileJobs_proofs -------------------------
(***************************************************************************)
(* What holds of CompileJobs for any number of jobs, events, handlers and  *)
(* requests, any retry limit and any faults.                               *)
(***************************************************************************)
EXTENDS CompileJobs, FiniteSetTheorems, TLAPS

-----------------------------------------------------------------------------
(* Type correctness.                                                       *)

Message == [state : MsgState, left : 0 .. RetryLimit]
MsgType == [Jobs -> [Sends -> Message]]

\* Moving a message to another state keeps the queue well typed.
LEMMA MoveType ==
  ASSUME msg \in MsgType, NEW j \in Jobs, NEW n \in Sends, NEW s \in MsgState
  PROVE  [msg EXCEPT ![j][n].state = s] \in MsgType
<1>1. /\ msg[j] \in [Sends -> Message]
      /\ msg[j][n] \in Message
  BY DEF MsgType
<1>2. [msg[j][n] EXCEPT !.state = s] \in Message
  BY <1>1 DEF Message
<1>3. [msg[j] EXCEPT ![n].state = s] \in [Sends -> Message]
  BY <1>1, <1>2
<1> QED  BY <1>3 DEF MsgType

\* Sending one, or not sending it a second time, does too.
LEMMA SendType ==
  ASSUME msg \in MsgType, NEW j \in Jobs, NEW n \in Sends, Send(j, n)
  PROVE  msg' \in MsgType
<1>1. "ready" \in MsgState
  BY DEF MsgState
<1>2. [msg EXCEPT ![j][n].state = "ready"] \in MsgType
  BY <1>1, MoveType
<1> QED  BY <1>2 DEF Send

\* Giving a delivery up does as well: the countdown stops at zero.
LEMMA RedeliverType ==
  ASSUME msg \in MsgType, NEW j \in Jobs, NEW n \in Sends, Redeliver(j, n)
  PROVE  msg' \in MsgType
<1> DEFINE m == msg[j][n]
           r == IF Exhausted(m) THEN [m EXCEPT !.state = "dead"]
                                ELSE [state |-> "ready", left |-> m.left - 1]
<1>1. /\ msg[j] \in [Sends -> Message]
      /\ m \in Message
  BY DEF MsgType
<1>2. r \in Message
  <2>1. CASE Exhausted(m)
    BY <1>1, <2>1 DEF Message, MsgState
  <2>2. CASE ~Exhausted(m)
    <3>1. m.left - 1 \in 0 .. RetryLimit
      BY <1>1, <2>2, BoundsAssumption DEF Message, Exhausted
    <3> QED  BY <1>1, <2>2, <3>1 DEF Message, MsgState
  <2> QED  BY <2>1, <2>2
<1>3. msg' = [msg EXCEPT ![j][n] = r]
  BY DEF Redeliver
<1> HIDE DEF r
<1>4. [msg[j] EXCEPT ![n] = r] \in [Sends -> Message]
  BY <1>1, <1>2
<1> QED  BY <1>3, <1>4 DEF MsgType

HandlerPC == {"idle", "fetched", "claimed", "loaded", "reject", "loop", "catch",
              "return", "throw"}

\* The handlers stay well typed when one of them changes to a typed record.
LEMMA HandlerType ==
  ASSUME TypeOK, NEW h \in Handlers, NEW r \in HandlerState, r.pc # "idle" => r.job \in Jobs,
         handler' = [handler EXCEPT ![h] = r]
  PROVE  /\ handler' \in [Handlers -> HandlerState]
         /\ \A g \in Handlers : handler'[g].pc # "idle" => handler'[g].job \in Jobs
  BY DEF TypeOK

\* A handler moves to another pc and keeps its job.
LEMMA GotoType ==
  ASSUME TypeOK, NEW h \in Handlers, NEW pc \in HandlerPC, handler[h].pc # "idle", Goto(h, pc)
  PROVE  /\ handler' \in [Handlers -> HandlerState]
         /\ \A g \in Handlers : handler'[g].pc # "idle" => handler'[g].job \in Jobs
<1> DEFINE r == [handler[h] EXCEPT !.pc = pc]
<1>1. handler[h] \in HandlerState /\ handler[h].job \in Jobs
  BY DEF TypeOK
<1>2. r \in HandlerState /\ r.job \in Jobs
  BY <1>1 DEF HandlerState, HandlerPC
<1>3. handler' = [handler EXCEPT ![h] = r]
  BY DEF Goto
<1> HIDE DEF r
<1> QED  BY <1>2, <1>3, HandlerType

\* A handler that leaves, or dies, is idle.
LEMMA LeaveType ==
  ASSUME TypeOK, NEW h \in Handlers, handler' = [handler EXCEPT ![h] = IdleHandler]
  PROVE  /\ handler' \in [Handlers -> HandlerState]
         /\ \A g \in Handlers : handler'[g].pc # "idle" => handler'[g].job \in Jobs
<1>1. 0 \in Sends
  BY BoundsAssumption DEF Sends
<1>2. IdleHandler \in HandlerState /\ IdleHandler.pc = "idle"
  BY <1>1 DEF IdleHandler, HandlerState, ErrorCode
<1> QED  BY <1>2, HandlerType

\* Recording an event's outcome keeps rows and handlers well typed.
LEMMA SettleType ==
  ASSUME TypeOK, NEW h \in Handlers, NEW e \in Events,
         NEW outcome \in {"compiled", "skipped", "failed"},
         handler[h].pc = "loop", Settle(h, e, outcome)
  PROVE  /\ row' \in [Jobs -> [Events -> RowStatus]]
         /\ handler' \in [Handlers -> HandlerState]
         /\ \A g \in Handlers : handler'[g].pc # "idle" => handler'[g].job \in Jobs
<1>1. row' \in [Jobs -> [Events -> RowStatus]]
  BY DEF TypeOK, Settle, UpsertJobEvent, RowStatus
<1>2. Rest(h, e) \subseteq Events
  BY DEF TypeOK, HandlerState, Rest
<1>3. (outcome # "failed") \in BOOLEAN
  OBVIOUS
<1>4. (handler[h].anyOk \/ outcome # "failed") \in BOOLEAN
  OBVIOUS
<1> DEFINE r == [handler[h] EXCEPT !.todo = Rest(h, e), !.written = {},
                                   !.anyOk = @ \/ outcome # "failed"]
<1>5. handler[h] \in HandlerState /\ handler[h].job \in Jobs
  BY DEF TypeOK
<1>6. r \in HandlerState /\ r.job \in Jobs
  BY <1>2, <1>4, <1>5 DEF HandlerState
<1>7. handler' = [handler EXCEPT ![h] = r]
  BY DEF Settle
<1> HIDE DEF r
<1> QED  BY <1>1, <1>6, <1>7, HandlerType

\* Writing a job's status keeps its columns well typed.
LEMMA UpdateJobStatusType ==
  ASSUME TypeOK, NEW j \in Jobs, NEW s \in JobStatus, NEW e \in ErrorCode \cup {Keep},
         UpdateJobStatus(j, s, e)
  PROVE  /\ status' \in [Jobs -> JobStatus]
         /\ error' \in [Jobs -> ErrorCode]
         /\ attempts' \in [Jobs -> Nat]
         /\ aged' \in [Jobs -> BOOLEAN]
  BY DEF TypeOK, UpdateJobStatus

\* A fault is counted, and no behaviour has more than MaxFaults.
LEMMA FaultType ==
  ASSUME TypeOK, NEW f, Fault(f)
  PROVE  faults' \in 0 .. MaxFaults
  BY BoundsAssumption DEF TypeOK, Fault

\* What the delivery actions change: the messages, and the handler concerned.
LEMMA QueueType == TypeOK /\ Queue => TypeOK'
<1> SUFFICES ASSUME TypeOK, Queue PROVE TypeOK'
  OBVIOUS
<1> USE DEF tables, columns, actors
<1>1. msg \in MsgType
  BY DEF TypeOK, MsgType, Message
<1>2. ASSUME NEW h \in Handlers, NEW j \in Jobs, NEW n \in Sends, Deliver(h, j, n)
      PROVE  TypeOK'
  <2>1. msg' \in MsgType
    BY <1>1, <1>2, MoveType DEF Deliver, MsgState
  <2> DEFINE r == [IdleHandler EXCEPT !.pc = "fetched", !.job = j, !.send = n]
  <2>2. r \in HandlerState /\ r.job \in Jobs
    BY DEF IdleHandler, HandlerState, ErrorCode
  <2>3. handler' = [handler EXCEPT ![h] = r]
    BY <1>2 DEF Deliver
  <2> HIDE DEF r
  <2>4. /\ handler' \in [Handlers -> HandlerState]
        /\ \A g \in Handlers : handler'[g].pc # "idle" => handler'[g].job \in Jobs
    BY <2>2, <2>3, HandlerType
  <2> QED  BY <1>2, <2>1, <2>4 DEF TypeOK, MsgType, Message, Deliver
<1>3. ASSUME NEW j \in Jobs, NEW n \in Sends, ExpireAbandoned(j, n)
      PROVE  TypeOK'
  <2>1. msg' \in MsgType
    BY <1>1, <1>3, RedeliverType DEF ExpireAbandoned
  <2> QED  BY <1>3, <2>1 DEF TypeOK, MsgType, Message, ExpireAbandoned
<1>4. ASSUME NEW h \in Handlers, ExpireOverrun(h)
      PROVE  TypeOK'
  <2>1. handler[h] \in HandlerState /\ handler[h].job \in Jobs /\ handler[h].send \in Sends
    BY <1>4 DEF ExpireOverrun, TypeOK, HandlerState
  <2>2. msg' \in MsgType
    BY <1>1, <1>4, <2>1, RedeliverType DEF ExpireOverrun
  <2>3. faults' \in 0 .. MaxFaults
    BY <1>4, FaultType DEF ExpireOverrun
  <2> DEFINE r == [handler[h] EXCEPT !.late = TRUE]
  <2>4. r \in HandlerState /\ r.job \in Jobs
    BY <2>1 DEF HandlerState
  <2>5. handler' = [handler EXCEPT ![h] = r]
    BY <1>4 DEF ExpireOverrun
  <2> HIDE DEF r
  <2>6. /\ handler' \in [Handlers -> HandlerState]
        /\ \A g \in Handlers : handler'[g].pc # "idle" => handler'[g].job \in Jobs
    BY <2>4, <2>5, HandlerType
  <2> QED  BY <1>4, <2>2, <2>3, <2>6 DEF TypeOK, MsgType, Message, ExpireOverrun
<1>5. ASSUME NEW h \in Handlers, Acknowledge(h)
      PROVE  TypeOK'
  <2>1. handler[h].job \in Jobs /\ handler[h].send \in Sends
    BY <1>5 DEF Acknowledge, TypeOK, HandlerState
  <2>2. [msg EXCEPT ![handler[h].job][handler[h].send].state = "done"] \in MsgType
    BY <1>1, <2>1, MoveType DEF MsgState
  <2>3. msg' \in MsgType
    BY <1>1, <1>5, <2>2 DEF Acknowledge
  <2>4. /\ handler' \in [Handlers -> HandlerState]
        /\ \A g \in Handlers : handler'[g].pc # "idle" => handler'[g].job \in Jobs
    BY <1>5, LeaveType DEF Acknowledge
  <2> QED  BY <1>5, <2>3, <2>4 DEF TypeOK, MsgType, Message, Acknowledge
<1>6. ASSUME NEW h \in Handlers, Reject(h)
      PROVE  TypeOK'
  <2>1. handler[h].job \in Jobs /\ handler[h].send \in Sends
    BY <1>6 DEF Reject, TypeOK, HandlerState
  <2>2. msg' \in MsgType
    BY <1>1, <1>6, <2>1, RedeliverType DEF Reject
  <2>3. /\ handler' \in [Handlers -> HandlerState]
        /\ \A g \in Handlers : handler'[g].pc # "idle" => handler'[g].job \in Jobs
    BY <1>6, LeaveType DEF Reject
  <2> QED  BY <1>6, <2>2, <2>3 DEF TypeOK, MsgType, Message, Reject
<1> QED  BY <1>2, <1>3, <1>4, <1>5, <1>6 DEF Queue

\* What a handler does of its own accord keeps every variable well typed.
LEMMA HandlerStepType ==
  ASSUME TypeOK, NEW h \in Handlers, HandlerStep(h)
  PROVE  TypeOK'
<1> USE DEF tables, columns, actors
<1>j. handler[h] \in HandlerState /\ (handler[h].pc # "idle" => handler[h].job \in Jobs)
  BY DEF TypeOK
<1>1. CASE Claim(h)
  <2>1. handler[h].pc = "fetched" /\ handler[h].job \in Jobs
    BY <1>1, <1>j DEF Claim
  <2>2. PICK pc \in HandlerPC : Goto(h, pc)
    BY <1>1 DEF Claim, HandlerPC
  <2>3. /\ handler' \in [Handlers -> HandlerState]
        /\ \A g \in Handlers : handler'[g].pc # "idle" => handler'[g].job \in Jobs
    BY <2>1, <2>2, GotoType
  <2>4. /\ status' \in [Jobs -> JobStatus]
        /\ error' \in [Jobs -> ErrorCode]
        /\ attempts' \in [Jobs -> Nat]
        /\ aged' \in [Jobs -> BOOLEAN]
    <3>1. CASE ClaimJob(handler[h].job)
      BY <2>1, <3>1 DEF TypeOK, ClaimJob, JobStatus
    <3>2. CASE UNCHANGED columns
      BY <3>2 DEF TypeOK
    <3> QED  BY <1>1, <3>1, <3>2 DEF Claim
  <2> QED  BY <1>1, <2>3, <2>4 DEF TypeOK, Claim
<1>2. CASE LoadPending(h)
  <2>1. handler[h].pc = "claimed" /\ handler[h].job \in Jobs
    BY <1>2, <1>j DEF LoadPending
  <2> DEFINE pending == PendingEvents(handler[h].job)
             r == IF pending = {}
                  THEN [handler[h] EXCEPT !.pc = "reject", !.reason = "no_events_found"]
                  ELSE [handler[h] EXCEPT !.pc = "loaded", !.todo = pending]
  <2>2. pending \subseteq Events
    BY DEF PendingEvents
  <2> HIDE DEF pending
  <2>3. r \in HandlerState /\ r.job \in Jobs
    BY <1>j, <2>1, <2>2 DEF HandlerState, ErrorCode
  <2>4. handler' = [handler EXCEPT ![h] = r]
    BY <1>2 DEF LoadPending, pending
  <2> HIDE DEF r
  <2>5. /\ handler' \in [Handlers -> HandlerState]
        /\ \A g \in Handlers : handler'[g].pc # "idle" => handler'[g].job \in Jobs
    BY <2>3, <2>4, HandlerType
  <2> QED  BY <1>2, <2>5 DEF TypeOK, LoadPending
<1>3. CASE NoProvider(h)
  <2> DEFINE r == [handler[h] EXCEPT !.pc = "reject", !.reason = "no_llm_provider"]
  <2>1. r \in HandlerState /\ r.job \in Jobs
    BY <1>j, <1>3 DEF NoProvider, HandlerState, ErrorCode
  <2>2. handler' = [handler EXCEPT ![h] = r]
    BY <1>3 DEF NoProvider
  <2> HIDE DEF r
  <2>3. /\ handler' \in [Handlers -> HandlerState]
        /\ \A g \in Handlers : handler'[g].pc # "idle" => handler'[g].job \in Jobs
    BY <2>1, <2>2, HandlerType
  <2> QED  BY <1>3, <2>3 DEF TypeOK, NoProvider
<1>4. ASSUME NEW s \in JobStatus, NEW e \in ErrorCode \cup {Keep}, NEW pc \in HandlerPC,
             handler[h].pc # "idle", UpdateJobStatus(handler[h].job, s, e), Goto(h, pc),
             faults' \in 0 .. MaxFaults,
             UNCHANGED <<row, page, msg, resets, admin, producer, sweep>>
      PROVE  TypeOK'
  <2>1. /\ handler' \in [Handlers -> HandlerState]
        /\ \A g \in Handlers : handler'[g].pc # "idle" => handler'[g].job \in Jobs
    BY <1>4, GotoType
  <2>2. handler[h].job \in Jobs
    BY <1>4, <1>j
  <2>3. /\ status' \in [Jobs -> JobStatus]
        /\ error' \in [Jobs -> ErrorCode]
        /\ attempts' \in [Jobs -> Nat]
        /\ aged' \in [Jobs -> BOOLEAN]
    BY <1>4, <2>2, UpdateJobStatusType
  <2> QED  BY <1>4, <2>1, <2>3 DEF TypeOK
<1>5. faults \in 0 .. MaxFaults
  BY DEF TypeOK
<1>6. CASE RejectJob(h)
  <2>1. handler[h].reason \in ErrorCode
    BY <1>j DEF HandlerState
  <2> QED  BY <1>4, <1>5, <1>6, <2>1 DEF RejectJob, JobStatus, HandlerPC
<1>7. CASE StartCompiling(h)
  BY <1>4, <1>5, <1>7 DEF StartCompiling, JobStatus, HandlerPC
<1>8. CASE Finish(h)
  <2>1. FinalStatus(h) \in JobStatus /\ FinalError(h) \in ErrorCode \cup {Keep}
    BY DEF FinalStatus, FinalError, JobStatus, ErrorCode
  <2> QED  BY <1>4, <1>5, <1>8, <2>1 DEF Finish, FinishAt, NoFault, HandlerPC
<1>9. CASE CatchFailsJob(h)
  BY <1>4, <1>5, <1>9 DEF CatchFailsJob, JobStatus, ErrorCode, HandlerPC
<1>10. ASSUME NEW e \in Events, SettleWithoutPage(h, e)
       PROVE  TypeOK'
  <2>1. PICK outcome \in {"skipped", "failed"} : Settle(h, e, outcome)
    BY <1>10 DEF SettleWithoutPage
  <2>2. handler[h].pc = "loop" /\ faults' = faults
    BY <1>10 DEF SettleWithoutPage, NoFault
  <2>3. /\ row' \in [Jobs -> [Events -> RowStatus]]
        /\ handler' \in [Handlers -> HandlerState]
        /\ \A g \in Handlers : handler'[g].pc # "idle" => handler'[g].job \in Jobs
    BY <2>1, <2>2, SettleType
  <2> QED  BY <2>1, <2>2, <2>3 DEF TypeOK, Settle
<1>11. ASSUME NEW e \in Events, WritePage(h, e)
       PROVE  TypeOK'
  <2>1. handler[h].job \in Jobs
    BY <1>j, <1>11 DEF WritePage
  <2>2. page' \in [Jobs -> [Events -> Nat]]
    BY <1>11, <2>1 DEF TypeOK, WritePage
  <2> DEFINE r == [handler[h] EXCEPT !.written = {e}]
  <2>3. r \in HandlerState /\ r.job \in Jobs
    BY <1>j, <2>1 DEF HandlerState
  <2>4. handler' = [handler EXCEPT ![h] = r]
    BY <1>11 DEF WritePage
  <2> HIDE DEF r
  <2>5. /\ handler' \in [Handlers -> HandlerState]
        /\ \A g \in Handlers : handler'[g].pc # "idle" => handler'[g].job \in Jobs
    BY <2>3, <2>4, HandlerType
  <2> QED  BY <1>11, <2>2, <2>5 DEF TypeOK, WritePage
<1>12. ASSUME NEW e \in Events, RecordCompiled(h, e)
       PROVE  TypeOK'
  <2>1. Settle(h, e, "compiled") /\ handler[h].pc = "loop" /\ faults' = faults
    BY <1>12 DEF RecordCompiled, NoFault
  <2>2. /\ row' \in [Jobs -> [Events -> RowStatus]]
        /\ handler' \in [Handlers -> HandlerState]
        /\ \A g \in Handlers : handler'[g].pc # "idle" => handler'[g].job \in Jobs
    BY <2>1, SettleType
  <2> QED  BY <2>1, <2>2 DEF TypeOK, Settle
<1> QED  BY <1>1, <1>2, <1>3, <1>6, <1>7, <1>8, <1>9, <1>10, <1>11, <1>12 DEF HandlerStep

\* So does what may happen to it.
LEMMA HandlerFaultType ==
  ASSUME TypeOK, NEW h \in Handlers, HandlerFault(h)
  PROVE  TypeOK'
<1> USE DEF tables, columns, actors
<1>1. faults' \in 0 .. MaxFaults
  BY FaultType DEF HandlerFault, ClaimAnswerLost, FinishAnswerLost, StatementThrows,
     RecordCompiledThrows, CatchWriteThrows, WorkerCrash
<1>j. handler[h] \in HandlerState /\ (handler[h].pc # "idle" => handler[h].job \in Jobs)
  BY DEF TypeOK
<1>2. CASE ClaimAnswerLost(h)
  <2>1. handler[h].pc = "fetched" /\ handler[h].job \in Jobs
    BY <1>2, <1>j DEF ClaimAnswerLost
  <2>2. /\ handler' \in [Handlers -> HandlerState]
        /\ \A g \in Handlers : handler'[g].pc # "idle" => handler'[g].job \in Jobs
    BY <1>2, <2>1, GotoType DEF ClaimAnswerLost, HandlerPC
  <2>3. /\ status' \in [Jobs -> JobStatus]
        /\ error' \in [Jobs -> ErrorCode]
        /\ attempts' \in [Jobs -> Nat]
        /\ aged' \in [Jobs -> BOOLEAN]
    BY <1>2, <2>1 DEF TypeOK, ClaimAnswerLost, ClaimJob, JobStatus
  <2> QED  BY <1>1, <1>2, <2>2, <2>3 DEF TypeOK, ClaimAnswerLost
<1>3. CASE FinishAnswerLost(h)
  <2>1. handler[h].job \in Jobs /\ handler[h].pc # "idle"
    BY <1>3, <1>j DEF FinishAnswerLost, FinishAt
  <2>2. FinalStatus(h) \in JobStatus /\ FinalError(h) \in ErrorCode \cup {Keep}
    BY DEF FinalStatus, FinalError, JobStatus, ErrorCode
  <2>3. /\ status' \in [Jobs -> JobStatus]
        /\ error' \in [Jobs -> ErrorCode]
        /\ attempts' \in [Jobs -> Nat]
        /\ aged' \in [Jobs -> BOOLEAN]
    BY <1>3, <2>1, <2>2, UpdateJobStatusType DEF FinishAnswerLost, FinishAt
  <2>4. /\ handler' \in [Handlers -> HandlerState]
        /\ \A g \in Handlers : handler'[g].pc # "idle" => handler'[g].job \in Jobs
    BY <1>3, <2>1, GotoType DEF FinishAnswerLost, FinishAt, HandlerPC
  <2> QED  BY <1>1, <1>3, <2>3, <2>4 DEF TypeOK, FinishAnswerLost, FinishAt
<1>4. CASE StatementThrows(h) \/ CatchWriteThrows(h)
  <2>1. handler[h].pc # "idle" /\ \E pc \in HandlerPC : Goto(h, pc)
    BY <1>4 DEF StatementThrows, CatchWriteThrows, HandlerPC
  <2>2. /\ handler' \in [Handlers -> HandlerState]
        /\ \A g \in Handlers : handler'[g].pc # "idle" => handler'[g].job \in Jobs
    BY <2>1, GotoType
  <2> QED  BY <1>1, <1>4, <2>2 DEF TypeOK, StatementThrows, CatchWriteThrows
<1>5. ASSUME NEW e \in Events, RecordCompiledThrows(h, e)
      PROVE  TypeOK'
  <2>1. Settle(h, e, "failed") /\ handler[h].pc = "loop"
    BY <1>5 DEF RecordCompiledThrows
  <2>2. /\ row' \in [Jobs -> [Events -> RowStatus]]
        /\ handler' \in [Handlers -> HandlerState]
        /\ \A g \in Handlers : handler'[g].pc # "idle" => handler'[g].job \in Jobs
    BY <2>1, SettleType
  <2> QED  BY <1>1, <2>1, <2>2 DEF TypeOK, Settle
<1>6. CASE WorkerCrash(h)
  <2>1. /\ handler' \in [Handlers -> HandlerState]
        /\ \A g \in Handlers : handler'[g].pc # "idle" => handler'[g].job \in Jobs
    BY <1>6, LeaveType DEF WorkerCrash
  <2> QED  BY <1>1, <1>6, <2>1 DEF TypeOK, WorkerCrash
<1> QED  BY <1>2, <1>3, <1>4, <1>5, <1>6 DEF HandlerFault

\* The sweep, and the clock it looks at, keep every variable well typed.
LEMMA SweeperType == TypeOK /\ Sweeper => TypeOK'
<1> SUFFICES ASSUME TypeOK, Sweeper PROVE TypeOK'
  OBVIOUS
<1> USE DEF tables, columns, actors
<1>1. ASSUME NEW j \in Jobs, AgeAbandoned(j)
      PROVE  TypeOK'
  BY <1>1 DEF TypeOK, AgeAbandoned
<1>2. ASSUME NEW j \in Jobs, AgeOverrun(j)
      PROVE  TypeOK'
  <2>1. faults' \in 0 .. MaxFaults
    BY <1>2, FaultType DEF AgeOverrun
  <2> QED  BY <1>2, <2>1 DEF TypeOK, AgeOverrun
<1>3. ASSUME NEW s \in Sweepers, SweepJobs(s)
      PROVE  TypeOK'
  <2>1. status' \in [Jobs -> JobStatus] /\ error' \in [Jobs -> ErrorCode]
    BY <1>3 DEF TypeOK, SweepJobs, JobStatus, ErrorCode
  <2>2. Stale \subseteq Jobs
    BY DEF Stale
  <2>3. sweep' \in [Sweepers -> SUBSET Jobs]
    BY <1>3, <2>2 DEF TypeOK, SweepJobs
  <2> QED  BY <1>3, <2>1, <2>3 DEF TypeOK, SweepJobs
<1>4. ASSUME NEW s \in Sweepers, SweepRows(s)
      PROVE  TypeOK'
  <2>1. row' \in [Jobs -> [Events -> RowStatus]]
    BY <1>4 DEF TypeOK, SweepRows, Swept, RowStatus
  <2>2. sweep' \in [Sweepers -> SUBSET Jobs]
    BY <1>4 DEF TypeOK, SweepRows
  <2> QED  BY <1>4, <2>1, <2>2 DEF TypeOK, SweepRows
<1>5. ASSUME NEW s \in Sweepers, SweeperCrash(s)
      PROVE  TypeOK'
  <2>1. faults' \in 0 .. MaxFaults
    BY <1>5, FaultType DEF SweeperCrash
  <2>2. sweep' \in [Sweepers -> SUBSET Jobs]
    BY <1>5 DEF TypeOK, SweeperCrash
  <2> QED  BY <1>5, <2>1, <2>2 DEF TypeOK, SweeperCrash
<1> QED  BY <1>1, <1>2, <1>3, <1>4, <1>5 DEF Sweeper

\* The retry requests stay well typed when one of them changes to a typed record.
LEMMA AdminType ==
  ASSUME TypeOK, NEW a \in Admins, NEW r \in AdminState, r.pc # "idle" => r.job \in Jobs,
         admin' = [admin EXCEPT ![a] = r]
  PROVE  /\ admin' \in [Admins -> AdminState]
         /\ \A b \in Admins : admin'[b].pc # "idle" => admin'[b].job \in Jobs
  BY DEF TypeOK

\* A retry request keeps every variable well typed.
LEMMA AdminStepType ==
  ASSUME TypeOK, NEW a \in Admins, Admin(a)
  PROVE  TypeOK'
<1> USE DEF tables, columns, actors
<1>1. admin[a] \in AdminState /\ (admin[a].pc # "idle" => admin[a].job \in Jobs)
  BY DEF TypeOK
<1>2. IdleAdmin \in AdminState /\ IdleAdmin.pc = "idle"
  BY BoundsAssumption DEF IdleAdmin, AdminState, Sends, RetryMode
<1>3. ASSUME admin' = [admin EXCEPT ![a] = IdleAdmin]
      PROVE  /\ admin' \in [Admins -> AdminState]
             /\ \A b \in Admins : admin'[b].pc # "idle" => admin'[b].job \in Jobs
  BY <1>2, <1>3, AdminType
<1>4. ASSUME NEW j \in Jobs, NEW mode \in RetryMode, RetryRead(a, j, mode)
      PROVE  TypeOK'
  <2> DEFINE pc == IF mode = "failed" THEN "events" ELSE "reset"
             r == [IdleAdmin EXCEPT !.pc = pc, !.job = j, !.mode = mode]
  <2>0. pc \in {"events", "reset"} /\ 0 \in Sends
    BY BoundsAssumption DEF Sends
  <2>1. r \in AdminState /\ r.job \in Jobs
    <3> HIDE DEF pc
    <3> QED  BY <2>0 DEF IdleAdmin, AdminState
  <2>2. admin' = [admin EXCEPT ![a] = r]
    BY <1>4 DEF RetryRead
  <2> HIDE DEF r
  <2>3. /\ admin' \in [Admins -> AdminState]
        /\ \A b \in Admins : admin'[b].pc # "idle" => admin'[b].job \in Jobs
    BY <2>1, <2>2, AdminType
  <2> QED  BY <1>4, <2>3 DEF TypeOK, RetryRead
<1>5. CASE RetryReadEvents(a)
  <2> DEFINE r == IF \E e \in Events : row[admin[a].job][e] = "failed"
                  THEN [admin[a] EXCEPT !.pc = "reset"] ELSE IdleAdmin
  <2>1. r \in AdminState /\ (r.pc # "idle" => r.job \in Jobs)
    BY <1>1, <1>2, <1>5 DEF RetryReadEvents, AdminState
  <2>2. admin' = [admin EXCEPT ![a] = r]
    BY <1>5 DEF RetryReadEvents
  <2> HIDE DEF r
  <2>3. /\ admin' \in [Admins -> AdminState]
        /\ \A b \in Admins : admin'[b].pc # "idle" => admin'[b].job \in Jobs
    BY <2>1, <2>2, AdminType
  <2> QED  BY <1>5, <2>3 DEF TypeOK, RetryReadEvents
<1>6. CASE ResetJob(a)
  <2> DEFINE j == admin[a].job
             r == [admin[a] EXCEPT !.pc = "rows", !.send = resets[j] + 1]
  <2>1. j \in Jobs
    BY <1>1, <1>6 DEF ResetJob
  <2>2. CASE Retryable(j)
    <3>1. resets[j] + 1 \in Sends
      BY <2>1, <2>2, BoundsAssumption DEF TypeOK, Retryable, Sends
    <3>2. r \in AdminState /\ r.job \in Jobs
      BY <1>1, <2>1, <3>1 DEF AdminState
    <3>3. admin' = [admin EXCEPT ![a] = r]
      BY <1>6, <2>2 DEF ResetJob
    <3>4. /\ status' \in [Jobs -> JobStatus]
          /\ error' \in [Jobs -> ErrorCode]
          /\ aged' \in [Jobs -> BOOLEAN]
          /\ resets' \in [Jobs -> Sends]
      <4>1. /\ status' = [status EXCEPT ![j] = "queued"]
            /\ error' = [error EXCEPT ![j] = "none"]
            /\ aged' = [aged EXCEPT ![j] = FALSE]
            /\ resets' = [resets EXCEPT ![j] = resets[j] + 1]
        BY <1>6, <2>2 DEF ResetJob, ErrorAfterReset
      <4> QED  BY <2>1, <3>1, <4>1 DEF TypeOK, JobStatus, ErrorCode
    <3> HIDE DEF r
    <3>5. /\ admin' \in [Admins -> AdminState]
          /\ \A b \in Admins : admin'[b].pc # "idle" => admin'[b].job \in Jobs
      BY <3>2, <3>3, AdminType
    <3> QED  BY <1>6, <3>4, <3>5 DEF TypeOK, ResetJob
  <2>3. CASE ~Retryable(j)
    BY <1>3, <1>6, <2>3 DEF TypeOK, ResetJob
  <2> QED  BY <2>2, <2>3
<1>7. CASE ResetRows(a)
  <2> DEFINE r == [admin[a] EXCEPT !.pc = "send"]
  <2>1. admin[a].job \in Jobs /\ r \in AdminState /\ r.job \in Jobs
    BY <1>1, <1>7 DEF ResetRows, AdminState
  <2>2. admin' = [admin EXCEPT ![a] = r]
    BY <1>7 DEF ResetRows
  <2>3. row' \in [Jobs -> [Events -> RowStatus]]
    BY <1>7, <2>1 DEF TypeOK, ResetRows, RowStatus
  <2> HIDE DEF r
  <2>4. /\ admin' \in [Admins -> AdminState]
        /\ \A b \in Admins : admin'[b].pc # "idle" => admin'[b].job \in Jobs
    BY <2>1, <2>2, AdminType
  <2> QED  BY <1>7, <2>3, <2>4 DEF TypeOK, ResetRows
<1>8. CASE RetrySend(a)
  <2>1. admin[a].job \in Jobs /\ RetryMessage(a) \in Sends /\ msg \in MsgType
    BY <1>1, <1>8 DEF TypeOK, RetrySend, RetryMessage, AdminState, MsgType, Message
  <2>2. msg' \in MsgType
    BY <1>8, <2>1, SendType DEF RetrySend
  <2> QED  BY <1>3, <1>8, <2>2 DEF TypeOK, RetrySend, MsgType, Message
<1>9. CASE AdminCrash(a)
  <2>1. faults' \in 0 .. MaxFaults
    BY <1>9, FaultType DEF AdminCrash
  <2> QED  BY <1>3, <1>9, <2>1 DEF TypeOK, AdminCrash
<1> QED  BY <1>4, <1>5, <1>6, <1>7, <1>8, <1>9 DEF Admin

\* A compilation request keeps every variable well typed.
LEMMA ProducerStepType ==
  ASSUME TypeOK, NEW p \in Producers, Producer(p)
  PROVE  TypeOK'
<1> USE DEF tables, columns, actors
<1>1. producer[p] \in ProducerState /\ (producer[p].pc # "idle" => producer[p].job \in Jobs)
  BY DEF TypeOK
<1>2. ASSUME NEW r \in ProducerState, r.pc # "idle" => r.job \in Jobs,
             producer' = [producer EXCEPT ![p] = r]
      PROVE  /\ producer' \in [Producers -> ProducerState]
             /\ \A q \in Producers : producer'[q].pc # "idle" => producer'[q].job \in Jobs
  BY <1>2 DEF TypeOK
<1>3. ASSUME producer' = [producer EXCEPT ![p] = IdleProducer]
      PROVE  /\ producer' \in [Producers -> ProducerState]
             /\ \A q \in Producers : producer'[q].pc # "idle" => producer'[q].job \in Jobs
  <2>1. IdleProducer \in ProducerState /\ IdleProducer.pc = "idle"
    BY DEF IdleProducer, ProducerState
  <2> QED  BY <1>2, <1>3, <2>1
<1>4. ASSUME NEW j \in Jobs, Submit(p, j)
      PROVE  TypeOK'
  <2> DEFINE r == [pc |-> IF status[j] = "absent" THEN "create" ELSE "answered",
                   job |-> j, todo |-> {}]
  <2>1. r \in ProducerState /\ r.job \in Jobs
    BY DEF ProducerState
  <2>2. producer' = [producer EXCEPT ![p] = r]
    BY <1>4 DEF Submit
  <2> HIDE DEF r
  <2>3. /\ producer' \in [Producers -> ProducerState]
        /\ \A q \in Producers : producer'[q].pc # "idle" => producer'[q].job \in Jobs
    BY <1>2, <2>1, <2>2
  <2> QED  BY <1>4, <2>3 DEF TypeOK, Submit
<1>5. CASE CreateJob(p)
  <2> DEFINE r == [producer[p] EXCEPT !.pc = "rows", !.todo = Events]
  <2>1. producer[p].job \in Jobs /\ r \in ProducerState /\ r.job \in Jobs
    BY <1>1, <1>5 DEF CreateJob, ProducerState
  <2>2. producer' = [producer EXCEPT ![p] = r]
    BY <1>5 DEF CreateJob
  <2>3. status' \in [Jobs -> JobStatus]
    BY <1>5, <2>1 DEF TypeOK, CreateJob, JobStatus
  <2> HIDE DEF r
  <2>4. /\ producer' \in [Producers -> ProducerState]
        /\ \A q \in Producers : producer'[q].pc # "idle" => producer'[q].job \in Jobs
    BY <1>2, <2>1, <2>2
  <2> QED  BY <1>5, <2>3, <2>4 DEF TypeOK, CreateJob
<1>6. CASE CreateJobLosesRace(p)
  BY <1>3, <1>6 DEF TypeOK, CreateJobLosesRace
<1>7. ASSUME NEW e \in Events, CreateRow(p, e)
      PROVE  TypeOK'
  <2> DEFINE r == [producer[p] EXCEPT !.todo = @ \ {e}]
  <2>1. producer[p].job \in Jobs /\ r \in ProducerState /\ r.job \in Jobs
    BY <1>1, <1>7 DEF CreateRow, ProducerState
  <2>2. producer' = [producer EXCEPT ![p] = r]
    BY <1>7 DEF CreateRow
  <2>3. row' \in [Jobs -> [Events -> RowStatus]]
    BY <1>7, <2>1 DEF TypeOK, CreateRow, UpsertJobEvent, RowStatus
  <2> HIDE DEF r
  <2>4. /\ producer' \in [Producers -> ProducerState]
        /\ \A q \in Producers : producer'[q].pc # "idle" => producer'[q].job \in Jobs
    BY <1>2, <2>1, <2>2
  <2> QED  BY <1>7, <2>3, <2>4 DEF TypeOK, CreateRow
<1>8. CASE EnqueueSend(p)
  <2> DEFINE r == [producer[p] EXCEPT !.pc = "answered"]
  <2>1. producer[p].job \in Jobs /\ r \in ProducerState /\ r.job \in Jobs
    BY <1>1, <1>8 DEF EnqueueSend, ProducerState
  <2>2. producer' = [producer EXCEPT ![p] = r]
    BY <1>8 DEF EnqueueSend
  <2>3. msg \in MsgType /\ 0 \in Sends
    BY BoundsAssumption DEF TypeOK, MsgType, Message, Sends
  <2>4. msg' \in MsgType
    BY <1>8, <2>1, <2>3, SendType DEF EnqueueSend
  <2> HIDE DEF r
  <2>5. /\ producer' \in [Producers -> ProducerState]
        /\ \A q \in Producers : producer'[q].pc # "idle" => producer'[q].job \in Jobs
    BY <1>2, <2>1, <2>2
  <2> QED  BY <1>8, <2>4, <2>5 DEF TypeOK, EnqueueSend, MsgType, Message
<1>9. CASE NextRequest(p)
  BY <1>3, <1>9 DEF TypeOK, NextRequest
<1>10. CASE ProducerCrash(p)
  <2>1. faults' \in 0 .. MaxFaults
    BY <1>10, FaultType DEF ProducerCrash
  <2> QED  BY <1>3, <1>10, <2>1 DEF TypeOK, ProducerCrash
<1> QED  BY <1>4, <1>5, <1>6, <1>7, <1>8, <1>9, <1>10 DEF Producer

\* Initially there is no job, no message and nobody at work.
LEMMA InitType == Init => TypeOK
<1> SUFFICES ASSUME Init PROVE TypeOK
  OBVIOUS
<1>1. 0 \in Sends
  BY BoundsAssumption DEF Sends
<1>2. [state |-> "unsent", left |-> RetryLimit] \in [state : MsgState, left : 0 .. RetryLimit]
  BY BoundsAssumption DEF MsgState
<1>3. msg \in [Jobs -> [Sends -> [state : MsgState, left : 0 .. RetryLimit]]]
  BY <1>2 DEF Init
<1>4. /\ IdleHandler \in HandlerState /\ IdleHandler.pc = "idle"
      /\ IdleAdmin \in AdminState /\ IdleAdmin.pc = "idle"
      /\ IdleProducer \in ProducerState /\ IdleProducer.pc = "idle"
  BY <1>1 DEF IdleHandler, HandlerState, ErrorCode, IdleAdmin, AdminState, RetryMode,
              IdleProducer, ProducerState
<1>5. faults \in 0 .. MaxFaults
  BY BoundsAssumption DEF Init
<1> QED  BY <1>1, <1>3, <1>4, <1>5 DEF Init, TypeOK, JobStatus, ErrorCode, RowStatus

\* Every step of the system, and none at all, keeps every variable well typed.
LEMMA NextType == TypeOK /\ [Next]_vars => TypeOK'
<1>1. TypeOK /\ Next => TypeOK'
  BY QueueType, HandlerStepType, HandlerFaultType, SweeperType, AdminStepType,
     ProducerStepType DEF Next
<1>2. TypeOK /\ UNCHANGED vars => TypeOK'
  BY DEF TypeOK, vars, tables, columns, actors
<1> QED  BY <1>1, <1>2

\* Every variable stays within its type, and an actor that is not idle knows its job.
THEOREM TypeCorrect == Spec => []TypeOK
  BY InitType, NextType, PTL DEF Spec

-----------------------------------------------------------------------------
(* A job is claimed once for its submission and once for each retry.       *)

\* Where a handler stands between its claim of a job and its last write to it.
Begun == {"claimed", "loaded", "reject", "loop", "catch"}

\* The only statements that touch a job's status, its attempts or its resets.
LEMMA StatusSteps ==
  ASSUME [Next]_vars
  PROVE  \/ UNCHANGED <<status, attempts, resets>>
         \/ \E h \in Handlers : UNCHANGED resets /\
              \/ handler[h].pc = "fetched" /\ ClaimJob(handler[h].job)
              \/ handler[h].pc \in Begun /\ \E s \in {"processing", "completed", "failed"} : \E e :
                   UpdateJobStatus(handler[h].job, s, e)
         \/ \E s \in Sweepers : SweepJobs(s)
         \/ \E a \in Admins : ResetJob(a)
         \/ \E p \in Producers : CreateJob(p)
<1> USE DEF tables, columns, actors, Begun
<1>1. CASE UNCHANGED vars
  BY <1>1 DEF vars
<1>2. CASE Queue
  BY <1>2 DEF Queue, Deliver, ExpireAbandoned, ExpireOverrun, Acknowledge, Reject
<1>3. ASSUME NEW h \in Handlers, HandlerStep(h)
      PROVE  \/ UNCHANGED <<status, attempts, resets>>
             \/ UNCHANGED resets /\
                \/ handler[h].pc = "fetched" /\ ClaimJob(handler[h].job)
                \/ handler[h].pc \in Begun /\ \E s \in {"processing", "completed", "failed"} : \E e :
                     UpdateJobStatus(handler[h].job, s, e)
  <2>1. CASE Claim(h)
    BY <2>1 DEF Claim
  <2>2. CASE LoadPending(h) \/ NoProvider(h)
    BY <2>2 DEF LoadPending, NoProvider
  <2>3. CASE RejectJob(h) \/ StartCompiling(h) \/ CatchFailsJob(h)
    BY <2>3 DEF RejectJob, StartCompiling, CatchFailsJob
  <2>4. CASE Finish(h)
    <3>1. FinalStatus(h) \in {"processing", "completed", "failed"}
      BY DEF FinalStatus
    <3> QED  BY <2>4, <3>1 DEF Finish, FinishAt
  <2>5. CASE \E e \in Events : SettleWithoutPage(h, e) \/ WritePage(h, e) \/ RecordCompiled(h, e)
    BY <2>5 DEF SettleWithoutPage, WritePage, RecordCompiled, Settle
  <2> QED  BY <1>3, <2>1, <2>2, <2>3, <2>4, <2>5 DEF HandlerStep
<1>4. ASSUME NEW h \in Handlers, HandlerFault(h)
      PROVE  \/ UNCHANGED <<status, attempts, resets>>
             \/ UNCHANGED resets /\
                \/ handler[h].pc = "fetched" /\ ClaimJob(handler[h].job)
                \/ handler[h].pc \in Begun /\ \E s \in {"processing", "completed", "failed"} : \E e :
                     UpdateJobStatus(handler[h].job, s, e)
  <2>1. CASE ClaimAnswerLost(h)
    BY <2>1 DEF ClaimAnswerLost
  <2>2. CASE FinishAnswerLost(h)
    <3>1. FinalStatus(h) \in {"processing", "completed", "failed"}
      BY DEF FinalStatus
    <3> QED  BY <2>2, <3>1 DEF FinishAnswerLost, FinishAt
  <2>3. CASE StatementThrows(h) \/ CatchWriteThrows(h) \/ WorkerCrash(h)
    BY <2>3 DEF StatementThrows, CatchWriteThrows, WorkerCrash
  <2>4. CASE \E e \in Events : RecordCompiledThrows(h, e)
    BY <2>4 DEF RecordCompiledThrows, Settle
  <2> QED  BY <1>4, <2>1, <2>2, <2>3, <2>4 DEF HandlerFault
<1>5. CASE Sweeper
  BY <1>5 DEF Sweeper, AgeAbandoned, AgeOverrun, SweepRows, SweeperCrash
<1>6. ASSUME NEW a \in Admins, Admin(a)
      PROVE  UNCHANGED <<status, attempts, resets>> \/ ResetJob(a)
  BY <1>6 DEF Admin, RetryRead, RetryReadEvents, ResetRows, RetrySend, AdminCrash
<1>7. ASSUME NEW p \in Producers, Producer(p)
      PROVE  UNCHANGED <<status, attempts, resets>> \/ CreateJob(p)
  BY <1>7 DEF Producer, Submit, CreateJobLosesRace, CreateRow, EnqueueSend, NextRequest,
              ProducerCrash
<1> QED  BY <1>1, <1>2, <1>3, <1>4, <1>5, <1>6, <1>7 DEF Next

\* The budget of one job: late writes may only lower what is spent, a claim moves
\* a run from owed to done, and a submission or a reset adds one to both sides.
LEMMA ClaimsStep == TypeOK /\ ClaimsWithinRetries /\ [Next]_vars => ClaimsWithinRetries'
<1> SUFFICES ASSUME TypeOK, ClaimsWithinRetries, [Next]_vars, NEW j \in Jobs
             PROVE  (RunsOf(j) <= resets[j] + IF status[j] = "absent" THEN 0 ELSE 1)'
  BY DEF ClaimsWithinRetries
<1>1. /\ attempts[j] \in Nat
      /\ resets[j] \in Nat
      /\ status \in [Jobs -> JobStatus]
      /\ attempts \in [Jobs -> Nat]
      /\ resets \in [Jobs -> Sends]
  BY BoundsAssumption DEF TypeOK, Sends
<1>2. attempts[j] + (IF status[j] = "queued" THEN 1 ELSE 0)
        <= resets[j] + IF status[j] = "absent" THEN 0 ELSE 1
  BY DEF ClaimsWithinRetries, RunsOf
<1> USE DEF RunsOf
<1>3. CASE UNCHANGED <<status, attempts, resets>>
  BY <1>2, <1>3
<1>4. ASSUME NEW h \in Handlers, UNCHANGED resets, ClaimJob(handler[h].job)
      PROVE  (RunsOf(j) <= resets[j] + IF status[j] = "absent" THEN 0 ELSE 1)'
  BY <1>1, <1>2, <1>4 DEF ClaimJob, Claimable
<1>5. ASSUME NEW h \in Handlers, UNCHANGED resets,
             NEW s \in {"processing", "completed", "failed"}, NEW e,
             UpdateJobStatus(handler[h].job, s, e)
      PROVE  (RunsOf(j) <= resets[j] + IF status[j] = "absent" THEN 0 ELSE 1)'
  BY <1>1, <1>2, <1>5 DEF UpdateJobStatus
<1>6. ASSUME NEW s \in Sweepers, SweepJobs(s)
      PROVE  (RunsOf(j) <= resets[j] + IF status[j] = "absent" THEN 0 ELSE 1)'
  BY <1>1, <1>2, <1>6 DEF SweepJobs, Stale
<1>7. ASSUME NEW a \in Admins, ResetJob(a)
      PROVE  (RunsOf(j) <= resets[j] + IF status[j] = "absent" THEN 0 ELSE 1)'
  <2> DEFINE k == admin[a].job
  <2>1. CASE Retryable(k)
    <3>1. /\ status[k] \in Terminal
          /\ status' = [status EXCEPT ![k] = "queued"]
          /\ resets' = [resets EXCEPT ![k] = @ + 1]
          /\ attempts' = attempts
      BY <1>7, <2>1 DEF ResetJob, Retryable
    <3> QED  BY <1>1, <1>2, <3>1 DEF Terminal
  <2>2. CASE ~Retryable(k)
    BY <1>2, <1>7, <2>2 DEF ResetJob
  <2> QED  BY <2>1, <2>2
<1>8. ASSUME NEW p \in Producers, CreateJob(p)
      PROVE  (RunsOf(j) <= resets[j] + IF status[j] = "absent" THEN 0 ELSE 1)'
  BY <1>1, <1>2, <1>8 DEF CreateJob
<1> QED  BY <1>3, <1>4, <1>5, <1>6, <1>7, <1>8, StatusSteps

\* However messages are redelivered and whatever late handlers write, no job is
\* claimed more often than once for its submission and once for each retry.
THEOREM ClaimsBounded == Spec => []ClaimsWithinRetries
<1>1. Init => ClaimsWithinRetries
  BY BoundsAssumption DEF Init, ClaimsWithinRetries, RunsOf
<1> QED  BY <1>1, ClaimsStep, TypeCorrect, PTL DEF Spec

-----------------------------------------------------------------------------
(* A claim writes at most one concept for each event.                      *)

\* A set of handlers that owe a concept is finite, and so is any it shrinks to.
LEMMA OwingFinite ==
  ASSUME NEW j, NEW e
  PROVE  /\ IsFiniteSet(Owing(j, e)) /\ Cardinality(Owing(j, e)) \in Nat
         /\ IsFiniteSet(Owing(j, e)') /\ Cardinality(Owing(j, e)') \in Nat
<1>1. Owing(j, e) \subseteq Handlers /\ Owing(j, e)' \subseteq Handlers
  BY DEF Owing
<1> QED  BY <1>1, ActorsAssumption, FS_Subset, FS_CardinalityType

\* A step that writes nothing and after which no handler owes more keeps the account.
LEMMA OwingShrinks ==
  ASSUME TypeOK, PagesAccounted, page' = page, attempts' = attempts,
         \A h \in Handlers : \A d, e \in handler'[h].written : d = e,
         \A h \in Handlers, j \in Jobs, e \in Events :
           Owes(handler'[h], j, e) => Owes(handler[h], j, e)
  PROVE  PagesAccounted'
<1> SUFFICES ASSUME NEW j \in Jobs, NEW e \in Events
             PROVE  (page[j][e] + Cardinality(Owing(j, e)) <= attempts[j])'
  BY DEF PagesAccounted
<1>1. Owing(j, e)' \subseteq Owing(j, e)
  BY DEF Owing, Owes
<1>2. Cardinality(Owing(j, e)') <= Cardinality(Owing(j, e))
  BY <1>1, OwingFinite, FS_Subset
<1>3. page[j][e] + Cardinality(Owing(j, e)) <= attempts[j] /\ page[j][e] \in Nat /\ attempts[j] \in Nat
  BY DEF PagesAccounted, TypeOK
<1>4. page[j][e] + Cardinality(Owing(j, e)') <= attempts[j]
  BY <1>2, <1>3, OwingFinite
<1> QED  BY <1>4

\* The same for a step that changes one handler.
LEMMA HandlerShrinks ==
  ASSUME TypeOK, PagesAccounted, page' = page, attempts' = attempts,
         NEW h \in Handlers, NEW r, handler' = [handler EXCEPT ![h] = r],
         r.written \subseteq handler[h].written,
         \A j \in Jobs, e \in Events : Owes(r, j, e) => Owes(handler[h], j, e)
  PROVE  PagesAccounted'
<1>1. \A g \in Handlers : handler'[g] = IF g = h THEN r ELSE handler[g]
  BY DEF TypeOK
<1>2. \A g \in Handlers : \A d, e \in handler'[g].written : d = e
  BY <1>1 DEF PagesAccounted
<1>3. \A g \in Handlers, j \in Jobs, e \in Events :
        Owes(handler'[g], j, e) => Owes(handler[g], j, e)
  BY <1>1
<1> QED  BY <1>2, <1>3, OwingShrinks

\* A handler that moves to a pc at which it is not compiling owes nothing.
LEMMA GotoShrinks ==
  ASSUME TypeOK, PagesAccounted, page' = page, attempts' = attempts,
         NEW h \in Handlers, NEW pc \in {"reject", "catch", "return", "throw"}, Goto(h, pc)
  PROVE  PagesAccounted'
<1> DEFINE r == [handler[h] EXCEPT !.pc = pc]
<1>1. handler' = [handler EXCEPT ![h] = r]
  BY DEF Goto
<1>2. r.pc = pc /\ r.written = handler[h].written
  BY DEF TypeOK, HandlerState
<1>3. \A j \in Jobs, e \in Events : ~Owes(r, j, e)
  BY <1>2 DEF Owes
<1> HIDE DEF r
<1> QED  BY <1>1, <1>2, <1>3, HandlerShrinks

\* Nor does one that has left.
LEMMA LeaveShrinks ==
  ASSUME TypeOK, PagesAccounted, page' = page, attempts' = attempts,
         NEW h \in Handlers, handler' = [handler EXCEPT ![h] = IdleHandler]
  PROVE  PagesAccounted'
<1>1. IdleHandler.written = {} /\ \A j \in Jobs, e \in Events : ~Owes(IdleHandler, j, e)
  BY DEF IdleHandler, Owes
<1> QED  BY <1>1, HandlerShrinks

\* Nor one that has been delivered a message and has yet to claim its job.
LEMMA DeliverShrinks ==
  ASSUME TypeOK, PagesAccounted, NEW h \in Handlers, NEW j \in Jobs, NEW n \in Sends,
         Deliver(h, j, n)
  PROVE  PagesAccounted'
<1> DEFINE r == [IdleHandler EXCEPT !.pc = "fetched", !.job = j, !.send = n]
<1>1. handler' = [handler EXCEPT ![h] = r] /\ page' = page /\ attempts' = attempts
  BY DEF Deliver, tables, columns
<1>2. r.pc = "fetched" /\ r.written = {}
  BY DEF IdleHandler
<1>3. \A k \in Jobs, e \in Events : ~Owes(r, k, e)
  BY <1>2 DEF Owes
<1> HIDE DEF r
<1> QED  BY <1>1, <1>2, <1>3, HandlerShrinks

\* Recording an outcome takes the event off the list and owes no other.
LEMMA SettleShrinks ==
  ASSUME TypeOK, PagesAccounted, NEW h \in Handlers, NEW e \in Events, NEW outcome,
         handler[h].pc = "loop", handler[h].written \subseteq {e}, Settle(h, e, outcome)
  PROVE  PagesAccounted'
<1> DEFINE r == [handler[h] EXCEPT !.todo = Rest(h, e), !.written = {},
                                   !.anyOk = @ \/ outcome # "failed"]
<1>1. handler' = [handler EXCEPT ![h] = r] /\ page' = page /\ attempts' = attempts
  BY DEF Settle, columns
<1>2. /\ r.written = {} /\ r.pc = "loop" /\ r.job = handler[h].job
      /\ r.todo = handler[h].todo \ {e}
  BY DEF TypeOK, HandlerState, Rest
<1>3. \A j \in Jobs, d \in Events : Owes(r, j, d) => Owes(handler[h], j, d)
  BY <1>2 DEF Owes
<1> HIDE DEF r
<1> QED  BY <1>1, <1>2, <1>3, HandlerShrinks

\* A claim brings one more concept into the account of each event, and one more
\* attempt with it.
LEMMA ClaimAccounted ==
  ASSUME TypeOK, PagesAccounted, page' = page, NEW h \in Handlers,
         NEW pc \in {"claimed", "throw"}, handler[h].pc = "fetched",
         ClaimJob(handler[h].job), Goto(h, pc)
  PROVE  PagesAccounted'
<1> DEFINE k == handler[h].job
<1>1. k \in Jobs
  BY DEF TypeOK
<1>2. \A g \in Handlers : /\ g # h => handler'[g] = handler[g]
                          /\ handler'[g].job = handler[g].job
                          /\ handler'[g].written = handler[g].written
  BY DEF TypeOK, HandlerState, Goto
<1>3. SUFFICES ASSUME NEW j \in Jobs, NEW e \in Events
               PROVE  (page[j][e] + Cardinality(Owing(j, e)) <= attempts[j])'
  BY <1>2 DEF PagesAccounted
<1>4. /\ page[j][e] + Cardinality(Owing(j, e)) <= attempts[j]
      /\ page[j][e] \in Nat /\ attempts[j] \in Nat
  BY DEF PagesAccounted, TypeOK
<1>5. CASE j = k
  <2>1. attempts'[j] = attempts[j] + 1
    BY <1>1, <1>5 DEF TypeOK, ClaimJob
  <2>2. Owing(j, e)' \subseteq Owing(j, e) \cup {h}
    BY <1>2 DEF Owing, Owes
  <2>3. /\ IsFiniteSet(Owing(j, e) \cup {h})
        /\ Cardinality(Owing(j, e) \cup {h}) <= Cardinality(Owing(j, e)) + 1
    <3>1. IsFiniteSet(Owing(j, e)) /\ Cardinality(Owing(j, e)) \in Nat
      BY OwingFinite
    <3> DEFINE S == Owing(j, e)
    <3> HIDE DEF S
    <3>2. IsFiniteSet(S) => /\ IsFiniteSet(S \cup {h})
                            /\ Cardinality(S \cup {h}) =
                                 IF h \in S THEN Cardinality(S) ELSE Cardinality(S) + 1
      BY FS_AddElement
    <3> QED  BY <3>1, <3>2 DEF S
  <2>4. Cardinality(Owing(j, e)') <= Cardinality(Owing(j, e) \cup {h})
    BY <2>2, <2>3, FS_Subset
  <2>5. Cardinality(Owing(j, e) \cup {h}) \in Nat
    BY <2>3, FS_CardinalityType
  <2>6. page[j][e] + Cardinality(Owing(j, e)') <= attempts[j] + 1
    BY <1>4, <2>3, <2>4, <2>5, OwingFinite
  <2> QED  BY <2>1, <2>6
<1>6. CASE j # k
  <2>1. attempts'[j] = attempts[j]
    BY <1>1, <1>6 DEF TypeOK, ClaimJob
  <2>2. Owing(j, e)' \subseteq Owing(j, e)
    BY <1>2, <1>6 DEF Owing, Owes
  <2>3. Cardinality(Owing(j, e)') <= Cardinality(Owing(j, e))
    BY <2>2, OwingFinite, FS_Subset
  <2>4. page[j][e] + Cardinality(Owing(j, e)') <= attempts[j]
    BY <1>4, <2>3, OwingFinite
  <2> QED  BY <2>1, <2>4
<1> QED  BY <1>5, <1>6

\* Writing a concept moves it from owed to written.
LEMMA WriteAccounted ==
  ASSUME TypeOK, PagesAccounted, NEW h \in Handlers, NEW d \in Events, WritePage(h, d)
  PROVE  PagesAccounted'
<1> DEFINE k == handler[h].job
<1>1. /\ k \in Jobs
      /\ handler[h].pc = "loop" /\ handler[h].written = {} /\ d \in handler[h].todo
      /\ page' = [page EXCEPT ![k][d] = @ + 1]
      /\ attempts' = attempts
  BY DEF TypeOK, WritePage, columns
<1>2. /\ \A g \in Handlers : /\ g # h => handler'[g] = handler[g]
                             /\ handler'[g].job = handler[g].job
                             /\ handler'[g].pc = handler[g].pc
                             /\ handler'[g].todo = handler[g].todo
      /\ handler'[h].written = {d}
  BY DEF TypeOK, HandlerState, WritePage
<1>3. SUFFICES ASSUME NEW j \in Jobs, NEW e \in Events
               PROVE  (page[j][e] + Cardinality(Owing(j, e)) <= attempts[j])'
  BY <1>2 DEF PagesAccounted
<1>4. /\ page[j][e] + Cardinality(Owing(j, e)) <= attempts[j]
      /\ page[j][e] \in Nat /\ attempts[j] \in Nat
  BY DEF PagesAccounted, TypeOK
<1>5. CASE j = k /\ e = d
  <2>1. page'[j][e] = page[j][e] + 1
    BY <1>1, <1>5 DEF TypeOK
  <2>2. Owing(j, e)' \subseteq Owing(j, e) \ {h} /\ h \in Owing(j, e)
    BY <1>1, <1>2, <1>5 DEF Owing, Owes
  <2>3. /\ IsFiniteSet(Owing(j, e) \ {h})
        /\ Cardinality(Owing(j, e) \ {h}) = Cardinality(Owing(j, e)) - 1
    BY <2>2, OwingFinite, FS_RemoveElement
  <2>4. Cardinality(Owing(j, e)') <= Cardinality(Owing(j, e) \ {h})
    BY <2>2, <2>3, FS_Subset
  <2>5. page[j][e] + 1 + Cardinality(Owing(j, e)') <= attempts[j]
    BY <1>4, <2>3, <2>4, OwingFinite
  <2> QED  BY <1>1, <2>1, <2>5
<1>6. CASE ~(j = k /\ e = d)
  <2>1. page'[j][e] = page[j][e]
    BY <1>1, <1>6 DEF TypeOK
  <2>2. Owing(j, e)' \subseteq Owing(j, e)
    BY <1>1, <1>2, <1>6 DEF Owing, Owes
  <2>3. Cardinality(Owing(j, e)') <= Cardinality(Owing(j, e))
    BY <2>2, OwingFinite, FS_Subset
  <2>4. page[j][e] + Cardinality(Owing(j, e)') <= attempts[j]
    BY <1>4, <2>3, OwingFinite
  <2> QED  BY <1>1, <2>1, <2>4
<1> QED  BY <1>5, <1>6

\* What a handler does of its own accord keeps the account.
LEMMA HandlerStepAccounted ==
  ASSUME TypeOK, PagesAccounted, NEW h \in Handlers, HandlerStep(h)
  PROVE  PagesAccounted'
<1> USE DEF columns
<1>1. CASE Claim(h)
  <2>1. CASE ClaimJob(handler[h].job) /\ Goto(h, "claimed")
    BY <1>1, <2>1, ClaimAccounted DEF Claim
  <2>2. CASE Goto(h, "return") /\ UNCHANGED columns
    BY <1>1, <2>2, GotoShrinks DEF Claim
  <2> QED  BY <1>1, <2>1, <2>2 DEF Claim
<1>2. CASE LoadPending(h)
  <2> DEFINE pending == PendingEvents(handler[h].job)
             r == IF pending = {}
                  THEN [handler[h] EXCEPT !.pc = "reject", !.reason = "no_events_found"]
                  ELSE [handler[h] EXCEPT !.pc = "loaded", !.todo = pending]
  <2>1. /\ handler[h].pc = "claimed"
        /\ handler' = [handler EXCEPT ![h] = r]
        /\ page' = page /\ attempts' = attempts
    BY <1>2 DEF LoadPending, tables
  <2>2. r.job = handler[h].job /\ r.written = handler[h].written
    BY DEF TypeOK, HandlerState
  <2>3. \A j \in Jobs, e \in Events : Owes(r, j, e) => Owes(handler[h], j, e)
    BY <2>1, <2>2 DEF Owes
  <2> HIDE DEF r
  <2> QED  BY <2>1, <2>2, <2>3, HandlerShrinks
<1>3. CASE NoProvider(h)
  <2> DEFINE r == [handler[h] EXCEPT !.pc = "reject", !.reason = "no_llm_provider"]
  <2>1. handler' = [handler EXCEPT ![h] = r] /\ page' = page /\ attempts' = attempts
    BY <1>3 DEF NoProvider, tables
  <2>2. r.pc = "reject" /\ r.written = handler[h].written
    BY DEF TypeOK, HandlerState
  <2>3. \A j \in Jobs, e \in Events : ~Owes(r, j, e)
    BY <2>2 DEF Owes
  <2> HIDE DEF r
  <2> QED  BY <2>1, <2>2, <2>3, HandlerShrinks
<1>4. CASE StartCompiling(h)
  <2> DEFINE r == [handler[h] EXCEPT !.pc = "loop"]
  <2>1. handler' = [handler EXCEPT ![h] = r] /\ page' = page /\ attempts' = attempts
    BY <1>4 DEF StartCompiling, Goto, UpdateJobStatus
  <2>2. /\ handler[h].pc = "loaded"
        /\ r.job = handler[h].job /\ r.written = handler[h].written /\ r.todo = handler[h].todo
        /\ r.pc = "loop"
    BY <1>4 DEF StartCompiling, TypeOK, HandlerState
  <2>3. \A j \in Jobs, e \in Events : Owes(r, j, e) => Owes(handler[h], j, e)
    BY <2>2 DEF Owes
  <2> HIDE DEF r
  <2> QED  BY <2>1, <2>2, <2>3, HandlerShrinks
<1>5. CASE RejectJob(h) \/ Finish(h) \/ CatchFailsJob(h)
  BY <1>5, GotoShrinks DEF RejectJob, Finish, FinishAt, CatchFailsJob, UpdateJobStatus
<1>6. ASSUME NEW e \in Events, SettleWithoutPage(h, e)
      PROVE  PagesAccounted'
  BY <1>6, SettleShrinks DEF SettleWithoutPage
<1>7. ASSUME NEW e \in Events, RecordCompiled(h, e)
      PROVE  PagesAccounted'
  <2>1. handler[h].written \subseteq {e}
    BY <1>7 DEF RecordCompiled, PagesAccounted
  <2> QED  BY <1>7, <2>1, SettleShrinks DEF RecordCompiled
<1> QED  BY <1>1, <1>2, <1>3, <1>4, <1>5, <1>6, <1>7, WriteAccounted DEF HandlerStep

\* So does what may happen to it: an attempt it loses leaves the concept unwritten.
LEMMA HandlerFaultAccounted ==
  ASSUME TypeOK, PagesAccounted, NEW h \in Handlers, HandlerFault(h)
  PROVE  PagesAccounted'
<1> USE DEF columns, tables
<1>1. CASE ClaimAnswerLost(h)
  BY <1>1, ClaimAccounted DEF ClaimAnswerLost
<1>2. CASE FinishAnswerLost(h)
  BY <1>2, GotoShrinks DEF FinishAnswerLost, FinishAt, UpdateJobStatus
<1>3. CASE StatementThrows(h)
  BY <1>3, GotoShrinks DEF StatementThrows
<1>4. CASE CatchWriteThrows(h)
  BY <1>4, GotoShrinks DEF CatchWriteThrows
<1>5. CASE WorkerCrash(h)
  BY <1>5, LeaveShrinks DEF WorkerCrash
<1>6. ASSUME NEW e \in Events, RecordCompiledThrows(h, e)
      PROVE  PagesAccounted'
  <2>1. handler[h].written \subseteq {e}
    BY <1>6 DEF RecordCompiledThrows, PagesAccounted
  <2> QED  BY <1>6, <2>1, SettleShrinks DEF RecordCompiledThrows
<1> QED  BY <1>1, <1>2, <1>3, <1>4, <1>5, <1>6 DEF HandlerFault

\* The account is kept by every step.
LEMMA PagesStep == TypeOK /\ PagesAccounted /\ [Next]_vars => PagesAccounted'
<1> SUFFICES ASSUME TypeOK, PagesAccounted, [Next]_vars PROVE PagesAccounted'
  OBVIOUS
<1> USE DEF tables, columns, actors
<1>1. CASE UNCHANGED <<page, attempts, handler>>
  BY <1>1 DEF PagesAccounted, Owing
<1>2. CASE Queue
  <2>1. ASSUME NEW h \in Handlers, ExpireOverrun(h)
        PROVE  PagesAccounted'
    <3> DEFINE r == [handler[h] EXCEPT !.late = TRUE]
    <3>1. handler' = [handler EXCEPT ![h] = r] /\ page' = page /\ attempts' = attempts
      BY <2>1 DEF ExpireOverrun
    <3>2. /\ r.pc = handler[h].pc /\ r.job = handler[h].job
          /\ r.written = handler[h].written /\ r.todo = handler[h].todo
      BY DEF TypeOK, HandlerState
    <3>3. \A j \in Jobs, e \in Events : Owes(r, j, e) => Owes(handler[h], j, e)
      BY <3>2 DEF Owes
    <3> HIDE DEF r
    <3> QED  BY <3>1, <3>2, <3>3, HandlerShrinks
  <2>2. ASSUME NEW h \in Handlers, Acknowledge(h) \/ Reject(h)
        PROVE  PagesAccounted'
    BY <2>2, LeaveShrinks DEF Acknowledge, Reject
  <2>3. ASSUME NEW j \in Jobs, NEW n \in Sends, ExpireAbandoned(j, n)
        PROVE  PagesAccounted'
    BY <1>1, <2>3 DEF ExpireAbandoned
  <2> QED  BY <1>2, <2>1, <2>2, <2>3, DeliverShrinks DEF Queue
<1>3. CASE Sweeper
  BY <1>1, <1>3 DEF Sweeper, AgeAbandoned, AgeOverrun, SweepJobs, SweepRows, SweeperCrash
<1>4. ASSUME NEW a \in Admins, Admin(a)
      PROVE  PagesAccounted'
  BY <1>1, <1>4 DEF Admin, RetryRead, RetryReadEvents, ResetJob, ResetRows, RetrySend, AdminCrash
<1>5. ASSUME NEW p \in Producers, Producer(p)
      PROVE  PagesAccounted'
  BY <1>1, <1>5 DEF Producer, Submit, CreateJob, CreateJobLosesRace, CreateRow, EnqueueSend,
                    NextRequest, ProducerCrash
<1>6. CASE UNCHANGED vars
  BY <1>1, <1>6 DEF vars
<1> QED  BY <1>2, <1>3, <1>4, <1>5, <1>6, HandlerStepAccounted, HandlerFaultAccounted DEF Next

\* Initially nothing is written and nothing is owed.
LEMMA InitAccounted == Init => PagesAccounted
<1> SUFFICES ASSUME Init PROVE PagesAccounted
  OBVIOUS
<1>1. \A h \in Handlers : handler[h].written = {} /\ handler[h].pc = "idle"
  BY DEF Init, IdleHandler
<1>2. \A j \in Jobs, e \in Events : Owing(j, e) = {}
  BY <1>1 DEF Owing, Owes
<1>3. \A j \in Jobs, e \in Events : page[j][e] = 0 /\ attempts[j] = 0
  BY DEF Init
<1> QED  BY <1>1, <1>2, <1>3, FS_EmptySet DEF PagesAccounted

\* Every concept written for an event is paid for by a claim of the job, and what
\* a claim may still write is owed by the one handler that made it.
THEOREM PagesAccountedFor == Spec => []PagesAccounted
  BY InitAccounted, PagesStep, TypeCorrect, PTL DEF Spec

\* However workers crash, overrun or fail, a claim of a job writes at most one
\* concept for each of its events.
THEOREM PagesBounded == Spec => []PagesWithinAttempts
<1>1. TypeOK /\ PagesAccounted => PagesWithinAttempts
  <2> SUFFICES ASSUME TypeOK, PagesAccounted, NEW j \in Jobs, NEW e \in Events
               PROVE  page[j][e] <= attempts[j]
    BY DEF PagesWithinAttempts
  <2>1. page[j][e] + Cardinality(Owing(j, e)) <= attempts[j]
    BY DEF PagesAccounted
  <2> QED  BY <2>1, OwingFinite DEF TypeOK
<1> QED  BY <1>1, TypeCorrect, PagesAccountedFor, PTL

-----------------------------------------------------------------------------
(* The refinement of JobLedger.                                            *)

\* What a step does to the attempts: nothing, or one claim by a handler that had
\* been delivered a message.
LEMMA AttemptsSteps ==
  ASSUME [Next]_vars
  PROVE  \/ attempts' = attempts
         \/ \E h \in Handlers : handler[h].pc = "fetched" /\ ClaimJob(handler[h].job)
<1> USE DEF tables, columns, actors
<1>1. CASE UNCHANGED vars
  BY <1>1 DEF vars
<1>2. CASE Queue
  BY <1>2 DEF Queue, Deliver, ExpireAbandoned, ExpireOverrun, Acknowledge, Reject
<1>3. ASSUME NEW h \in Handlers, HandlerStep(h)
      PROVE  attempts' = attempts \/ (handler[h].pc = "fetched" /\ ClaimJob(handler[h].job))
  <2>1. CASE Claim(h)
    BY <2>1 DEF Claim
  <2>2. CASE LoadPending(h) \/ NoProvider(h)
    BY <2>2 DEF LoadPending, NoProvider
  <2>3. CASE RejectJob(h) \/ StartCompiling(h) \/ CatchFailsJob(h) \/ Finish(h)
    BY <2>3 DEF RejectJob, StartCompiling, CatchFailsJob, Finish, FinishAt, UpdateJobStatus
  <2>4. CASE \E e \in Events : SettleWithoutPage(h, e) \/ WritePage(h, e) \/ RecordCompiled(h, e)
    BY <2>4 DEF SettleWithoutPage, WritePage, RecordCompiled, Settle
  <2> QED  BY <1>3, <2>1, <2>2, <2>3, <2>4 DEF HandlerStep
<1>4. ASSUME NEW h \in Handlers, HandlerFault(h)
      PROVE  attempts' = attempts \/ (handler[h].pc = "fetched" /\ ClaimJob(handler[h].job))
  <2>1. CASE ClaimAnswerLost(h)
    BY <2>1 DEF ClaimAnswerLost
  <2>2. CASE FinishAnswerLost(h) \/ StatementThrows(h) \/ CatchWriteThrows(h) \/ WorkerCrash(h)
    BY <2>2 DEF FinishAnswerLost, FinishAt, UpdateJobStatus, StatementThrows, CatchWriteThrows,
                WorkerCrash
  <2>3. CASE \E e \in Events : RecordCompiledThrows(h, e)
    BY <2>3 DEF RecordCompiledThrows, Settle
  <2> QED  BY <1>4, <2>1, <2>2, <2>3 DEF HandlerFault
<1>5. CASE Sweeper
  BY <1>5 DEF Sweeper, AgeAbandoned, AgeOverrun, SweepJobs, SweepRows, SweeperCrash
<1>6. ASSUME NEW a \in Admins, Admin(a)
      PROVE  attempts' = attempts
  BY <1>6 DEF Admin, RetryRead, RetryReadEvents, ResetJob, ResetRows, RetrySend, AdminCrash
<1>7. ASSUME NEW p \in Producers, Producer(p)
      PROVE  attempts' = attempts
  BY <1>7 DEF Producer, Submit, CreateJob, CreateJobLosesRace, CreateRow, EnqueueSend,
              NextRequest, ProducerCrash
<1> QED  BY <1>1, <1>2, <1>3, <1>4, <1>5, <1>6, <1>7 DEF Next

\* Attempts never go down, and a claim adds one.
LEMMA AttemptsGrow ==
  ASSUME TypeOK, [Next]_vars, NEW j \in Jobs
  PROVE  /\ attempts[j] \in Nat /\ attempts'[j] \in Nat
         /\ attempts'[j] >= attempts[j]
<1>1. attempts \in [Jobs -> Nat]
  BY DEF TypeOK
<1>2. CASE attempts' = attempts
  BY <1>1, <1>2
<1>3. ASSUME NEW h \in Handlers, ClaimJob(handler[h].job)
      PROVE  attempts'[j] \in Nat /\ attempts'[j] >= attempts[j]
  BY <1>1, <1>3 DEF ClaimJob
<1> QED  BY <1>1, <1>2, <1>3, AttemptsSteps

\* A handler comes to work on a job by claiming it.
LEMMA BegunSteps ==
  ASSUME TypeOK, [Next]_vars, NEW g \in Handlers, handler'[g].pc \in Begun
  PROVE  \/ handler[g].pc \in Begun /\ handler'[g].job = handler[g].job
         \/ handler[g].pc = "fetched" /\ handler'[g].job = handler[g].job
            /\ ClaimJob(handler[g].job)
<1> DEFINE Goal == \/ handler[g].pc \in Begun /\ handler'[g].job = handler[g].job
                   \/ handler[g].pc = "fetched" /\ handler'[g].job = handler[g].job
                      /\ ClaimJob(handler[g].job)
<1> USE DEF Begun
<1>1. CASE handler' = handler
  BY <1>1
<1>2. handler \in [Handlers -> HandlerState]
  BY DEF TypeOK
<1>3. ASSUME NEW h \in Handlers, handler' = [handler EXCEPT ![h] = IdleHandler]
      PROVE  Goal
  BY <1>2, <1>3 DEF IdleHandler
<1>4. ASSUME NEW h \in Handlers, NEW pc \in HandlerPC \ Begun, Goto(h, pc)
      PROVE  Goal
  BY <1>2, <1>4 DEF Goto, HandlerState
<1>5. ASSUME NEW h \in Handlers, NEW pc, Goto(h, pc), handler[h].pc \in Begun
      PROVE  Goal
  BY <1>2, <1>5 DEF Goto, HandlerState
<1>6. CASE Queue
  <2>1. ASSUME NEW h \in Handlers, NEW j \in Jobs, NEW n \in Sends, Deliver(h, j, n)
        PROVE  Goal
    BY <1>2, <2>1 DEF Deliver, IdleHandler
  <2>2. ASSUME NEW h \in Handlers, ExpireOverrun(h)
        PROVE  Goal
    BY <1>2, <2>2 DEF ExpireOverrun, HandlerState
  <2>3. ASSUME NEW j \in Jobs, NEW n \in Sends, ExpireAbandoned(j, n)
        PROVE  Goal
    BY <1>1, <2>3 DEF ExpireAbandoned, actors
  <2> QED  BY <1>3, <1>6, <2>1, <2>2, <2>3 DEF Queue, Acknowledge, Reject
<1>7. ASSUME NEW h \in Handlers, HandlerStep(h)
      PROVE  Goal
  <2>1. CASE Claim(h)
    <3>1. CASE ClaimJob(handler[h].job) /\ Goto(h, "claimed")
      <4>1. handler[h].pc = "fetched"
        BY <2>1 DEF Claim
      <4> QED  BY <1>2, <3>1, <4>1 DEF Goto, HandlerState
    <3>2. CASE Goto(h, "return")
      BY <1>4, <3>2 DEF HandlerPC
    <3> QED  BY <2>1, <3>1, <3>2 DEF Claim
  <2>2. CASE LoadPending(h)
    <3>1. handler[h].pc \in Begun /\ \A k \in Handlers : handler'[k].job = handler[k].job
      BY <1>2, <2>2 DEF LoadPending, HandlerState
    <3>2. \A k \in Handlers : k # h => handler'[k] = handler[k]
      BY <1>2, <2>2 DEF LoadPending
    <3> QED  BY <3>1, <3>2
  <2>3. CASE NoProvider(h)
    BY <1>2, <2>3 DEF NoProvider, HandlerState
  <2>4. CASE RejectJob(h) \/ StartCompiling(h) \/ Finish(h) \/ CatchFailsJob(h)
    BY <1>5, <2>4 DEF RejectJob, StartCompiling, Finish, FinishAt, CatchFailsJob
  <2>5. ASSUME NEW e \in Events,
               SettleWithoutPage(h, e) \/ WritePage(h, e) \/ RecordCompiled(h, e)
        PROVE  Goal
    BY <1>2, <2>5 DEF SettleWithoutPage, WritePage, RecordCompiled, Settle, HandlerState
  <2> QED  BY <1>7, <2>1, <2>2, <2>3, <2>4, <2>5 DEF HandlerStep
<1>8. ASSUME NEW h \in Handlers, HandlerFault(h)
      PROVE  Goal
  <2>1. CASE ClaimAnswerLost(h)
    BY <1>4, <2>1 DEF ClaimAnswerLost, HandlerPC
  <2>2. CASE FinishAnswerLost(h) \/ StatementThrows(h) \/ CatchWriteThrows(h)
    BY <1>4, <1>5, <2>2 DEF FinishAnswerLost, FinishAt, StatementThrows, CatchWriteThrows, HandlerPC
  <2>3. CASE WorkerCrash(h)
    BY <1>3, <2>3 DEF WorkerCrash
  <2>4. ASSUME NEW e \in Events, RecordCompiledThrows(h, e)
        PROVE  Goal
    BY <1>2, <2>4 DEF RecordCompiledThrows, Settle, HandlerState
  <2> QED  BY <1>8, <2>1, <2>2, <2>3, <2>4 DEF HandlerFault
<1>9. CASE Sweeper
  BY <1>1, <1>9 DEF Sweeper, AgeAbandoned, AgeOverrun, SweepJobs, SweepRows, SweeperCrash, actors
<1>10. ASSUME NEW a \in Admins, Admin(a)
       PROVE  Goal
  BY <1>1, <1>10 DEF Admin, RetryRead, RetryReadEvents, ResetJob, ResetRows, RetrySend, AdminCrash
<1>11. ASSUME NEW p \in Producers, Producer(p)
       PROVE  Goal
  BY <1>1, <1>11 DEF Producer, Submit, CreateJob, CreateJobLosesRace, CreateRow, EnqueueSend,
                     NextRequest, ProducerCrash
<1>12. CASE UNCHANGED vars
  BY <1>1, <1>12 DEF vars, actors
<1> QED  BY <1>6, <1>7, <1>8, <1>9, <1>10, <1>11, <1>12 DEF Next

\* A job's status leaves `absent` and `queued` for good reason: a claim, or a write
\* by a handler that has claimed the job before.
LEMMA BegunStep == TypeOK /\ BegunIsClaimed /\ [Next]_vars => BegunIsClaimed'
<1> SUFFICES ASSUME TypeOK, BegunIsClaimed, [Next]_vars
             PROVE  BegunIsClaimed'
  OBVIOUS
<1>1. /\ status \in [Jobs -> JobStatus] /\ attempts \in [Jobs -> Nat]
      /\ \A h \in Handlers : handler[h].pc # "idle" => handler[h].job \in Jobs
  BY DEF TypeOK
<1>2. \A j \in Jobs : attempts[j] > 0 => attempts'[j] > 0
  BY AttemptsGrow
<1>3. ASSUME NEW j \in Jobs, ClaimJob(j)
      PROVE  attempts'[j] > 0
  BY <1>1, <1>3 DEF ClaimJob
<1>4. ASSUME NEW h \in Handlers, handler'[h].pc \in Begun
      PROVE  attempts'[handler'[h].job] > 0
  <2>1. CASE handler[h].pc \in Begun /\ handler'[h].job = handler[h].job
    BY <1>1, <1>2, <2>1 DEF BegunIsClaimed, Begun
  <2>2. CASE handler[h].pc = "fetched" /\ handler'[h].job = handler[h].job
             /\ ClaimJob(handler[h].job)
    BY <1>1, <1>3, <2>2
  <2> QED  BY <1>4, <2>1, <2>2, BegunSteps
<1>5. ASSUME NEW j \in Jobs, status'[j] \notin {"absent", "queued"}
      PROVE  attempts'[j] > 0
  <2>1. CASE status'[j] = status[j]
    BY <1>2, <1>5, <2>1 DEF BegunIsClaimed
  <2>2. ASSUME NEW h \in Handlers, handler[h].pc = "fetched", ClaimJob(handler[h].job)
        PROVE  attempts'[j] > 0
    <3>1. CASE handler[h].job = j
      BY <1>3, <2>2, <3>1
    <3>2. CASE handler[h].job # j
      BY <1>1, <2>1, <2>2, <3>2 DEF ClaimJob
    <3> QED  BY <3>1, <3>2
  <2>3. ASSUME NEW h \in Handlers, handler[h].pc \in Begun, NEW s, NEW e,
               UpdateJobStatus(handler[h].job, s, e)
        PROVE  attempts'[j] > 0
    <3>1. CASE handler[h].job = j
      BY <1>2, <2>3, <3>1 DEF BegunIsClaimed, Begun
    <3>2. CASE handler[h].job # j
      BY <1>1, <2>1, <2>3, <3>2 DEF UpdateJobStatus
    <3> QED  BY <3>1, <3>2
  <2>4. ASSUME NEW s \in Sweepers, SweepJobs(s)
        PROVE  attempts'[j] > 0
    BY <1>2, <2>1, <2>4 DEF SweepJobs, Stale, BegunIsClaimed
  <2>5. ASSUME NEW a \in Admins, ResetJob(a)
        PROVE  attempts'[j] > 0
    BY <1>1, <1>5, <2>1, <2>5 DEF ResetJob
  <2>6. ASSUME NEW p \in Producers, CreateJob(p)
        PROVE  attempts'[j] > 0
    BY <1>1, <1>5, <2>1, <2>6 DEF CreateJob
  <2> QED  BY <2>1, <2>2, <2>3, <2>4, <2>5, <2>6, StatusSteps
<1> QED  BY <1>4, <1>5 DEF BegunIsClaimed, Begun

\* No job runs, fails or completes that was never claimed: whatever late writes
\* reach it, it has gone through the claim first.
THEOREM ClaimedBeforeBegun == Spec => []BegunIsClaimed
<1>1. Init => BegunIsClaimed
  BY DEF Init, BegunIsClaimed, IdleHandler
<1> QED  BY <1>1, BegunStep, TypeCorrect, PTL DEF Spec

\* A job that does not exist has not been reset.
AbsentIsFresh == \A j \in Jobs : status[j] = "absent" => resets[j] = 0

\* A row, once inserted, is never deleted, and only an existing one is reset.
LEMMA FreshStep == TypeOK /\ AbsentIsFresh /\ [Next]_vars => AbsentIsFresh'
<1> SUFFICES ASSUME TypeOK, AbsentIsFresh, [Next]_vars, NEW j \in Jobs, status'[j] = "absent"
             PROVE  resets'[j] = 0
  BY DEF AbsentIsFresh
<1>1. status \in [Jobs -> JobStatus] /\ resets \in [Jobs -> Sends]
  BY DEF TypeOK
<1>2. status[j] = "absent" => resets[j] = 0
  BY DEF AbsentIsFresh
<1>3. ASSUME NEW h \in Handlers, UNCHANGED resets, ClaimJob(handler[h].job)
      PROVE  resets'[j] = 0
  BY <1>1, <1>2, <1>3 DEF ClaimJob
<1>4. ASSUME NEW h \in Handlers, UNCHANGED resets,
             NEW s \in {"processing", "completed", "failed"}, NEW e,
             UpdateJobStatus(handler[h].job, s, e)
      PROVE  resets'[j] = 0
  BY <1>1, <1>2, <1>4 DEF UpdateJobStatus
<1>5. ASSUME NEW s \in Sweepers, SweepJobs(s)
      PROVE  resets'[j] = 0
  BY <1>1, <1>2, <1>5 DEF SweepJobs
<1>6. ASSUME NEW a \in Admins, ResetJob(a)
      PROVE  resets'[j] = 0
  <2> DEFINE k == admin[a].job
  <2>1. CASE Retryable(k)
    <3>1. /\ status' = [status EXCEPT ![k] = "queued"]
          /\ resets' = [resets EXCEPT ![k] = @ + 1]
      BY <1>6, <2>1 DEF ResetJob
    <3> QED  BY <1>1, <1>2, <3>1
  <2>2. CASE ~Retryable(k)
    BY <1>2, <1>6, <2>2 DEF ResetJob
  <2> QED  BY <2>1, <2>2
<1>7. ASSUME NEW p \in Producers, CreateJob(p)
      PROVE  resets'[j] = 0
  BY <1>1, <1>2, <1>7 DEF CreateJob
<1> QED  BY <1>2, <1>3, <1>4, <1>5, <1>6, <1>7, StatusSteps

\* The only statement that writes a concept.
LEMMA PageSteps ==
  ASSUME [Next]_vars
  PROVE  page' = page \/ \E h \in Handlers, e \in Events : WritePage(h, e)
<1> USE DEF tables, columns
<1>1. CASE UNCHANGED vars
  BY <1>1 DEF vars
<1>2. CASE Queue
  BY <1>2 DEF Queue, Deliver, ExpireAbandoned, ExpireOverrun, Acknowledge, Reject
<1>3. ASSUME NEW h \in Handlers, HandlerStep(h)
      PROVE  page' = page \/ \E e \in Events : WritePage(h, e)
  BY <1>3 DEF HandlerStep, Claim, LoadPending, NoProvider, RejectJob, StartCompiling,
              SettleWithoutPage, RecordCompiled, Settle, Finish, FinishAt, CatchFailsJob
<1>4. ASSUME NEW h \in Handlers, HandlerFault(h)
      PROVE  page' = page
  BY <1>4 DEF HandlerFault, ClaimAnswerLost, FinishAnswerLost, FinishAt, StatementThrows,
              RecordCompiledThrows, Settle, CatchWriteThrows, WorkerCrash
<1>5. CASE Sweeper
  BY <1>5 DEF Sweeper, AgeAbandoned, AgeOverrun, SweepJobs, SweepRows, SweeperCrash
<1>6. ASSUME NEW a \in Admins, Admin(a)
      PROVE  page' = page
  BY <1>6 DEF Admin, RetryRead, RetryReadEvents, ResetJob, ResetRows, RetrySend, AdminCrash
<1>7. ASSUME NEW p \in Producers, Producer(p)
      PROVE  page' = page
  BY <1>7 DEF Producer, Submit, CreateJob, CreateJobLosesRace, CreateRow, EnqueueSend,
              NextRequest, ProducerCrash
<1> QED  BY <1>1, <1>2, <1>3, <1>4, <1>5, <1>6, <1>7 DEF Next

\* What a job is granted: its resets and, once its row exists, its submission.
GrantOf(r, s) == r + IF s = "absent" THEN 0 ELSE 1

\* A step that neither creates nor resets a job grants nothing.
LEMMA GrantedStays ==
  ASSUME UNCHANGED resets, \A j \in Jobs : status'[j] = "absent" <=> status[j] = "absent"
  PROVE  Granted' = Granted
<1>1. \A j \in Jobs : (resets[j] + IF status[j] = "absent" THEN 0 ELSE 1)'
                        = resets[j] + IF status[j] = "absent" THEN 0 ELSE 1
  OBVIOUS
<1> QED  BY <1>1 DEF Granted

\* One that creates or resets job k and leaves the others alone grants k one run.
LEMMA GrantedGrows ==
  ASSUME TypeOK, NEW k \in Jobs,
         GrantOf(resets'[k], status'[k]) = GrantOf(resets[k], status[k]) + 1,
         \A j \in Jobs \ {k} : resets'[j] = resets[j] /\ status'[j] = status[j]
  PROVE  Granted' = [Granted EXCEPT ![k] = @ + 1]
<1>1. Granted = [j \in Jobs |-> GrantOf(resets[j], status[j])]
  BY DEF Granted, GrantOf
<1>2. Granted' = [j \in Jobs |-> GrantOf(resets'[j], status'[j])]
  BY DEF Granted, GrantOf
<1>3. \A j \in Jobs \ {k} : GrantOf(resets'[j], status'[j]) = GrantOf(resets[j], status[j])
  OBVIOUS
<1> HIDE DEF GrantOf
<1> QED  BY <1>1, <1>2, <1>3

LedgerInv == /\ TypeOK
             /\ ClaimsWithinRetries
             /\ PagesAccounted
             /\ BegunIsClaimed
             /\ AbsentIsFresh

\* Every statement is a step of the ledger, or changes nothing in it.
LEMMA LedgerStep == LedgerInv /\ [Next]_vars => [Ledger!Next]_(Ledger!vars)
<1> SUFFICES ASSUME LedgerInv, [Next]_vars
             PROVE  [Ledger!Next]_(Ledger!vars)
  OBVIOUS
<1> USE DEF LedgerInv
<1>1. /\ status \in [Jobs -> JobStatus]
      /\ resets \in [Jobs -> Sends]
      /\ attempts \in [Jobs -> Nat]
      /\ page \in [Jobs -> [Events -> Nat]]
      /\ \A h \in Handlers : handler[h].pc # "idle" => handler[h].job \in Jobs
  BY DEF TypeOK
<1>2. \A j \in Jobs : resets[j] \in Nat
  BY <1>1, BoundsAssumption DEF Sends
<1>3. \A j \in Jobs : attempts[j] > 0 => status[j] # "absent"
  <2> SUFFICES ASSUME NEW j \in Jobs, attempts[j] > 0, status[j] = "absent"
               PROVE  FALSE
    OBVIOUS
  <2>1. attempts[j] <= 0
    BY <1>1 DEF ClaimsWithinRetries, RunsOf, AbsentIsFresh
  <2> QED  BY <1>1, <2>1
<1>4. CASE UNCHANGED <<Granted, attempts, page>>
  BY <1>4 DEF Ledger!vars
<1>5. ASSUME NEW h \in Handlers, NEW e \in Events, WritePage(h, e)
      PROVE  Ledger!Next
  <2> DEFINE j == handler[h].job
  <2>1. /\ j \in Jobs
        /\ handler[h].pc = "loop" /\ handler[h].written = {} /\ e \in handler[h].todo
        /\ page' = [page EXCEPT ![j][e] = @ + 1]
        /\ attempts' = attempts /\ status' = status /\ resets' = resets
    BY <1>1, <1>5 DEF WritePage, columns
  <2>2. h \in Owing(j, e)
    BY <2>1 DEF Owing, Owes
  <2>3. Cardinality(Owing(j, e)) > 0
    <3>1. IsFiniteSet(Owing(j, e)) /\ Cardinality(Owing(j, e)) \in Nat
      BY OwingFinite
    <3> DEFINE S == Owing(j, e)
    <3> HIDE DEF S
    <3>2. IsFiniteSet(S) => (Cardinality(S) = 0 <=> S = {})
      BY FS_EmptySet
    <3> QED  BY <2>2, <3>1, <3>2 DEF S
  <2>4. page[j][e] < attempts[j]
    BY <1>1, <2>1, <2>3, OwingFinite DEF PagesAccounted
  <2>5. Granted' = Granted
    BY <2>1, GrantedStays
  <2>6. Ledger!Write(j, e)
    BY <2>1, <2>4, <2>5 DEF Ledger!Write
  <2> QED  BY <2>1, <2>6 DEF Ledger!Next
<1>6. ASSUME NEW h \in Handlers, handler[h].pc = "fetched", UNCHANGED resets, page' = page,
             ClaimJob(handler[h].job)
      PROVE  Ledger!Next
  <2> DEFINE j == handler[h].job
  <2>1. j \in Jobs
    BY <1>1, <1>6
  <2>2. /\ status[j] = "queued"
        /\ status' = [status EXCEPT ![j] = "processing"]
        /\ attempts' = [attempts EXCEPT ![j] = @ + 1]
    BY <1>6 DEF ClaimJob, Claimable
  <2>3. Granted' = Granted
    BY <1>1, <1>6, <2>2, GrantedStays
  <2>4. attempts[j] < Granted[j]
    BY <1>1, <1>2, <2>1, <2>2 DEF ClaimsWithinRetries, RunsOf, Granted
  <2>5. Ledger!Run(j)
    BY <1>6, <2>2, <2>3, <2>4 DEF Ledger!Run
  <2> QED  BY <2>1, <2>5 DEF Ledger!Next
<1>7. ASSUME NEW h \in Handlers, handler[h].pc \in Begun, UNCHANGED resets,
             NEW s \in {"processing", "completed", "failed"}, NEW e,
             UpdateJobStatus(handler[h].job, s, e)
      PROVE  Granted' = Granted /\ attempts' = attempts
  <2> DEFINE j == handler[h].job
  <2>1. j \in Jobs /\ attempts[j] > 0
    BY <1>1, <1>7 DEF BegunIsClaimed, Begun
  <2>2. status[j] # "absent"
    BY <1>3, <2>1
  <2>3. \A k \in Jobs : status'[k] = "absent" <=> status[k] = "absent"
    BY <1>1, <1>7, <2>2 DEF UpdateJobStatus
  <2> QED  BY <1>7, <2>3, GrantedStays DEF UpdateJobStatus
<1>8. ASSUME NEW s \in Sweepers, SweepJobs(s)
      PROVE  UNCHANGED <<Granted, attempts, page>>
  <2>1. \A k \in Jobs : status'[k] = "absent" <=> status[k] = "absent"
    BY <1>1, <1>8 DEF SweepJobs, Stale
  <2> QED  BY <1>8, <2>1, GrantedStays DEF SweepJobs
<1>9. ASSUME NEW a \in Admins, ResetJob(a)
      PROVE  [Ledger!Next]_(Ledger!vars)
  <2> DEFINE j == admin[a].job
  <2>1. CASE Retryable(j)
    <3>1. j \in Jobs
      BY <1>9 DEF ResetJob, TypeOK
    <3>2. /\ status[j] \in Terminal
          /\ status' = [status EXCEPT ![j] = "queued"]
          /\ resets' = [resets EXCEPT ![j] = @ + 1]
          /\ attempts' = attempts /\ page' = page
      BY <1>9, <2>1 DEF ResetJob, Retryable
    <3>3. attempts[j] > 0
      BY <3>1, <3>2 DEF BegunIsClaimed, Terminal
    <3>4. Granted' = [Granted EXCEPT ![j] = @ + 1]
      <4>1. GrantOf(resets'[j], status'[j]) = GrantOf(resets[j], status[j]) + 1
        BY <1>1, <1>2, <3>1, <3>2 DEF GrantOf, Terminal
      <4>2. \A k \in Jobs \ {j} : resets'[k] = resets[k] /\ status'[k] = status[k]
        BY <1>1, <3>2
      <4> QED  BY <3>1, <4>1, <4>2, GrantedGrows
    <3>5. Ledger!Retry(j)
      BY <3>2, <3>3, <3>4 DEF Ledger!Retry
    <3> QED  BY <3>1, <3>5 DEF Ledger!Next
  <2>2. CASE ~Retryable(j)
    <3>1. UNCHANGED <<status, resets, attempts, page>>
      BY <1>9, <2>2 DEF ResetJob
    <3> QED  BY <1>4, <3>1, GrantedStays
  <2> QED  BY <2>1, <2>2
<1>10. ASSUME NEW p \in Producers, CreateJob(p)
       PROVE  [Ledger!Next]_(Ledger!vars)
  <2> DEFINE j == producer[p].job
  <2>1. /\ j \in Jobs
        /\ status' = [status EXCEPT ![j] = IF @ = "absent" THEN "queued" ELSE @]
        /\ UNCHANGED <<resets, attempts, page>>
    BY <1>10 DEF CreateJob, TypeOK
  <2>2. CASE status[j] = "absent"
    <3>1. resets[j] = 0 /\ Granted[j] = 0
      BY <2>1, <2>2 DEF AbsentIsFresh, Granted
    <3>2. Granted' = [Granted EXCEPT ![j] = @ + 1]
      <4>1. GrantOf(resets'[j], status'[j]) = GrantOf(resets[j], status[j]) + 1
        BY <1>1, <2>1, <2>2, <3>1 DEF GrantOf
      <4>2. \A k \in Jobs \ {j} : resets'[k] = resets[k] /\ status'[k] = status[k]
        BY <1>1, <2>1
      <4> QED  BY <2>1, <4>1, <4>2, GrantedGrows
    <3>3. Granted' = [Granted EXCEPT ![j] = 1]
      BY <3>1, <3>2
    <3>4. Ledger!Submit(j)
      BY <2>1, <3>1, <3>3 DEF Ledger!Submit
    <3> QED  BY <2>1, <3>4 DEF Ledger!Next
  <2>3. CASE status[j] # "absent"
    <3>1. UNCHANGED status
      BY <1>1, <2>1, <2>3
    <3> QED  BY <1>4, <2>1, <3>1, GrantedStays
  <2> QED  BY <2>2, <2>3
<1>11. CASE UNCHANGED <<status, attempts, resets>>
  <2>1. CASE page' = page
    BY <1>4, <1>11, <2>1, GrantedStays
  <2>2. CASE \E h \in Handlers, e \in Events : WritePage(h, e)
    BY <1>5, <2>2
  <2> QED  BY <2>1, <2>2, PageSteps
<1>12. ASSUME NEW h \in Handlers, UNCHANGED resets,
              \/ handler[h].pc = "fetched" /\ ClaimJob(handler[h].job)
              \/ handler[h].pc \in Begun /\ \E s \in {"processing", "completed", "failed"} : \E e :
                   UpdateJobStatus(handler[h].job, s, e)
       PROVE  [Ledger!Next]_(Ledger!vars)
  <2>1. CASE page' = page
    BY <1>4, <1>6, <1>7, <1>12, <2>1
  <2>2. CASE \E g \in Handlers, e \in Events : WritePage(g, e)
    BY <1>5, <2>2
  <2> QED  BY <2>1, <2>2, PageSteps
<1> QED  BY <1>4, <1>8, <1>9, <1>10, <1>11, <1>12, StatusSteps

\* CompileJobs implements JobLedger: every run of a job is one that its submission
\* or a retry asked for, only a job that has run is retried, and every concept
\* written belongs to a run.
THEOREM LedgerKept == Spec => KeepsLedger
<1>1. Init => Ledger!Init
  BY DEF Init, Ledger!Init, Granted
<1>2. Init => AbsentIsFresh
  BY DEF Init, AbsentIsFresh
<1>3. Spec => []AbsentIsFresh
  BY <1>2, FreshStep, TypeCorrect, PTL DEF Spec
<1>4. Spec => []LedgerInv
  BY <1>3, TypeCorrect, ClaimsBounded, PagesAccountedFor, ClaimedBeforeBegun, PTL DEF LedgerInv
<1> QED  BY <1>1, <1>4, LedgerStep, PTL DEF Spec, KeepsLedger, Ledger!Spec

-----------------------------------------------------------------------------
(***************************************************************************)
(* Who works on a job, and that a job left in the queue will be worked on. *)
(* What is shown from here on does not hold under every fault; each        *)
(* theorem names the faults it excludes.                                   *)
(***************************************************************************)

(* One owner.                                                              *)

\* No handler outlives its delivery or the staleness threshold, and no answer of a
\* committed write is lost.
OwnersAreSure == Faults \cap {"overrun", "ackLost"} = {}

\* A handler between its claim and its last write has the job to itself: the job is
\* `processing`, and the sweep does not take it for abandoned.
OwnerHasJob ==
  \A h \in Handlers : handler[h].pc \in Begun =>
    status[handler[h].job] = "processing" /\ ~aged[handler[h].job]

\* What the handler has written for an event it has yet to record.
WrittenIsTodo ==
  \A h \in Handlers :
    /\ handler[h].written \subseteq handler[h].todo
    /\ handler[h].pc \in {"fetched", "claimed"} => handler[h].written = {}

OwnInv == /\ TypeOK
          /\ SingleOwner
          /\ OwnerHasJob
          /\ WrittenIsTodo

\* The events a handler has yet to settle.
AtWork(h) == handler[h].pc \in {"loaded", "loop"}
TodoIsNotCompiled ==
  \A h \in Handlers : AtWork(h) =>
    \A e \in handler[h].todo : row[handler[h].job][e] # "compiled"
TodoIsPending ==
  \A h \in Handlers : AtWork(h) =>
    \A e \in handler[h].todo : row[handler[h].job][e] = "pending"

\* A job nobody has begun: no message, no handler, no retry, nothing compiled.
Untouched(j) ==
  /\ status[j] \in {"absent", "queued"}
  /\ \A e \in Events : row[j][e] # "compiled"
  /\ \A n \in Sends : msg[j][n].state = "unsent"
  /\ \A h \in Handlers : handler[h].pc # "idle" => handler[h].job # j
  /\ \A a \in Admins : admin[a].pc # "idle" => admin[a].job # j
AbsentIsUntouched == \A j \in Jobs : status[j] = "absent" => Untouched(j)
RowsAreCreated ==
  \A p \in Producers : producer[p].pc = "rows" => status[producer[p].job] # "absent"
\* With one request at a time, the job it submits is its own until it sends.
SubmittedIsUntouched ==
  \A p \in Producers : producer[p].pc \in {"create", "rows"} => Untouched(producer[p].job)

\* Whatever leaves a job `processing` without a handler is a fault of the worker.
WorkersAreSound == Faults \cap {"workerCrash", "dbError"} = {}
ProcessingIsOwned ==
  /\ \A j \in Jobs : status[j] = "processing" => \E h \in Handlers : Running(h, j)
  /\ \A s \in Sweepers : sweep[s] = {}

-----------------------------------------------------------------------------
(* The announcement of a queued job.                                       *)

\* Every message a request owes is sent, and a message outlives the faults.
SendsAreSure == "senderCrash" \notin Faults /\ MaxFaults <= RetryLimit

\* An active message has one handler, unless its worker is dead.
HeldIsActive ==
  /\ \A h \in Handlers : handler[h].pc # "idle" /\ ~handler[h].late =>
       msg[handler[h].job][handler[h].send].state = "active"
  /\ \A g, h \in Handlers :
       /\ handler[g].pc # "idle" /\ ~handler[g].late
       /\ handler[h].pc # "idle" /\ ~handler[h].late
       /\ handler[g].job = handler[h].job /\ handler[g].send = handler[h].send
       => g = h

\* Messages are numbered by the resets.
SendsFollowResets ==
  /\ \A j \in Jobs, n \in Sends :
       /\ n > resets[j] => msg[j][n].state = "unsent"
       /\ msg[j][n].state = "unsent" => msg[j][n].left = RetryLimit
  /\ \A a \in Admins : admin[a].pc \in {"rows", "send"} => admin[a].send <= resets[admin[a].job]

\* The message of the latest submission or retry is owed by a request, or it is
\* under way and has lost no more deliveries than there were faults.
Owed(j) ==
  \/ \E a \in Admins :
       admin[a].pc \in {"rows", "send"} /\ admin[a].job = j /\ admin[a].send = resets[j]
  \/ resets[j] = 0 /\ \E p \in Producers : producer[p].pc = "rows" /\ producer[p].job = j
Fetched(j, n) == \E h \in Handlers : Holds(h, j, n) /\ handler[h].pc = "fetched"
UnderWay(j, n) ==
  /\ msg[j][n].state \in {"ready", "active"}
  /\ \A h \in Handlers : Holds(h, j, n) => handler[h].pc \in {"fetched", "throw"}
  /\ msg[j][n].left + faults >= RetryLimit
  /\ msg[j][n].state = "active" /\ ~Fetched(j, n) => msg[j][n].left + faults > RetryLimit
LatestIsAnnounced ==
  \A j \in Jobs : status[j] = "queued" =>
    \/ msg[j][resets[j]].state = "unsent" /\ Owed(j)
    \/ UnderWay(j, resets[j])

QueueInv == /\ TypeOK
            /\ AbsentIsUntouched
            /\ AbsentIsFresh
            /\ RowsAreCreated
            /\ HeldIsActive
            /\ SendsFollowResets
            /\ LatestIsAnnounced

-----------------------------------------------------------------------------
(* Which statements touch what.                                            *)

\* The statements that write a job's status or its started_at clock.
LEMMA ColumnSteps ==
  ASSUME [Next]_vars
  PROVE  \/ UNCHANGED <<status, aged>>
         \/ \E h \in Handlers :
              \/ Claim(h) \/ ClaimAnswerLost(h) \/ RejectJob(h) \/ StartCompiling(h)
              \/ FinishAt(h, "return") \/ FinishAnswerLost(h) \/ CatchFailsJob(h)
         \/ \E j \in Jobs : AgeAbandoned(j) \/ AgeOverrun(j)
         \/ \E s \in Sweepers : SweepJobs(s)
         \/ \E a \in Admins : ResetJob(a)
         \/ \E p \in Producers : CreateJob(p)
<1> USE DEF tables, columns, actors
<1>1. CASE UNCHANGED vars
  BY <1>1 DEF vars
<1>2. CASE Queue
  BY <1>2 DEF Queue, Deliver, ExpireAbandoned, ExpireOverrun, Acknowledge, Reject
<1>3. ASSUME NEW h \in Handlers, HandlerStep(h)
      PROVE  \/ UNCHANGED <<status, aged>>
             \/ Claim(h) \/ RejectJob(h) \/ StartCompiling(h) \/ FinishAt(h, "return")
             \/ CatchFailsJob(h)
  BY <1>3 DEF HandlerStep, LoadPending, NoProvider, SettleWithoutPage, WritePage, RecordCompiled,
              Settle, Finish
<1>4. ASSUME NEW h \in Handlers, HandlerFault(h)
      PROVE  UNCHANGED <<status, aged>> \/ ClaimAnswerLost(h) \/ FinishAnswerLost(h)
  BY <1>4 DEF HandlerFault, StatementThrows, RecordCompiledThrows, Settle, CatchWriteThrows,
              WorkerCrash
<1>5. CASE Sweeper
  BY <1>5 DEF Sweeper, SweepRows, SweeperCrash
<1>6. ASSUME NEW a \in Admins, Admin(a)
      PROVE  UNCHANGED <<status, aged>> \/ ResetJob(a)
  BY <1>6 DEF Admin, RetryRead, RetryReadEvents, ResetRows, RetrySend, AdminCrash
<1>7. ASSUME NEW p \in Producers, Producer(p)
      PROVE  UNCHANGED <<status, aged>> \/ CreateJob(p)
  BY <1>7 DEF Producer, Submit, CreateJobLosesRace, CreateRow, EnqueueSend, NextRequest,
              ProducerCrash
<1> QED  BY <1>1, <1>2, <1>3, <1>4, <1>5, <1>6, <1>7 DEF Next

\* The statements that write an event's row.
LEMMA RowSteps ==
  ASSUME [Next]_vars
  PROVE  \/ row' = row
         \/ \E h \in Handlers, e \in Events, outcome \in Outcomes :
              /\ handler[h].pc = "loop"
              /\ e \in handler[h].todo \cup handler[h].written
              /\ Settle(h, e, outcome)
         \/ \E s \in Sweepers : SweepRows(s)
         \/ \E a \in Admins : ResetRows(a)
         \/ \E p \in Producers, e \in Events : CreateRow(p, e)
<1> USE DEF tables, columns, Outcomes
<1>1. CASE UNCHANGED vars
  BY <1>1 DEF vars
<1>2. CASE Queue
  BY <1>2 DEF Queue, Deliver, ExpireAbandoned, ExpireOverrun, Acknowledge, Reject
<1>3. ASSUME NEW h \in Handlers, HandlerStep(h)
      PROVE  \/ row' = row
             \/ \E e \in Events, outcome \in Outcomes :
                  /\ handler[h].pc = "loop"
                  /\ e \in handler[h].todo \cup handler[h].written
                  /\ Settle(h, e, outcome)
  <2>1. CASE Claim(h) \/ LoadPending(h) \/ NoProvider(h) \/ RejectJob(h) \/ StartCompiling(h)
             \/ Finish(h) \/ CatchFailsJob(h)
    BY <2>1 DEF Claim, LoadPending, NoProvider, RejectJob, StartCompiling, Finish, FinishAt,
                CatchFailsJob
  <2>2. ASSUME NEW e \in Events, SettleWithoutPage(h, e) \/ WritePage(h, e) \/ RecordCompiled(h, e)
        PROVE  \/ row' = row
               \/ \E outcome \in Outcomes :
                    /\ handler[h].pc = "loop"
                    /\ e \in handler[h].todo \cup handler[h].written
                    /\ Settle(h, e, outcome)
    BY <2>2 DEF SettleWithoutPage, WritePage, RecordCompiled
  <2> QED  BY <1>3, <2>1, <2>2 DEF HandlerStep
<1>4. ASSUME NEW h \in Handlers, HandlerFault(h)
      PROVE  \/ row' = row
             \/ \E e \in Events, outcome \in Outcomes :
                  /\ handler[h].pc = "loop"
                  /\ e \in handler[h].todo \cup handler[h].written
                  /\ Settle(h, e, outcome)
  <2>1. ASSUME NEW e \in Events, RecordCompiledThrows(h, e)
        PROVE  /\ handler[h].pc = "loop"
               /\ e \in handler[h].todo \cup handler[h].written
               /\ Settle(h, e, "failed")
    BY <2>1 DEF RecordCompiledThrows
  <2> QED  BY <1>4, <2>1 DEF HandlerFault, ClaimAnswerLost, FinishAnswerLost, FinishAt,
                            StatementThrows, CatchWriteThrows, WorkerCrash
<1>5. CASE Sweeper
  BY <1>5 DEF Sweeper, AgeAbandoned, AgeOverrun, SweepJobs, SweeperCrash
<1>6. ASSUME NEW a \in Admins, Admin(a)
      PROVE  row' = row \/ ResetRows(a)
  BY <1>6 DEF Admin, RetryRead, RetryReadEvents, ResetJob, RetrySend, AdminCrash
<1>7. ASSUME NEW p \in Producers, Producer(p)
      PROVE  row' = row \/ \E e \in Events : CreateRow(p, e)
  BY <1>7 DEF Producer, Submit, CreateJob, CreateJobLosesRace, EnqueueSend, NextRequest,
              ProducerCrash
<1> QED  BY <1>1, <1>2, <1>3, <1>4, <1>5, <1>6, <1>7 DEF Next

\* No step moves two handlers.
LEMMA OneHandlerMoves ==
  ASSUME TypeOK, [Next]_vars, NEW g \in Handlers, NEW h \in Handlers,
         handler'[g] # handler[g], handler'[h] # handler[h]
  PROVE  g = h
<1>1. handler \in [Handlers -> HandlerState]
  BY DEF TypeOK
<1>2. ASSUME NEW k \in Handlers, NEW r, handler' = [handler EXCEPT ![k] = r]
      PROVE  g = h
  BY <1>1, <1>2
<1>3. CASE UNCHANGED handler
  BY <1>3
<1>4. CASE Queue
  BY <1>1, <1>3, <1>4 DEF Queue, Deliver, ExpireAbandoned, ExpireOverrun, Acknowledge, Reject, actors
<1>5. ASSUME NEW k \in Handlers, HandlerStep(k)
      PROVE  g = h
  <2>1. \A f \in Handlers : f # k => handler'[f] = handler[f]
    BY <1>1, <1>5 DEF HandlerStep, Claim, LoadPending, NoProvider, RejectJob, StartCompiling,
         SettleWithoutPage, WritePage, RecordCompiled, Settle, Finish, FinishAt, CatchFailsJob, Goto
  <2> QED  BY <2>1
<1>6. ASSUME NEW k \in Handlers, HandlerFault(k)
      PROVE  g = h
  <2>1. \A f \in Handlers : f # k => handler'[f] = handler[f]
    BY <1>1, <1>6 DEF HandlerFault, ClaimAnswerLost, FinishAnswerLost, FinishAt, StatementThrows,
         RecordCompiledThrows, Settle, CatchWriteThrows, WorkerCrash, Goto
  <2> QED  BY <2>1
<1>7. CASE Sweeper
  BY <1>3, <1>7 DEF Sweeper, AgeAbandoned, AgeOverrun, SweepJobs, SweepRows, SweeperCrash, actors
<1>8. ASSUME NEW a \in Admins, Admin(a)
      PROVE  g = h
  BY <1>3, <1>8 DEF Admin, RetryRead, RetryReadEvents, ResetJob, ResetRows, RetrySend, AdminCrash
<1>9. ASSUME NEW p \in Producers, Producer(p)
      PROVE  g = h
  BY <1>3, <1>9 DEF Producer, Submit, CreateJob, CreateJobLosesRace, CreateRow, EnqueueSend,
                    NextRequest, ProducerCrash
<1>10. CASE UNCHANGED vars
  BY <1>3, <1>10 DEF vars, actors
<1> QED  BY <1>4, <1>5, <1>6, <1>7, <1>8, <1>9, <1>10 DEF Next

-----------------------------------------------------------------------------
(* A job has one owner at a time.                                          *)

\* A handler that comes to own a job has found it `queued`, and so without an owner.
LEMMA SingleOwnerStep ==
  ASSUME OwnInv, [Next]_vars
  PROVE  SingleOwner'
<1> SUFFICES ASSUME NEW g \in Handlers, NEW h \in Handlers,
                    handler'[g].pc \in Begun, handler'[h].pc \in Begun,
                    handler'[g].job = handler'[h].job
             PROVE  g = h
  BY DEF SingleOwner, Running, Begun
<1>1. TypeOK /\ SingleOwner /\ OwnerHasJob
  BY DEF OwnInv
<1>2. \A k \in Handlers : handler[k].pc \in Begun => status[handler[k].job] = "processing"
  BY <1>1 DEF OwnerHasJob
<1>3. \A k \in Handlers : handler[k].pc \in Begun => handler[k].job \in Jobs
  BY <1>1 DEF TypeOK, Begun
<1>4. ASSUME NEW k \in Handlers, NEW l \in Handlers, handler[k].pc \in Begun,
             handler[l].pc \in Begun, handler[k].job = handler[l].job
      PROVE  k = l
  BY <1>1, <1>3, <1>4 DEF SingleOwner, Running, Begun
<1>5. ASSUME NEW k \in Handlers, handler'[k].pc \in Begun
      PROVE  \/ handler[k].pc \in Begun /\ handler'[k].job = handler[k].job
             \/ /\ handler[k].pc = "fetched" /\ handler'[k].job = handler[k].job
                /\ status[handler[k].job] = "queued"
  BY <1>1, <1>5, BegunSteps DEF ClaimJob, Claimable
<1>6. ASSUME NEW k \in Handlers, handler'[k].pc \in Begun, handler[k].pc = "fetched"
      PROVE  handler'[k] # handler[k]
  BY <1>6 DEF Begun
<1> QED  BY <1>1, <1>2, <1>4, <1>5, <1>6, OneHandlerMoves

\* Where a handler goes with the statement that last writes its job.
LEMMA LastWrites ==
  ASSUME TypeOK, NEW h \in Handlers,
         RejectJob(h) \/ FinishAt(h, "return") \/ CatchFailsJob(h)
  PROVE  handler'[h].pc \notin Begun
<1>1. handler \in [Handlers -> HandlerState]
  BY DEF TypeOK
<1>2. ASSUME NEW pc \in {"return", "throw"}, Goto(h, pc)
      PROVE  handler'[h].pc \notin Begun
  BY <1>1, <1>2 DEF Goto, HandlerState, Begun
<1> QED  BY <1>2 DEF RejectJob, FinishAt, CatchFailsJob

\* Only the owner writes the status of the job it owns, and the sweep lets it be.
LEMMA OwnerHasJobStep ==
  ASSUME OwnersAreSure, OwnInv, [Next]_vars
  PROVE  OwnerHasJob'
<1> SUFFICES ASSUME NEW h \in Handlers, handler'[h].pc \in Begun
             PROVE  status'[handler'[h].job] = "processing" /\ ~aged'[handler'[h].job]
  BY DEF OwnerHasJob
<1> DEFINE j == handler[h].job
<1>1. TypeOK /\ SingleOwner /\ OwnerHasJob
  BY DEF OwnInv
<1>2. /\ status \in [Jobs -> JobStatus] /\ aged \in [Jobs -> BOOLEAN]
      /\ \A k \in Handlers : handler[k].pc \in Begun => handler[k].job \in Jobs
      /\ \A k \in Handlers : handler[k].pc = "fetched" => handler[k].job \in Jobs
  BY <1>1 DEF TypeOK, Begun
<1>3. "overrun" \notin Faults /\ "ackLost" \notin Faults
  BY DEF OwnersAreSure
<1>4. CASE handler[h].pc = "fetched" /\ handler'[h].job = j /\ ClaimJob(j)
  BY <1>2, <1>4 DEF ClaimJob
<1>5. CASE handler[h].pc \in Begun /\ handler'[h].job = j
  <2>1. j \in Jobs /\ status[j] = "processing" /\ ~aged[j]
    BY <1>1, <1>2, <1>5 DEF OwnerHasJob
  <2>2. ASSUME NEW g \in Handlers, handler[g].pc \in Begun, handler[g].job = j
        PROVE  g = h
    BY <1>1, <1>5, <2>1, <2>2 DEF SingleOwner, Running, Begun
  <2>3. ASSUME NEW g \in Handlers, RejectJob(g) \/ FinishAt(g, "return") \/ CatchFailsJob(g)
        PROVE  status'[j] = "processing" /\ ~aged'[j]
    <3>1. handler[g].pc \in Begun
      BY <2>3 DEF RejectJob, FinishAt, CatchFailsJob, Begun
    <3>2. g # h
      BY <1>1, <2>3, LastWrites
    <3>3. handler[g].job # j /\ handler[g].job \in Jobs
      BY <1>2, <2>2, <3>1, <3>2
    <3>4. PICK s, e : UpdateJobStatus(handler[g].job, s, e)
      BY <2>3 DEF RejectJob, FinishAt, CatchFailsJob
    <3> QED  BY <1>2, <2>1, <3>3, <3>4 DEF UpdateJobStatus
  <2>4. ASSUME NEW g \in Handlers, StartCompiling(g)
        PROVE  status'[j] = "processing" /\ ~aged'[j]
    BY <1>2, <2>1, <2>4 DEF StartCompiling, UpdateJobStatus
  <2>5. ASSUME NEW g \in Handlers, Claim(g)
        PROVE  status'[j] = "processing" /\ ~aged'[j]
    BY <1>2, <2>1, <2>5 DEF Claim, ClaimJob, columns
  <2>6. ASSUME NEW g \in Handlers, ClaimAnswerLost(g) \/ FinishAnswerLost(g)
        PROVE  FALSE
    BY <1>3, <2>6 DEF ClaimAnswerLost, FinishAnswerLost, Fault
  <2>7. ASSUME NEW k \in Jobs, AgeAbandoned(k) \/ AgeOverrun(k)
        PROVE  status'[j] = "processing" /\ ~aged'[j]
    <3>1. AgeAbandoned(k)
      BY <1>3, <2>7 DEF AgeOverrun, Fault
    <3>2. k # j
      BY <1>5, <3>1 DEF AgeAbandoned, Running, Begun
    <3> QED  BY <1>2, <2>1, <3>1, <3>2 DEF AgeAbandoned
  <2>8. ASSUME NEW s \in Sweepers, SweepJobs(s)
        PROVE  status'[j] = "processing" /\ ~aged'[j]
    BY <2>1, <2>8 DEF SweepJobs, Stale
  <2>9. ASSUME NEW a \in Admins, ResetJob(a)
        PROVE  status'[j] = "processing" /\ ~aged'[j]
    BY <1>2, <2>1, <2>9 DEF ResetJob, Retryable, Terminal
  <2>10. ASSUME NEW p \in Producers, CreateJob(p)
         PROVE  status'[j] = "processing" /\ ~aged'[j]
    BY <1>2, <2>1, <2>10 DEF CreateJob
  <2> QED  BY <1>5, <2>1, <2>3, <2>4, <2>5, <2>6, <2>7, <2>8, <2>9, <2>10, ColumnSteps
<1> QED  BY <1>1, <1>4, <1>5, BegunSteps

\* A handler that leaves, or has just been delivered a message, has written nothing.
LEMMA WrittenStep ==
  ASSUME TypeOK, WrittenIsTodo, [Next]_vars
  PROVE  WrittenIsTodo'
<1> DEFINE OK(r) == /\ r.written \subseteq r.todo
                    /\ r.pc \in {"fetched", "claimed"} => r.written = {}
<1>1. handler \in [Handlers -> HandlerState]
  BY DEF TypeOK
<1>2. \A h \in Handlers : OK(handler[h])
  BY DEF WrittenIsTodo
<1> SUFFICES \A h \in Handlers : OK(handler'[h])
  BY DEF WrittenIsTodo
<1>3. ASSUME NEW h \in Handlers, NEW pc \in HandlerPC \ {"fetched"}, Goto(h, pc),
             pc = "claimed" => handler[h].pc = "fetched"
      PROVE  \A g \in Handlers : OK(handler'[g])
  BY <1>1, <1>2, <1>3 DEF Goto, HandlerState
<1>4. ASSUME NEW h \in Handlers, handler' = [handler EXCEPT ![h] = IdleHandler]
      PROVE  \A g \in Handlers : OK(handler'[g])
  BY <1>1, <1>2, <1>4 DEF IdleHandler
<1>5. CASE UNCHANGED handler
  BY <1>2, <1>5
<1>6. CASE Queue
  <2>1. ASSUME NEW h \in Handlers, NEW j \in Jobs, NEW n \in Sends, Deliver(h, j, n)
        PROVE  \A g \in Handlers : OK(handler'[g])
    BY <1>1, <1>2, <2>1 DEF Deliver, IdleHandler
  <2>2. ASSUME NEW h \in Handlers, ExpireOverrun(h)
        PROVE  \A g \in Handlers : OK(handler'[g])
    BY <1>1, <1>2, <2>2 DEF ExpireOverrun, HandlerState
  <2> QED  BY <1>4, <1>5, <1>6, <2>1, <2>2 DEF Queue, ExpireAbandoned, Acknowledge, Reject, actors
<1>7. ASSUME NEW h \in Handlers, HandlerStep(h)
      PROVE  \A g \in Handlers : OK(handler'[g])
  <2>1. CASE Claim(h)
    BY <1>3, <2>1 DEF Claim, HandlerPC
  <2>2. CASE RejectJob(h) \/ StartCompiling(h) \/ Finish(h) \/ CatchFailsJob(h)
    BY <1>3, <2>2 DEF RejectJob, StartCompiling, Finish, FinishAt, CatchFailsJob, HandlerPC
  <2>3. CASE LoadPending(h)
    <3>1. /\ handler[h].pc = "claimed"
          /\ \A g \in Handlers : g # h => handler'[g] = handler[g]
      BY <1>1, <2>3 DEF LoadPending
    <3>2. handler[h] \in HandlerState /\ handler[h].written = {}
      BY <1>1, <1>2, <3>1
    <3>3. handler'[h].written = {} /\ handler'[h].pc \in {"reject", "loaded"}
      <4>1. CASE PendingEvents(handler[h].job) = {}
        BY <1>1, <2>3, <3>2, <4>1 DEF LoadPending, HandlerState
      <4>2. CASE PendingEvents(handler[h].job) # {}
        BY <1>1, <2>3, <3>2, <4>2 DEF LoadPending, HandlerState
      <4> QED  BY <4>1, <4>2
    <3> QED  BY <1>2, <3>1, <3>3
  <2>4. CASE NoProvider(h)
    BY <1>1, <1>2, <2>4 DEF NoProvider, HandlerState
  <2>5. ASSUME NEW e \in Events, SettleWithoutPage(h, e) \/ WritePage(h, e) \/ RecordCompiled(h, e)
        PROVE  \A g \in Handlers : OK(handler'[g])
    BY <1>1, <1>2, <2>5 DEF SettleWithoutPage, WritePage, RecordCompiled, Settle, HandlerState
  <2> QED  BY <1>7, <2>1, <2>2, <2>3, <2>4, <2>5 DEF HandlerStep
<1>8. ASSUME NEW h \in Handlers, HandlerFault(h)
      PROVE  \A g \in Handlers : OK(handler'[g])
  <2>1. CASE ClaimAnswerLost(h) \/ FinishAnswerLost(h) \/ StatementThrows(h) \/ CatchWriteThrows(h)
    BY <1>3, <2>1 DEF ClaimAnswerLost, FinishAnswerLost, FinishAt, StatementThrows,
                      CatchWriteThrows, HandlerPC
  <2>2. CASE WorkerCrash(h)
    BY <1>4, <2>2 DEF WorkerCrash
  <2>3. ASSUME NEW e \in Events, RecordCompiledThrows(h, e)
        PROVE  \A g \in Handlers : OK(handler'[g])
    BY <1>1, <1>2, <2>3 DEF RecordCompiledThrows, Settle, HandlerState
  <2> QED  BY <1>8, <2>1, <2>2, <2>3 DEF HandlerFault
<1>9. CASE Sweeper
  BY <1>5, <1>9 DEF Sweeper, AgeAbandoned, AgeOverrun, SweepJobs, SweepRows, SweeperCrash, actors
<1>10. ASSUME NEW a \in Admins, Admin(a)
       PROVE  UNCHANGED handler
  BY <1>10 DEF Admin, RetryRead, RetryReadEvents, ResetJob, ResetRows, RetrySend, AdminCrash
<1>11. ASSUME NEW p \in Producers, Producer(p)
       PROVE  UNCHANGED handler
  BY <1>11 DEF Producer, Submit, CreateJob, CreateJobLosesRace, CreateRow, EnqueueSend,
               NextRequest, ProducerCrash
<1>12. CASE UNCHANGED vars
  BY <1>5, <1>12 DEF vars, actors
<1> QED  BY <1>5, <1>6, <1>7, <1>8, <1>9, <1>10, <1>11, <1>12 DEF Next

LEMMA OwnInit == Init => OwnInv
<1> SUFFICES ASSUME Init
             PROVE  OwnInv
  OBVIOUS
<1>1. \A h \in Handlers : handler[h] = IdleHandler
  BY DEF Init
<1> QED  BY <1>1, InitType DEF OwnInv, SingleOwner, Running, OwnerHasJob, Begun, WrittenIsTodo,
                               IdleHandler

LEMMA OwnStep == OwnersAreSure /\ OwnInv /\ [Next]_vars => OwnInv'
<1> SUFFICES ASSUME OwnersAreSure, OwnInv, [Next]_vars
             PROVE  OwnInv'
  OBVIOUS
<1>1. TypeOK /\ WrittenIsTodo
  BY DEF OwnInv
<1> QED  BY <1>1, NextType, SingleOwnerStep, OwnerHasJobStep, WrittenStep DEF OwnInv

\* While no handler outlives its delivery and no answer is lost, at most one handler
\* is between its claim of a job and its last write to it, however many crash and
\* however often the job is retried: the claim is the lock (worker.ts, claimJob).
THEOREM OneOwner ==
  ASSUME OwnersAreSure
  PROVE  Spec => []SingleOwner
<1>1. OwnInv => SingleOwner
  BY DEF OwnInv
<1>2. OwnInv /\ [Next]_vars => OwnInv'
  BY OwnStep
<1> QED  BY <1>1, <1>2, OwnInit, PTL DEF Spec

-----------------------------------------------------------------------------
(* What the owner has left to do.                                          *)

\* An event is on a handler's list because it was, or because the handler has just
\* loaded it, pending.
LEMMA TodoSteps ==
  ASSUME TypeOK, [Next]_vars, NEW h \in Handlers, handler'[h].pc \in {"loaded", "loop"},
         NEW e \in handler'[h].todo
  PROVE  /\ handler'[h].job = handler[h].job
         /\ \/ AtWork(h) /\ e \in handler[h].todo
            \/ /\ handler[h].pc = "claimed"
               /\ row[handler[h].job][e] = "pending"
               /\ row' = row
<1> DEFINE Goal == /\ handler'[h].job = handler[h].job
                   /\ \/ AtWork(h) /\ e \in handler[h].todo
                      \/ /\ handler[h].pc = "claimed"
                         /\ row[handler[h].job][e] = "pending"
                         /\ row' = row
<1> USE DEF AtWork
<1>1. handler \in [Handlers -> HandlerState]
  BY DEF TypeOK
<1>2. CASE handler'[h] = handler[h]
  BY <1>2
<1>3. ASSUME NEW g \in Handlers, NEW pc \in HandlerPC \ {"loaded"}, Goto(g, pc),
             pc = "loop" => handler[g].pc = "loaded"
      PROVE  Goal
  BY <1>1, <1>3 DEF Goto, HandlerState
<1>4. ASSUME NEW g \in Handlers, handler' = [handler EXCEPT ![g] = IdleHandler]
      PROVE  Goal
  BY <1>1, <1>4 DEF IdleHandler
<1>5. CASE Queue
  <2>1. ASSUME NEW g \in Handlers, NEW j \in Jobs, NEW n \in Sends, Deliver(g, j, n)
        PROVE  Goal
    BY <1>1, <2>1 DEF Deliver, IdleHandler
  <2>2. ASSUME NEW g \in Handlers, ExpireOverrun(g)
        PROVE  Goal
    BY <1>1, <2>2 DEF ExpireOverrun, HandlerState
  <2> QED  BY <1>2, <1>4, <1>5, <2>1, <2>2 DEF Queue, ExpireAbandoned, Acknowledge, Reject, actors
<1>6. ASSUME NEW g \in Handlers, HandlerStep(g)
      PROVE  Goal
  <2>1. CASE Claim(g)
    BY <1>3, <2>1 DEF Claim, HandlerPC
  <2>2. CASE RejectJob(g) \/ StartCompiling(g) \/ Finish(g) \/ CatchFailsJob(g)
    BY <1>3, <2>2 DEF RejectJob, StartCompiling, Finish, FinishAt, CatchFailsJob, HandlerPC
  <2>3. CASE LoadPending(g)
    <3>1. CASE g # h
      BY <1>1, <1>2, <2>3, <3>1 DEF LoadPending
    <3>2. CASE g = h
      <4> DEFINE pending == PendingEvents(handler[h].job)
      <4>1. handler[h] \in HandlerState /\ handler[h].pc = "claimed" /\ row' = row
        BY <1>1, <2>3, <3>2 DEF LoadPending, tables
      <4>2. handler' = [handler EXCEPT ![h] =
              IF pending = {} THEN [@ EXCEPT !.pc = "reject", !.reason = "no_events_found"]
                              ELSE [@ EXCEPT !.pc = "loaded", !.todo = pending]]
        BY <2>3, <3>2 DEF LoadPending
      <4> HIDE DEF pending
      <4>3. CASE pending = {}
        BY <1>1, <4>1, <4>2, <4>3 DEF HandlerState
      <4>4. CASE pending # {}
        <5>1. handler'[h].todo = pending /\ handler'[h].job = handler[h].job
          BY <1>1, <4>1, <4>2, <4>4 DEF HandlerState
        <5> QED  BY <4>1, <5>1 DEF pending, PendingEvents
      <4> QED  BY <4>3, <4>4
    <3> QED  BY <3>1, <3>2
  <2>4. CASE NoProvider(g)
    BY <1>1, <2>4 DEF NoProvider, HandlerState
  <2>5. ASSUME NEW d \in Events, SettleWithoutPage(g, d) \/ WritePage(g, d) \/ RecordCompiled(g, d)
        PROVE  Goal
    <3>1. handler[g].pc = "loop"
      BY <2>5 DEF SettleWithoutPage, WritePage, RecordCompiled
    <3>2. ASSUME NEW outcome, Settle(g, d, outcome)
          PROVE  Goal
      BY <1>1, <3>1, <3>2 DEF Settle, Rest, HandlerState
    <3>3. CASE WritePage(g, d)
      BY <1>1, <3>1, <3>3 DEF WritePage, HandlerState
    <3> QED  BY <2>5, <3>2, <3>3 DEF SettleWithoutPage, RecordCompiled
  <2> QED  BY <1>6, <2>1, <2>2, <2>3, <2>4, <2>5 DEF HandlerStep
<1>7. ASSUME NEW g \in Handlers, HandlerFault(g)
      PROVE  Goal
  <2>1. CASE ClaimAnswerLost(g) \/ FinishAnswerLost(g) \/ StatementThrows(g) \/ CatchWriteThrows(g)
    BY <1>3, <2>1 DEF ClaimAnswerLost, FinishAnswerLost, FinishAt, StatementThrows,
                      CatchWriteThrows, HandlerPC
  <2>2. CASE WorkerCrash(g)
    BY <1>4, <2>2 DEF WorkerCrash
  <2>3. ASSUME NEW d \in Events, RecordCompiledThrows(g, d)
        PROVE  Goal
    BY <1>1, <2>3 DEF RecordCompiledThrows, Settle, Rest, HandlerState
  <2> QED  BY <1>7, <2>1, <2>2, <2>3 DEF HandlerFault
<1>8. CASE Sweeper
  BY <1>2, <1>8 DEF Sweeper, AgeAbandoned, AgeOverrun, SweepJobs, SweepRows, SweeperCrash, actors
<1>9. ASSUME NEW a \in Admins, Admin(a)
      PROVE  UNCHANGED handler
  BY <1>9 DEF Admin, RetryRead, RetryReadEvents, ResetJob, ResetRows, RetrySend, AdminCrash
<1>10. ASSUME NEW p \in Producers, Producer(p)
       PROVE  UNCHANGED handler
  BY <1>10 DEF Producer, Submit, CreateJob, CreateJobLosesRace, CreateRow, EnqueueSend,
               NextRequest, ProducerCrash
<1>11. CASE UNCHANGED vars
  BY <1>2, <1>11 DEF vars, actors
<1> QED  BY <1>2, <1>5, <1>6, <1>7, <1>8, <1>9, <1>10, <1>11 DEF Next

\* The row of an event its owner has yet to settle is not settled by anyone else.
LEMMA TodoRow ==
  ASSUME OwnInv, [Next]_vars, NEW h \in Handlers, handler'[h].pc \in {"loaded", "loop"},
         NEW e \in handler'[h].todo
  PROVE  LET j == handler[h].job
         IN  /\ j \in Jobs /\ e \in Events /\ handler'[h].job = j
             /\ \/ AtWork(h) /\ e \in handler[h].todo
                \/ handler[h].pc = "claimed" /\ row[j][e] = "pending"
             /\ \/ row'[j][e] = row[j][e]
                \/ row'[j][e] = "pending"
                \/ row[j][e] = "pending" /\ row'[j][e] = "failed"
                   /\ \E s \in Sweepers : sweep[s] # {}
<1> DEFINE j == handler[h].job
<1>1. TypeOK /\ SingleOwner
  BY DEF OwnInv
<1>2. /\ handler'[h].job = j
      /\ \/ AtWork(h) /\ e \in handler[h].todo
         \/ handler[h].pc = "claimed" /\ row[j][e] = "pending" /\ row' = row
  BY <1>1, TodoSteps
<1>3. /\ row \in [Jobs -> [Events -> RowStatus]]
      /\ handler \in [Handlers -> HandlerState]
      /\ \A g \in Handlers : handler[g].pc # "idle" => handler[g].job \in Jobs
      /\ sweep \in [Sweepers -> SUBSET Jobs]
      /\ \A a \in Admins : admin[a].pc # "idle" => admin[a].job \in Jobs
      /\ \A p \in Producers : producer[p].pc # "idle" => producer[p].job \in Jobs
      /\ producer \in [Producers -> ProducerState]
  BY <1>1 DEF TypeOK
<1>4. handler[h].pc \in Begun /\ j \in Jobs
  BY <1>2, <1>3 DEF AtWork, Begun
<1>5. handler[h].pc = "claimed" => e \in Events
  <2>1. handler' \in [Handlers -> HandlerState]
    BY <1>1, NextType DEF TypeOK
  <2> QED  BY <2>1 DEF HandlerState
<1>6. e \in Events
  BY <1>2, <1>3, <1>5 DEF HandlerState, AtWork
<1>7. ASSUME NEW g \in Handlers, NEW d \in Events, NEW outcome, handler[g].pc = "loop",
             Settle(g, d, outcome)
      PROVE  row'[j][e] = row[j][e]
  <2>1. row' = [row EXCEPT ![handler[g].job][d] = outcome] /\ handler[g].job \in Jobs
    BY <1>3, <1>7 DEF Settle, UpsertJobEvent
  <2>2. CASE handler[g].job # j
    BY <1>3, <1>4, <2>1, <2>2
  <2>3. CASE handler[g].job = j
    <3>1. g = h
      BY <1>1, <1>4, <1>7, <2>3 DEF SingleOwner, Running, Begun
    <3>2. handler'[h].todo = handler[h].todo \ {d}
      BY <1>3, <1>7, <3>1 DEF Settle, Rest, HandlerState
    <3> QED  BY <1>3, <1>4, <1>6, <2>1, <3>2
  <2> QED  BY <2>2, <2>3
<1>8. ASSUME NEW s \in Sweepers, SweepRows(s)
      PROVE  \/ row'[j][e] = row[j][e]
             \/ row[j][e] = "pending" /\ row'[j][e] = "failed" /\ sweep[s] # {}
  BY <1>4, <1>6, <1>8 DEF SweepRows, Swept
<1>9. ASSUME NEW a \in Admins, ResetRows(a)
      PROVE  row'[j][e] \in {row[j][e], "pending"}
  <2>1. admin[a].job \in Jobs
    BY <1>3, <1>9 DEF ResetRows
  <2>2. row' = [row EXCEPT ![admin[a].job] =
           [d \in Events |-> IF Targeted(admin[a].mode, row[admin[a].job][d])
                             THEN "pending" ELSE row[admin[a].job][d]]]
    BY <1>9 DEF ResetRows
  <2>3. CASE admin[a].job = j
    BY <1>3, <1>4, <1>6, <2>2, <2>3
  <2>4. CASE admin[a].job # j
    BY <1>3, <1>4, <2>2, <2>4
  <2> QED  BY <2>3, <2>4
<1>10. ASSUME NEW p \in Producers, NEW d \in Events, CreateRow(p, d)
       PROVE  row'[j][e] \in {row[j][e], "pending"}
  BY <1>3, <1>4, <1>6, <1>10 DEF CreateRow, UpsertJobEvent
<1> QED  BY <1>2, <1>4, <1>6, <1>7, <1>8, <1>9, <1>10, <1>1, RowSteps

\* No row on an owner's list is compiled already.
LEMMA TodoStep == OwnInv /\ TodoIsNotCompiled /\ [Next]_vars => TodoIsNotCompiled'
<1> SUFFICES ASSUME OwnInv, TodoIsNotCompiled, [Next]_vars, NEW h \in Handlers,
                    handler'[h].pc \in {"loaded", "loop"}, NEW e \in handler'[h].todo
             PROVE  row'[handler'[h].job][e] # "compiled"
  BY DEF TodoIsNotCompiled, AtWork
<1> QED  BY TodoRow DEF TodoIsNotCompiled

\* Short of a fault, an owner goes with the last write to its job.
LEMMA OwnerLeaves ==
  ASSUME TypeOK, [Next]_vars, NEW h \in Handlers, handler[h].pc \in Begun,
         Faults \cap {"workerCrash", "dbError", "overrun", "ackLost"} = {}
  PROVE  \/ handler'[h].pc \in Begun /\ handler'[h].job = handler[h].job
         \/ RejectJob(h) \/ FinishAt(h, "return") \/ CatchFailsJob(h)
<1> DEFINE Stays == handler'[h].pc \in Begun /\ handler'[h].job = handler[h].job
           Goal == Stays \/ RejectJob(h) \/ FinishAt(h, "return") \/ CatchFailsJob(h)
<1>1. handler \in [Handlers -> HandlerState]
  BY DEF TypeOK
<1>2. CASE handler'[h] = handler[h]
  BY <1>2
<1>3. ASSUME NEW g \in Handlers, \A k \in Handlers : k # g => handler'[k] = handler[k],
             handler[g].pc \notin Begun
      PROVE  Goal
  BY <1>2, <1>3
<1>4. CASE Queue
  <2>1. ASSUME NEW g \in Handlers, NEW j \in Jobs, NEW n \in Sends, Deliver(g, j, n)
        PROVE  Goal
    BY <1>1, <1>3, <2>1 DEF Deliver, Begun
  <2>2. ASSUME NEW g \in Handlers, ExpireOverrun(g)
        PROVE  FALSE
    BY <2>2 DEF ExpireOverrun, Fault
  <2>3. ASSUME NEW g \in Handlers, Acknowledge(g) \/ Reject(g)
        PROVE  Goal
    BY <1>1, <1>3, <2>3 DEF Acknowledge, Reject, Begun
  <2> QED  BY <1>2, <1>4, <2>1, <2>2, <2>3 DEF Queue, ExpireAbandoned, actors
<1>5. ASSUME NEW g \in Handlers, HandlerStep(g)
      PROVE  Goal
  <2>1. CASE g # h
    <3>1. handler'[h] = handler[h]
      BY <1>1, <1>5, <2>1 DEF HandlerStep, Claim, LoadPending, NoProvider, RejectJob,
           StartCompiling, SettleWithoutPage, WritePage, RecordCompiled, Settle, Finish, FinishAt,
           CatchFailsJob, Goto
    <3> QED  BY <1>2, <3>1
  <2>2. CASE g = h
    <3>1. CASE Claim(h)
      BY <3>1 DEF Claim, Begun
    <3>2. CASE LoadPending(h)
      <4> DEFINE pending == PendingEvents(handler[h].job)
      <4>1. handler' = [handler EXCEPT ![h] =
              IF pending = {} THEN [@ EXCEPT !.pc = "reject", !.reason = "no_events_found"]
                              ELSE [@ EXCEPT !.pc = "loaded", !.todo = pending]]
        BY <3>2 DEF LoadPending
      <4> HIDE DEF pending
      <4>2. CASE pending = {}
        BY <1>1, <4>1, <4>2 DEF HandlerState, Begun
      <4>3. CASE pending # {}
        BY <1>1, <4>1, <4>3 DEF HandlerState, Begun
      <4> QED  BY <4>2, <4>3
    <3>3. CASE NoProvider(h) \/ StartCompiling(h)
      BY <1>1, <3>3 DEF NoProvider, StartCompiling, Goto, HandlerState, Begun
    <3>4. ASSUME NEW d \in Events, SettleWithoutPage(h, d) \/ WritePage(h, d) \/ RecordCompiled(h, d)
          PROVE  Goal
      <4>1. handler[h].pc = "loop"
        BY <3>4 DEF SettleWithoutPage, WritePage, RecordCompiled
      <4> QED  BY <1>1, <3>4, <4>1 DEF SettleWithoutPage, WritePage, RecordCompiled, Settle,
                                       HandlerState, Begun
    <3> QED  BY <1>5, <2>2, <3>1, <3>2, <3>3, <3>4 DEF HandlerStep, Finish
  <2> QED  BY <2>1, <2>2
<1>6. ASSUME NEW g \in Handlers, HandlerFault(g)
      PROVE  FALSE
  BY <1>6 DEF HandlerFault, ClaimAnswerLost, FinishAnswerLost, StatementThrows,
              RecordCompiledThrows, CatchWriteThrows, WorkerCrash, Fault
<1>7. CASE Sweeper
  BY <1>2, <1>7 DEF Sweeper, AgeAbandoned, AgeOverrun, SweepJobs, SweepRows, SweeperCrash, actors
<1>8. ASSUME NEW a \in Admins, Admin(a)
      PROVE  UNCHANGED handler
  BY <1>8 DEF Admin, RetryRead, RetryReadEvents, ResetJob, ResetRows, RetrySend, AdminCrash
<1>9. ASSUME NEW p \in Producers, Producer(p)
      PROVE  UNCHANGED handler
  BY <1>9 DEF Producer, Submit, CreateJob, CreateJobLosesRace, CreateRow, EnqueueSend,
              NextRequest, ProducerCrash
<1>10. CASE UNCHANGED vars
  BY <1>2, <1>10 DEF vars, actors
<1> QED  BY <1>2, <1>4, <1>5, <1>6, <1>7, <1>8, <1>9, <1>10 DEF Next

\* While no worker fails, nothing leaves a job `processing` without its handler, and
\* so the sweep finds nothing to fail.
LEMMA ProcessingStep ==
  ASSUME OwnersAreSure, WorkersAreSound, OwnInv, ProcessingIsOwned, [Next]_vars
  PROVE  ProcessingIsOwned'
<1>1. /\ "workerCrash" \notin Faults /\ "dbError" \notin Faults
      /\ "overrun" \notin Faults /\ "ackLost" \notin Faults
  BY DEF OwnersAreSure, WorkersAreSound
<1>2. TypeOK /\ OwnerHasJob
  BY DEF OwnInv
<1>3. /\ handler \in [Handlers -> HandlerState] /\ status \in [Jobs -> JobStatus]
      /\ sweep \in [Sweepers -> SUBSET Jobs]
      /\ \A g \in Handlers : handler[g].pc # "idle" => handler[g].job \in Jobs
  BY <1>2 DEF TypeOK
<1>4. \A j \in Jobs : status[j] = "processing" => ~aged[j]
  BY <1>2 DEF ProcessingIsOwned, OwnerHasJob, Running, Begun
<1>5. ASSUME NEW s \in Sweepers, SweepJobs(s)
      PROVE  FALSE
  BY <1>4, <1>5 DEF SweepJobs, Stale
<1>6. UNCHANGED sweep \/ \E s \in Sweepers : SweepRows(s) \/ SweeperCrash(s)
  <2>1. ASSUME NEW h \in Handlers, HandlerStep(h) \/ HandlerFault(h)
        PROVE  UNCHANGED sweep
    BY <2>1 DEF HandlerStep, Claim, LoadPending, NoProvider, RejectJob, StartCompiling,
         SettleWithoutPage, WritePage, RecordCompiled, Settle, Finish, FinishAt, CatchFailsJob,
         HandlerFault, ClaimAnswerLost, FinishAnswerLost, StatementThrows, RecordCompiledThrows,
         CatchWriteThrows, WorkerCrash
  <2>2. ASSUME NEW a \in Admins, Admin(a)
        PROVE  UNCHANGED sweep
    BY <2>2 DEF Admin, RetryRead, RetryReadEvents, ResetJob, ResetRows, RetrySend, AdminCrash
  <2>3. ASSUME NEW p \in Producers, Producer(p)
        PROVE  UNCHANGED sweep
    BY <2>3 DEF Producer, Submit, CreateJob, CreateJobLosesRace, CreateRow, EnqueueSend,
                NextRequest, ProducerCrash
  <2>4. CASE Queue
    BY <2>4 DEF Queue, Deliver, ExpireAbandoned, ExpireOverrun, Acknowledge, Reject, actors
  <2>5. CASE Sweeper
    BY <1>5, <2>5 DEF Sweeper, AgeAbandoned, AgeOverrun, actors
  <2>6. CASE UNCHANGED vars
    BY <2>6 DEF vars, actors
  <2> QED  BY <2>1, <2>2, <2>3, <2>4, <2>5, <2>6 DEF Next
<1>7. \A s \in Sweepers : sweep'[s] = {}
  BY <1>3, <1>6 DEF ProcessingIsOwned, SweepRows, SweeperCrash
<1>8. ASSUME NEW j \in Jobs, status'[j] = "processing"
      PROVE  \E h \in Handlers : handler'[h].job = j /\ handler'[h].pc \in Begun
  <2>1. CASE status[j] = "processing"
    <3>1. PICK h \in Handlers : handler[h].pc \in Begun /\ handler[h].job = j
      BY <2>1 DEF ProcessingIsOwned, Running, Begun
    <3>2. \/ handler'[h].pc \in Begun /\ handler'[h].job = j
          \/ RejectJob(h) \/ FinishAt(h, "return") \/ CatchFailsJob(h)
      BY <1>1, <1>2, <3>1, OwnerLeaves
    <3>3. ASSUME RejectJob(h) \/ FinishAt(h, "return") \/ CatchFailsJob(h)
          PROVE  status'[j] # "processing"
      <4>1. PICK s \in {"completed", "failed"} : \E e : UpdateJobStatus(j, s, e)
        BY <3>1, <3>3 DEF RejectJob, FinishAt, FinalStatus, CatchFailsJob
      <4> QED  BY <1>3, <4>1 DEF UpdateJobStatus
    <3> QED  BY <1>8, <3>2, <3>3
  <2>2. CASE status[j] # "processing"
    <3>1. PICK h \in Handlers : handler[h].job = j /\ (Claim(h) \/ StartCompiling(h))
      <4>1. ASSUME NEW h \in Handlers, RejectJob(h) \/ FinishAt(h, "return") \/ CatchFailsJob(h)
            PROVE  FALSE
        <5>1. PICK s \in {"completed", "failed"} : \E e : UpdateJobStatus(handler[h].job, s, e)
          BY <4>1 DEF RejectJob, FinishAt, FinalStatus, CatchFailsJob
        <5> QED  BY <1>3, <1>8, <2>2, <5>1 DEF UpdateJobStatus
      <4>2. ASSUME NEW h \in Handlers, Claim(h) \/ StartCompiling(h), handler[h].job # j
            PROVE  FALSE
        BY <1>3, <1>8, <2>2, <4>2 DEF Claim, ClaimJob, StartCompiling, UpdateJobStatus, columns
      <4>3. ASSUME NEW a \in Admins, ResetJob(a)
            PROVE  FALSE
        BY <1>3, <1>8, <2>2, <4>3 DEF ResetJob
      <4>4. ASSUME NEW p \in Producers, CreateJob(p)
            PROVE  FALSE
        BY <1>3, <1>8, <2>2, <4>4 DEF CreateJob
      <4>5. ASSUME NEW h \in Handlers, ClaimAnswerLost(h) \/ FinishAnswerLost(h)
            PROVE  FALSE
        BY <1>1, <4>5 DEF ClaimAnswerLost, FinishAnswerLost, Fault
      <4>6. ASSUME NEW k \in Jobs, AgeAbandoned(k) \/ AgeOverrun(k)
            PROVE  FALSE
        BY <1>8, <2>2, <4>6 DEF AgeAbandoned, AgeOverrun
      <4> QED  BY <1>5, <1>8, <2>2, <4>1, <4>2, <4>3, <4>4, <4>5, <4>6, ColumnSteps
    <3>2. CASE StartCompiling(h)
      <4>1. Goto(h, "loop")
        BY <3>2 DEF StartCompiling
      <4> QED  BY <1>3, <3>1, <4>1 DEF Goto, HandlerState, Begun
    <3>3. CASE Claim(h)
      <4>1. CASE Goto(h, "claimed")
        BY <1>3, <3>1, <4>1 DEF Goto, HandlerState, Begun
      <4>2. CASE UNCHANGED columns
        BY <1>8, <2>2, <4>2 DEF columns
      <4> QED  BY <3>3, <4>1, <4>2 DEF Claim
    <3> QED  BY <3>1, <3>2, <3>3
  <2> QED  BY <2>1, <2>2
<1> QED  BY <1>7, <1>8 DEF ProcessingIsOwned, Running, Begun

LEMMA PendingStep ==
  OwnInv /\ ProcessingIsOwned /\ TodoIsPending /\ [Next]_vars => TodoIsPending'
<1> SUFFICES ASSUME OwnInv, ProcessingIsOwned, TodoIsPending, [Next]_vars, NEW h \in Handlers,
                    handler'[h].pc \in {"loaded", "loop"}, NEW e \in handler'[h].todo
             PROVE  row'[handler'[h].job][e] = "pending"
  BY DEF TodoIsPending, AtWork
<1> QED  BY TodoRow DEF TodoIsPending, ProcessingIsOwned

SoundInv == OwnInv /\ ProcessingIsOwned /\ TodoIsPending

LEMMA SoundInit == Init => SoundInv
<1> SUFFICES ASSUME Init
             PROVE  ProcessingIsOwned /\ TodoIsPending
  BY OwnInit DEF SoundInv
<1> QED  BY DEF Init, ProcessingIsOwned, TodoIsPending, AtWork, IdleHandler

LEMMA SoundStep == OwnersAreSure /\ WorkersAreSound /\ SoundInv /\ [Next]_vars => SoundInv'
  BY OwnStep, ProcessingStep, PendingStep DEF SoundInv

\* While no worker fails and none is given up, every concept is written for an event
\* that no other handler, no sweep and no earlier attempt has settled, for any number
\* of redeliveries, retries and replayed requests (compile-job.ts, the pending filter
\* of createCompileJobHandler).
THEOREM OnlyPendingWritten ==
  ASSUME OwnersAreSure, WorkersAreSound
  PROVE  Spec => WritesOnlyPending
<1>1. ASSUME SoundInv, [Next]_vars, NEW j \in Jobs, NEW e \in Events, page'[j][e] # page[j][e]
      PROVE  row[j][e] = "pending"
  <2>1. PICK h \in Handlers, d \in Events : WritePage(h, d)
    BY <1>1, PageSteps
  <2>2. page \in [Jobs -> [Events -> Nat]]
    BY <1>1 DEF SoundInv, OwnInv, TypeOK
  <2>3. handler[h].job = j /\ d = e
    BY <1>1, <2>1, <2>2 DEF WritePage
  <2> QED  BY <1>1, <2>1, <2>3 DEF WritePage, SoundInv, TodoIsPending, AtWork
<1>2. SoundInv /\ [Next]_vars =>
        [\A j \in Jobs, e \in Events : page'[j][e] # page[j][e] => row[j][e] = "pending"]_vars
  BY <1>1
<1>3. SoundInv /\ [Next]_vars => SoundInv'
  BY SoundStep
<1> QED  BY <1>2, <1>3, SoundInit, PTL DEF Spec, WritesOnlyPending

-----------------------------------------------------------------------------
(* A job that is being submitted.                                          *)

\* A row is never deleted.
LEMMA NeverAbsentAgain ==
  ASSUME TypeOK, [Next]_vars, NEW j \in Jobs, status'[j] = "absent"
  PROVE  status[j] = "absent"
<1>1. status \in [Jobs -> JobStatus]
  BY DEF TypeOK
<1>2. ASSUME NEW h \in Handlers, ClaimJob(handler[h].job)
      PROVE  status[j] = "absent"
  BY <1>1, <1>2 DEF ClaimJob
<1>3. ASSUME NEW h \in Handlers, NEW s \in {"processing", "completed", "failed"}, NEW e,
             UpdateJobStatus(handler[h].job, s, e)
      PROVE  status[j] = "absent"
  BY <1>1, <1>3 DEF UpdateJobStatus
<1>4. ASSUME NEW s \in Sweepers, SweepJobs(s)
      PROVE  status[j] = "absent"
  BY <1>1, <1>4 DEF SweepJobs
<1>5. ASSUME NEW a \in Admins, ResetJob(a)
      PROVE  status[j] = "absent"
  BY <1>1, <1>5 DEF ResetJob
<1>6. ASSUME NEW p \in Producers, CreateJob(p)
      PROVE  status[j] = "absent"
  BY <1>1, <1>6 DEF CreateJob
<1> QED  BY <1>2, <1>3, <1>4, <1>5, <1>6, StatusSteps

\* A step of a handler moves that handler, which keeps its job or is gone.
LEMMA StepOfOne ==
  ASSUME TypeOK, NEW h \in Handlers, HandlerStep(h) \/ HandlerFault(h)
  PROVE  /\ \A k \in Handlers : k # h => handler'[k] = handler[k]
         /\ handler[h].pc # "idle"
         /\ \/ handler'[h].job = handler[h].job /\ handler'[h].send = handler[h].send
                 /\ handler'[h].late = handler[h].late /\ handler'[h].pc # "idle"
            \/ handler' = [handler EXCEPT ![h] = IdleHandler] /\ WorkerCrash(h)
<1>1. handler \in [Handlers -> HandlerState]
  BY DEF TypeOK
<1> DEFINE Goal == /\ \A k \in Handlers : k # h => handler'[k] = handler[k]
                   /\ handler[h].pc # "idle"
                   /\ handler'[h].job = handler[h].job /\ handler'[h].send = handler[h].send
                   /\ handler'[h].late = handler[h].late /\ handler'[h].pc # "idle"
<1>2. ASSUME NEW pc \in HandlerPC \ {"idle"}, Goto(h, pc), handler[h].pc # "idle"
      PROVE  Goal
  BY <1>1, <1>2 DEF Goto, HandlerState
<1>3. ASSUME NEW e, NEW outcome, Settle(h, e, outcome), handler[h].pc = "loop"
      PROVE  Goal
  BY <1>1, <1>3 DEF Settle, HandlerState
<1>4. CASE HandlerStep(h)
  <2>1. CASE Claim(h)
    BY <1>2, <2>1 DEF Claim, HandlerPC
  <2>2. CASE RejectJob(h) \/ StartCompiling(h) \/ Finish(h) \/ CatchFailsJob(h)
    BY <1>2, <2>2 DEF RejectJob, StartCompiling, Finish, FinishAt, CatchFailsJob, HandlerPC
  <2>3. CASE LoadPending(h)
    <3> DEFINE pending == PendingEvents(handler[h].job)
    <3>1. handler' = [handler EXCEPT ![h] =
            IF pending = {} THEN [@ EXCEPT !.pc = "reject", !.reason = "no_events_found"]
                            ELSE [@ EXCEPT !.pc = "loaded", !.todo = pending]]
          /\ handler[h].pc = "claimed"
      BY <2>3 DEF LoadPending
    <3> HIDE DEF pending
    <3>2. CASE pending = {}
      BY <1>1, <3>1, <3>2 DEF HandlerState
    <3>3. CASE pending # {}
      BY <1>1, <3>1, <3>3 DEF HandlerState
    <3> QED  BY <3>2, <3>3
  <2>4. CASE NoProvider(h)
    BY <1>1, <2>4 DEF NoProvider, HandlerState
  <2>5. ASSUME NEW e \in Events, WritePage(h, e)
        PROVE  Goal
    BY <1>1, <2>5 DEF WritePage, HandlerState
  <2>6. ASSUME NEW e \in Events, SettleWithoutPage(h, e) \/ RecordCompiled(h, e)
        PROVE  Goal
    BY <1>3, <2>6 DEF SettleWithoutPage, RecordCompiled
  <2> QED  BY <1>4, <2>1, <2>2, <2>3, <2>4, <2>5, <2>6 DEF HandlerStep
<1>5. CASE HandlerFault(h)
  <2>1. CASE ClaimAnswerLost(h) \/ FinishAnswerLost(h) \/ StatementThrows(h) \/ CatchWriteThrows(h)
    BY <1>2, <2>1 DEF ClaimAnswerLost, FinishAnswerLost, FinishAt, StatementThrows,
                      CatchWriteThrows, HandlerPC
  <2>2. ASSUME NEW e \in Events, RecordCompiledThrows(h, e)
        PROVE  Goal
    BY <1>3, <2>2 DEF RecordCompiledThrows
  <2>3. CASE WorkerCrash(h)
    BY <1>1, <2>3 DEF WorkerCrash
  <2> QED  BY <1>5, <2>1, <2>2, <2>3 DEF HandlerFault
<1> QED  BY <1>4, <1>5

\* A handler comes to a job by a delivery ...
LEMMA HandlerJobs ==
  ASSUME TypeOK, [Next]_vars, NEW h \in Handlers, handler'[h].pc # "idle"
  PROVE  \/ handler[h].pc # "idle" /\ handler'[h].job = handler[h].job
         \/ \E n \in Sends : handler'[h].job \in Jobs /\ msg[handler'[h].job][n].state = "ready"
<1> DEFINE Kept(k) == handler[k].pc # "idle" /\ handler'[k].job = handler[k].job
           Goal == \/ Kept(h)
                   \/ \E n \in Sends : handler'[h].job \in Jobs /\ msg[handler'[h].job][n].state = "ready"
<1>1. handler \in [Handlers -> HandlerState]
  BY DEF TypeOK
<1>2. CASE UNCHANGED handler
  BY <1>2
<1>3. ASSUME NEW g \in Handlers, \A k \in Handlers : k # g => handler'[k] = handler[k],
             g = h => handler[g].pc # "idle" /\ handler'[g].job = handler[g].job
      PROVE  Goal
  BY <1>3
<1>4. ASSUME NEW g \in Handlers, handler' = [handler EXCEPT ![g] = IdleHandler]
      PROVE  Goal
  BY <1>1, <1>4 DEF IdleHandler
<1>5. CASE Queue
  <2>1. ASSUME NEW g \in Handlers, NEW j \in Jobs, NEW n \in Sends, Deliver(g, j, n)
        PROVE  Goal
    BY <1>1, <2>1 DEF Deliver, IdleHandler
  <2>2. ASSUME NEW g \in Handlers, ExpireOverrun(g)
        PROVE  Goal
    BY <1>1, <2>2 DEF ExpireOverrun, HandlerState
  <2> QED  BY <1>2, <1>4, <1>5, <2>1, <2>2 DEF Queue, ExpireAbandoned, Acknowledge, Reject, actors
<1>6. ASSUME NEW g \in Handlers, HandlerStep(g) \/ HandlerFault(g)
      PROVE  Goal
  <2>1. /\ \A k \in Handlers : k # g => handler'[k] = handler[k]
        /\ handler[g].pc # "idle"
    BY <1>1, <1>6, StepOfOne
  <2>2. CASE handler'[g].job = handler[g].job
    BY <1>3, <2>1, <2>2
  <2>3. CASE handler' = [handler EXCEPT ![g] = IdleHandler]
    BY <1>4, <2>3
  <2> QED  BY <1>6, <2>2, <2>3, StepOfOne
<1>7. CASE Sweeper
  BY <1>2, <1>7 DEF Sweeper, AgeAbandoned, AgeOverrun, SweepJobs, SweepRows, SweeperCrash, actors
<1>8. ASSUME NEW a \in Admins, Admin(a)
      PROVE  UNCHANGED handler
  BY <1>8 DEF Admin, RetryRead, RetryReadEvents, ResetJob, ResetRows, RetrySend, AdminCrash
<1>9. ASSUME NEW p \in Producers, Producer(p)
      PROVE  UNCHANGED handler
  BY <1>9 DEF Producer, Submit, CreateJob, CreateJobLosesRace, CreateRow, EnqueueSend,
              NextRequest, ProducerCrash
<1>10. CASE UNCHANGED vars
  BY <1>2, <1>10 DEF vars, actors
<1> QED  BY <1>2, <1>5, <1>6, <1>7, <1>8, <1>9, <1>10 DEF Next

\* ... and a retry by reading it terminal.
LEMMA AdminJobs ==
  ASSUME TypeOK, [Next]_vars, NEW a \in Admins, admin'[a].pc # "idle"
  PROVE  \/ admin[a].pc # "idle" /\ admin'[a].job = admin[a].job
         \/ admin'[a].job \in Jobs /\ status[admin'[a].job] \in Terminal
<1> DEFINE Goal == \/ admin[a].pc # "idle" /\ admin'[a].job = admin[a].job
                   \/ admin'[a].job \in Jobs /\ status[admin'[a].job] \in Terminal
<1>1. admin \in [Admins -> AdminState]
  BY DEF TypeOK
<1>2. CASE UNCHANGED admin
  BY <1>2
<1>3. CASE Queue
  BY <1>2, <1>3 DEF Queue, Deliver, ExpireAbandoned, ExpireOverrun, Acknowledge, Reject, actors
<1>4. ASSUME NEW h \in Handlers, HandlerStep(h) \/ HandlerFault(h)
      PROVE  UNCHANGED admin
  BY <1>4 DEF HandlerStep, Claim, LoadPending, NoProvider, RejectJob, StartCompiling,
       SettleWithoutPage, WritePage, RecordCompiled, Settle, Finish, FinishAt, CatchFailsJob,
       HandlerFault, ClaimAnswerLost, FinishAnswerLost, StatementThrows, RecordCompiledThrows,
       CatchWriteThrows, WorkerCrash
<1>5. CASE Sweeper
  BY <1>2, <1>5 DEF Sweeper, AgeAbandoned, AgeOverrun, SweepJobs, SweepRows, SweeperCrash, actors
<1>6. ASSUME NEW b \in Admins, Admin(b)
      PROVE  Goal
  <2>1. ASSUME NEW j \in Jobs, NEW mode \in RetryMode, RetryRead(b, j, mode)
        PROVE  Goal
    BY <1>1, <2>1 DEF RetryRead, IdleAdmin
  <2>2. CASE RetryReadEvents(b)
    <3>1. \/ admin' = [admin EXCEPT ![b] = [@ EXCEPT !.pc = "reset"]]
          \/ admin' = [admin EXCEPT ![b] = IdleAdmin]
      BY <2>2 DEF RetryReadEvents
    <3>2. admin[b].pc # "idle"
      BY <2>2 DEF RetryReadEvents
    <3> QED  BY <1>1, <3>1, <3>2 DEF IdleAdmin, AdminState
  <2>3. CASE ResetJob(b) \/ ResetRows(b) \/ RetrySend(b) \/ AdminCrash(b)
    BY <1>1, <2>3 DEF ResetJob, ResetRows, RetrySend, AdminCrash, IdleAdmin, AdminState
  <2> QED  BY <1>6, <2>1, <2>2, <2>3 DEF Admin
<1>7. ASSUME NEW p \in Producers, Producer(p)
      PROVE  UNCHANGED admin
  BY <1>7 DEF Producer, Submit, CreateJob, CreateJobLosesRace, CreateRow, EnqueueSend,
              NextRequest, ProducerCrash
<1>8. CASE UNCHANGED vars
  BY <1>2, <1>8 DEF vars, actors
<1> QED  BY <1>2, <1>3, <1>4, <1>5, <1>6, <1>7, <1>8 DEF Next

\* Only the message of its submission lets anyone touch a job.
LEMMA UntouchedStep ==
  ASSUME TypeOK, [Next]_vars, NEW j \in Jobs, Untouched(j),
         \A p \in Producers : producer[p].job = j => ~EnqueueSend(p)
  PROVE  Untouched(j)'
<1>1. /\ status \in [Jobs -> JobStatus] /\ row \in [Jobs -> [Events -> RowStatus]]
      /\ msg \in MsgType
      /\ handler \in [Handlers -> HandlerState]
      /\ admin \in [Admins -> AdminState]
      /\ producer \in [Producers -> ProducerState]
      /\ sweep \in [Sweepers -> SUBSET Jobs]
      /\ \A p \in Producers : producer[p].pc # "idle" => producer[p].job \in Jobs
      /\ \A h \in Handlers : handler[h].pc # "idle" => handler[h].job \in Jobs
      /\ \A a \in Admins : admin[a].pc # "idle" => admin[a].job \in Jobs
  BY DEF TypeOK, MsgType, Message
<1>2. /\ status[j] \in {"absent", "queued"}
      /\ \A e \in Events : row[j][e] # "compiled"
      /\ \A n \in Sends : msg[j][n].state = "unsent"
      /\ \A h \in Handlers : handler[h].pc # "idle" => handler[h].job # j
      /\ \A a \in Admins : admin[a].pc # "idle" => admin[a].job # j
  BY DEF Untouched
<1>3. status'[j] \in {"absent", "queued"}
  <2>1. ASSUME NEW h \in Handlers, handler[h].pc # "idle", ClaimJob(handler[h].job)
        PROVE  status'[j] = status[j]
    BY <1>1, <1>2, <2>1 DEF ClaimJob
  <2>2. ASSUME NEW h \in Handlers, handler[h].pc # "idle", NEW s, NEW e,
               UpdateJobStatus(handler[h].job, s, e)
        PROVE  status'[j] = status[j]
    BY <1>1, <1>2, <2>2 DEF UpdateJobStatus
  <2>3. ASSUME NEW s \in Sweepers, SweepJobs(s)
        PROVE  status'[j] = status[j]
    BY <1>1, <1>2, <2>3 DEF SweepJobs, Stale
  <2>4. ASSUME NEW a \in Admins, ResetJob(a)
        PROVE  status'[j] = status[j]
    BY <1>1, <1>2, <2>4 DEF ResetJob
  <2>5. ASSUME NEW p \in Producers, CreateJob(p)
        PROVE  status'[j] \in {"absent", "queued"}
    BY <1>1, <1>2, <2>5 DEF CreateJob
  <2> QED  BY <1>2, <2>1, <2>2, <2>3, <2>4, <2>5, StatusSteps DEF Begun
<1>4. \A e \in Events : row'[j][e] # "compiled"
  <2>1. ASSUME NEW h \in Handlers, NEW d \in Events, NEW outcome, handler[h].pc = "loop",
               Settle(h, d, outcome)
        PROVE  row'[j] = row[j]
    BY <1>1, <1>2, <2>1 DEF Settle, UpsertJobEvent
  <2>2. ASSUME NEW s \in Sweepers, SweepRows(s), NEW e \in Events
        PROVE  row'[j][e] # "compiled"
    BY <1>2, <2>2 DEF SweepRows, Swept
  <2>3. ASSUME NEW a \in Admins, ResetRows(a)
        PROVE  row'[j] = row[j]
    BY <1>1, <1>2, <2>3 DEF ResetRows
  <2>4. ASSUME NEW p \in Producers, NEW d \in Events, CreateRow(p, d), NEW e \in Events
        PROVE  row'[j][e] # "compiled"
    BY <1>1, <1>2, <2>4 DEF CreateRow, UpsertJobEvent
  <2> QED  BY <1>2, <2>1, <2>2, <2>3, <2>4, RowSteps
<1>5. \A n \in Sends : msg'[j][n].state = "unsent"
  <2>1. ASSUME NEW k \in Jobs \ {j}, NEW n \in Sends, Redeliver(k, n)
        PROVE  msg'[j] = msg[j]
    BY <1>1, <2>1 DEF Redeliver, MsgType
  <2>2. ASSUME NEW k \in Jobs \ {j}, NEW n \in Sends, Send(k, n)
        PROVE  msg'[j] = msg[j]
    BY <1>1, <2>2 DEF Send, MsgType
  <2>3. CASE Queue
    <3>1. ASSUME NEW h \in Handlers, NEW k \in Jobs, NEW n \in Sends, Deliver(h, k, n)
          PROVE  msg'[j] = msg[j]
      BY <1>1, <1>2, <3>1 DEF Deliver, MsgType
    <3>2. ASSUME NEW k \in Jobs, NEW n \in Sends, ExpireAbandoned(k, n)
          PROVE  msg'[j] = msg[j]
      BY <1>2, <2>1, <3>2 DEF ExpireAbandoned
    <3>3. ASSUME NEW h \in Handlers, ExpireOverrun(h)
          PROVE  msg'[j] = msg[j]
      <4>1. handler[h].job \in Jobs \ {j} /\ handler[h].send \in Sends
        BY <1>1, <1>2, <3>3 DEF ExpireOverrun, HandlerState
      <4> QED  BY <2>1, <3>3, <4>1 DEF ExpireOverrun
    <3>4. ASSUME NEW h \in Handlers, Acknowledge(h)
          PROVE  msg'[j] = msg[j]
      BY <1>1, <1>2, <3>4 DEF Acknowledge, MsgType
    <3>5. ASSUME NEW h \in Handlers, Reject(h)
          PROVE  msg'[j] = msg[j]
      <4>1. handler[h].job \in Jobs \ {j} /\ handler[h].send \in Sends
        BY <1>1, <1>2, <3>5 DEF Reject, HandlerState
      <4> QED  BY <2>1, <3>5, <4>1 DEF Reject
    <3> QED  BY <1>2, <2>3, <3>1, <3>2, <3>3, <3>4, <3>5 DEF Queue
  <2>4. ASSUME NEW h \in Handlers, HandlerStep(h) \/ HandlerFault(h)
        PROVE  UNCHANGED msg
    BY <2>4 DEF HandlerStep, Claim, LoadPending, NoProvider, RejectJob, StartCompiling,
         SettleWithoutPage, WritePage, RecordCompiled, Settle, Finish, FinishAt, CatchFailsJob,
         HandlerFault, ClaimAnswerLost, FinishAnswerLost, StatementThrows, RecordCompiledThrows,
         CatchWriteThrows, WorkerCrash
  <2>5. CASE Sweeper
    BY <1>2, <2>5 DEF Sweeper, AgeAbandoned, AgeOverrun, SweepJobs, SweepRows, SweeperCrash
  <2>6. ASSUME NEW a \in Admins, Admin(a)
        PROVE  msg'[j] = msg[j]
    <3>1. CASE RetrySend(a)
      <4>1. admin[a].job \in Jobs \ {j} /\ RetryMessage(a) \in Sends
        BY <1>1, <1>2, <3>1 DEF RetrySend, RetryMessage, AdminState
      <4> QED  BY <2>2, <3>1, <4>1 DEF RetrySend
    <3> QED  BY <2>6, <3>1 DEF Admin, RetryRead, RetryReadEvents, ResetJob, ResetRows, AdminCrash
  <2>7. ASSUME NEW p \in Producers, Producer(p)
        PROVE  msg'[j] = msg[j]
    <3>1. CASE EnqueueSend(p)
      <4>1. producer[p].job # j
        BY <3>1
      <4>2. producer[p].job \in Jobs
        BY <1>1, <3>1 DEF EnqueueSend
      <4>3. 0 \in Sends
        BY BoundsAssumption DEF Sends
      <4> QED  BY <2>2, <3>1, <4>1, <4>2, <4>3 DEF EnqueueSend
    <3> QED  BY <2>7, <3>1 DEF Producer, Submit, CreateJob, CreateJobLosesRace, CreateRow,
                               NextRequest, ProducerCrash
  <2>8. CASE UNCHANGED vars
    BY <1>2, <2>8 DEF vars
  <2> QED  BY <1>2, <2>3, <2>4, <2>5, <2>6, <2>7, <2>8 DEF Next
<1>6. ASSUME NEW h \in Handlers, handler'[h].pc # "idle"
      PROVE  handler'[h].job # j
  BY <1>2, <1>6, HandlerJobs
<1>7. ASSUME NEW a \in Admins, admin'[a].pc # "idle"
      PROVE  admin'[a].job # j
  BY <1>2, <1>7, AdminJobs DEF Terminal
<1> QED  BY <1>3, <1>4, <1>5, <1>6, <1>7 DEF Untouched

\* A job that does not exist yet has no message, no handler and no retry.
LEMMA AbsentStep ==
  ASSUME TypeOK, AbsentIsUntouched, RowsAreCreated, [Next]_vars
  PROVE  AbsentIsUntouched'
<1> SUFFICES ASSUME NEW j \in Jobs, status'[j] = "absent"
             PROVE  Untouched(j)'
  BY DEF AbsentIsUntouched
<1>1. status[j] = "absent" /\ Untouched(j)
  BY NeverAbsentAgain DEF AbsentIsUntouched
<1>2. ASSUME NEW p \in Producers, producer[p].job = j, EnqueueSend(p)
      PROVE  FALSE
  BY <1>1, <1>2 DEF RowsAreCreated, EnqueueSend
<1> QED  BY <1>1, <1>2, UntouchedStep

\* What a request is about, and when it has come to its event rows.
LEMMA ProducerSteps ==
  ASSUME TypeOK, [Next]_vars, NEW p \in Producers
  PROVE  \/ producer'[p] = producer[p]
         \/ producer'[p].pc = "idle"
         \/ producer'[p].pc = "answered"
         \/ producer'[p].pc = "create" /\ producer'[p].job \in Jobs
              /\ status[producer'[p].job] = "absent"
         \/ /\ producer'[p].pc = "rows" /\ producer'[p].job = producer[p].job
            /\ CreateJob(p) \/ producer[p].pc = "rows"
<1> DEFINE Goal ==
      \/ producer'[p] = producer[p]
      \/ producer'[p].pc = "idle"
      \/ producer'[p].pc = "answered"
      \/ producer'[p].pc = "create" /\ producer'[p].job \in Jobs
           /\ status[producer'[p].job] = "absent"
      \/ /\ producer'[p].pc = "rows" /\ producer'[p].job = producer[p].job
         /\ CreateJob(p) \/ producer[p].pc = "rows"
<1>1. producer \in [Producers -> ProducerState]
  BY DEF TypeOK
<1>2. CASE UNCHANGED producer
  BY <1>2
<1>3. CASE Queue
  BY <1>2, <1>3 DEF Queue, Deliver, ExpireAbandoned, ExpireOverrun, Acknowledge, Reject, actors
<1>4. ASSUME NEW h \in Handlers, HandlerStep(h) \/ HandlerFault(h)
      PROVE  UNCHANGED producer
  BY <1>4 DEF HandlerStep, Claim, LoadPending, NoProvider, RejectJob, StartCompiling,
       SettleWithoutPage, WritePage, RecordCompiled, Settle, Finish, FinishAt, CatchFailsJob,
       HandlerFault, ClaimAnswerLost, FinishAnswerLost, StatementThrows, RecordCompiledThrows,
       CatchWriteThrows, WorkerCrash
<1>5. CASE Sweeper
  BY <1>2, <1>5 DEF Sweeper, AgeAbandoned, AgeOverrun, SweepJobs, SweepRows, SweeperCrash, actors
<1>6. ASSUME NEW a \in Admins, Admin(a)
      PROVE  UNCHANGED producer
  BY <1>6 DEF Admin, RetryRead, RetryReadEvents, ResetJob, ResetRows, RetrySend, AdminCrash
<1>7. ASSUME NEW q \in Producers, Producer(q)
      PROVE  Goal
  <2>1. ASSUME NEW j \in Jobs, Submit(q, j)
        PROVE  Goal
    <3>1. CASE q = p
      <4>1. CASE status[j] = "absent"
        BY <1>1, <2>1, <3>1, <4>1 DEF Submit
      <4>2. CASE status[j] # "absent"
        BY <1>1, <2>1, <3>1, <4>2 DEF Submit
      <4> QED  BY <4>1, <4>2
    <3>2. CASE q # p
      BY <1>1, <2>1, <3>2 DEF Submit
    <3> QED  BY <3>1, <3>2
  <2>2. CASE CreateJob(q)
    BY <1>1, <2>2 DEF CreateJob, ProducerState
  <2>3. CASE CreateJobLosesRace(q) \/ NextRequest(q) \/ ProducerCrash(q)
    BY <1>1, <2>3 DEF CreateJobLosesRace, NextRequest, ProducerCrash, IdleProducer
  <2>4. ASSUME NEW e \in Events, CreateRow(q, e)
        PROVE  Goal
    BY <1>1, <2>4 DEF CreateRow, ProducerState
  <2>5. CASE EnqueueSend(q)
    BY <1>1, <2>5 DEF EnqueueSend, ProducerState
  <2> QED  BY <1>7, <2>1, <2>2, <2>3, <2>4, <2>5 DEF Producer
<1>8. CASE UNCHANGED vars
  BY <1>2, <1>8 DEF vars, actors
<1> QED  BY <1>2, <1>3, <1>4, <1>5, <1>6, <1>7, <1>8 DEF Next

\* A request comes to its event rows by creating the job, or by finding it there.
LEMMA CreatedStep ==
  ASSUME TypeOK, RowsAreCreated, [Next]_vars
  PROVE  RowsAreCreated'
<1> SUFFICES ASSUME NEW p \in Producers, producer'[p].pc = "rows",
                    status'[producer'[p].job] = "absent"
             PROVE  FALSE
  BY DEF RowsAreCreated
<1>1. /\ producer' \in [Producers -> ProducerState] /\ status \in [Jobs -> JobStatus]
      /\ producer'[p].job \in Jobs
  BY NextType DEF TypeOK
<1>2. status[producer'[p].job] = "absent"
  BY <1>1, NeverAbsentAgain
<1>3. CASE CreateJob(p) /\ producer'[p].job = producer[p].job
  BY <1>1, <1>3 DEF CreateJob
<1> QED  BY <1>2, <1>3, ProducerSteps DEF RowsAreCreated

\* While requests come one at a time, the job a request submits is its own.
OneProducer == \A p, q \in Producers : p = q
LEMMA SubmittedStep ==
  ASSUME OneProducer, TypeOK, AbsentIsUntouched, SubmittedIsUntouched, [Next]_vars
  PROVE  SubmittedIsUntouched'
<1>0. /\ producer \in [Producers -> ProducerState]
      /\ producer' \in [Producers -> ProducerState]
      /\ \A p \in Producers : producer'[p].pc # "idle" => producer'[p].job \in Jobs
  BY NextType DEF TypeOK
<1>1. SUFFICES ASSUME NEW p \in Producers, producer'[p].pc \in {"create", "rows"},
                      NEW j \in Jobs, producer'[p].job = j
               PROVE  Untouched(j)'
  BY <1>0 DEF SubmittedIsUntouched, Untouched
<1>2. ASSUME NEW q \in Producers, EnqueueSend(q)
      PROVE  FALSE
  <2>1. q = p
    BY DEF OneProducer
  <2>2. producer'[p].pc = "answered"
    BY <1>0, <1>2, <2>1 DEF EnqueueSend, ProducerState
  <2> QED  BY <1>1, <2>2
<1>3. Untouched(j)
  <2>1. CASE producer'[p] = producer[p]
    BY <1>1, <2>1 DEF SubmittedIsUntouched
  <2>2. CASE status[j] = "absent"
    BY <2>2 DEF AbsentIsUntouched
  <2>3. CASE j = producer[p].job /\ (CreateJob(p) \/ producer[p].pc = "rows")
    BY <2>3 DEF SubmittedIsUntouched, CreateJob
  <2> QED  BY <1>1, <2>1, <2>2, <2>3, ProducerSteps
<1> QED  BY <1>2, <1>3, UntouchedStep

CompiledInv == /\ OwnInv
               /\ TodoIsNotCompiled
               /\ AbsentIsUntouched
               /\ RowsAreCreated
               /\ SubmittedIsUntouched

LEMMA CompiledInit == Init => CompiledInv
<1> SUFFICES ASSUME Init
             PROVE  /\ TodoIsNotCompiled /\ AbsentIsUntouched
                    /\ RowsAreCreated /\ SubmittedIsUntouched
  BY OwnInit DEF CompiledInv
<1>1. \A h \in Handlers : handler[h].pc = "idle"
  BY DEF Init, IdleHandler
<1>2. \A a \in Admins : admin[a].pc = "idle"
  BY DEF Init, IdleAdmin
<1>3. \A p \in Producers : producer[p].pc = "idle"
  BY DEF Init, IdleProducer
<1>4. \A j \in Jobs : Untouched(j)
  BY <1>1, <1>2 DEF Init, Untouched
<1> QED  BY <1>1, <1>3, <1>4 DEF TodoIsNotCompiled, AtWork, AbsentIsUntouched, RowsAreCreated,
                                 SubmittedIsUntouched

LEMMA CompiledStep ==
  ASSUME OwnersAreSure, OneProducer, CompiledInv, [Next]_vars
  PROVE  CompiledInv'
<1>1. TypeOK
  BY DEF CompiledInv, OwnInv
<1> QED  BY <1>1, OwnStep, TodoStep, AbsentStep, CreatedStep, SubmittedStep DEF CompiledInv

\* 'Retry failed' never pays for a compiled event again: while handlers are not given
\* up and no answer is lost, and requests come one at a time, a compiled row changes
\* only at the hands of a 'Retry all' (job-retry.ts:14-20), however many handlers, sweeps
\* and retries there are and whoever crashes.  (Two requests with one key can undo it:
\* see ReplayKeepsOutcomes.)
THEOREM CompiledIsKept ==
  ASSUME OwnersAreSure, OneProducer
  PROVE  Spec => CompiledStays
<1> DEFINE ByRetryAll(j) ==
      \E a \in Admins : admin[a].pc = "rows" /\ admin[a].job = j /\ admin[a].mode = "all"
<1>1. ASSUME CompiledInv, [Next]_vars, NEW j \in Jobs, NEW e \in Events,
             row[j][e] = "compiled", row'[j][e] # "compiled"
      PROVE  ByRetryAll(j)
  <2>1. /\ row \in [Jobs -> [Events -> RowStatus]] /\ TypeOK /\ WrittenIsTodo
        /\ \A h \in Handlers : handler[h].pc # "idle" => handler[h].job \in Jobs
    BY <1>1 DEF CompiledInv, OwnInv, TypeOK
  <2>2. ASSUME NEW h \in Handlers, NEW d \in Events, NEW outcome, handler[h].pc = "loop",
               d \in handler[h].todo \cup handler[h].written, Settle(h, d, outcome)
        PROVE  FALSE
    <3>1. handler[h].job = j /\ d = e
      BY <1>1, <2>1, <2>2 DEF Settle, UpsertJobEvent
    <3>2. e \in handler[h].todo
      BY <2>1, <2>2, <3>1 DEF WrittenIsTodo
    <3> QED  BY <1>1, <2>2, <3>1, <3>2 DEF CompiledInv, TodoIsNotCompiled, AtWork
  <2>3. ASSUME NEW s \in Sweepers, SweepRows(s)
        PROVE  FALSE
    BY <1>1, <2>3 DEF SweepRows, Swept
  <2>4. ASSUME NEW a \in Admins, ResetRows(a)
        PROVE  ByRetryAll(j)
    <3>1. admin[a].pc = "rows" /\ admin[a].job = j
      BY <1>1, <2>1, <2>4 DEF ResetRows
    <3>2. Targeted(admin[a].mode, "compiled")
      BY <1>1, <2>1, <2>4, <3>1 DEF ResetRows
    <3>3. admin[a].mode \in RetryMode
      BY <2>1 DEF TypeOK, AdminState
    <3> QED  BY <3>1, <3>2, <3>3 DEF Targeted, RetryMode
  <2>5. ASSUME NEW p \in Producers, NEW d \in Events, CreateRow(p, d)
        PROVE  FALSE
    <3>1. producer[p].job = j /\ producer[p].pc = "rows"
      BY <1>1, <2>1, <2>5 DEF CreateRow, UpsertJobEvent
    <3> QED  BY <1>1, <3>1 DEF CompiledInv, SubmittedIsUntouched, Untouched
  <2> QED  BY <1>1, <2>2, <2>3, <2>4, <2>5, RowSteps
<1>2. CompiledInv /\ [Next]_vars =>
        [\A j \in Jobs, e \in Events :
           row[j][e] = "compiled" /\ row'[j][e] # "compiled" => ByRetryAll(j)]_vars
  BY <1>1
<1>3. CompiledInv /\ [Next]_vars => CompiledInv'
  BY CompiledStep
<1> QED  BY <1>2, <1>3, CompiledInit, PTL DEF Spec, CompiledStays

-----------------------------------------------------------------------------
(* A queued job is announced.                                              *)

\* The steps, by what they do to the queue.
LEMMA QueueSteps ==
  ASSUME [Next]_vars
  PROVE  \/ Queue
         \/ UNCHANGED msg /\ \E h \in Handlers : HandlerStep(h) \/ HandlerFault(h)
         \/ UNCHANGED handler /\ UNCHANGED faults /\ \E a \in Admins : RetrySend(a)
         \/ UNCHANGED handler /\ UNCHANGED faults /\ \E p \in Producers : EnqueueSend(p)
         \/ UNCHANGED <<msg, handler>>
<1> USE DEF actors
<1>1. CASE UNCHANGED vars
  BY <1>1 DEF vars
<1>2. ASSUME NEW h \in Handlers, HandlerStep(h) \/ HandlerFault(h)
      PROVE  UNCHANGED msg
  BY <1>2 DEF HandlerStep, Claim, LoadPending, NoProvider, RejectJob, StartCompiling,
       SettleWithoutPage, WritePage, RecordCompiled, Settle, Finish, FinishAt, CatchFailsJob,
       HandlerFault, ClaimAnswerLost, FinishAnswerLost, StatementThrows, RecordCompiledThrows,
       CatchWriteThrows, WorkerCrash
<1>3. CASE Sweeper
  BY <1>3 DEF Sweeper, AgeAbandoned, AgeOverrun, SweepJobs, SweepRows, SweeperCrash
<1>4. ASSUME NEW a \in Admins, Admin(a)
      PROVE  UNCHANGED <<msg, handler>> \/ (RetrySend(a) /\ UNCHANGED <<handler, faults>>)
  <2>1. RetrySend(a) => UNCHANGED <<handler, faults>>
    BY DEF RetrySend
  <2>2. RetrySend(a) \/ UNCHANGED <<msg, handler>>
    BY <1>4 DEF Admin, RetryRead, RetryReadEvents, ResetJob, ResetRows, AdminCrash
  <2> QED  BY <2>1, <2>2
<1>5. ASSUME NEW p \in Producers, Producer(p)
      PROVE  UNCHANGED <<msg, handler>> \/ (EnqueueSend(p) /\ UNCHANGED <<handler, faults>>)
  <2>1. EnqueueSend(p) => UNCHANGED <<handler, faults>>
    BY DEF EnqueueSend
  <2>2. EnqueueSend(p) \/ UNCHANGED <<msg, handler>>
    BY <1>5 DEF Producer, Submit, CreateJob, CreateJobLosesRace, CreateRow, NextRequest,
                ProducerCrash
  <2> QED  BY <2>1, <2>2
<1> QED  BY <1>1, <1>2, <1>3, <1>4, <1>5 DEF Next

\* Faults are only ever added.
LEMMA FaultsGrow ==
  ASSUME TypeOK, [Next]_vars
  PROVE  faults \in Nat /\ faults' \in Nat /\ faults' >= faults /\ faults' <= MaxFaults
<1>1. faults \in 0 .. MaxFaults /\ faults' \in 0 .. MaxFaults
  BY NextType DEF TypeOK
<1>2. ASSUME NEW f, Fault(f)
      PROVE  faults' >= faults
  BY <1>1, <1>2, BoundsAssumption DEF Fault
<1>3. UNCHANGED faults \/ \E f \in AllFaults : Fault(f)
  <2> USE DEF NoFault, AllFaults
  <2>1. CASE Queue
    BY <2>1 DEF Queue, Deliver, ExpireAbandoned, ExpireOverrun, Acknowledge, Reject
  <2>2. ASSUME NEW h \in Handlers, HandlerStep(h)
        PROVE  UNCHANGED faults
    BY <2>2 DEF HandlerStep, Claim, LoadPending, NoProvider, RejectJob, StartCompiling,
         SettleWithoutPage, WritePage, RecordCompiled, Finish, CatchFailsJob
  <2>3. ASSUME NEW h \in Handlers, HandlerFault(h)
        PROVE  \E f \in AllFaults : Fault(f)
    BY <2>3 DEF HandlerFault, ClaimAnswerLost, FinishAnswerLost, StatementThrows,
         RecordCompiledThrows, CatchWriteThrows, WorkerCrash
  <2>4. CASE Sweeper
    BY <2>4 DEF Sweeper, AgeAbandoned, AgeOverrun, SweepJobs, SweepRows, SweeperCrash
  <2>5. ASSUME NEW a \in Admins, Admin(a)
        PROVE  UNCHANGED faults \/ \E f \in AllFaults : Fault(f)
    BY <2>5 DEF Admin, RetryRead, RetryReadEvents, ResetJob, ResetRows, RetrySend, AdminCrash
  <2>6. ASSUME NEW p \in Producers, Producer(p)
        PROVE  UNCHANGED faults \/ \E f \in AllFaults : Fault(f)
    BY <2>6 DEF Producer, Submit, CreateJob, CreateJobLosesRace, CreateRow, EnqueueSend,
                NextRequest, ProducerCrash
  <2>7. CASE UNCHANGED vars
    BY <2>7 DEF vars
  <2> QED  BY <2>1, <2>2, <2>3, <2>4, <2>5, <2>6, <2>7 DEF Next
<1> QED  BY <1>1, <1>2, <1>3, BoundsAssumption

\* Sending a message changes it from unsent to ready, and no other.
LEMMA SendSends ==
  ASSUME msg \in MsgType, NEW k \in Jobs, NEW m \in Sends, Send(k, m), NEW j \in Jobs, NEW n \in Sends
  PROVE  \/ msg'[j][n] = msg[j][n]
         \/ /\ j = k /\ n = m /\ msg[j][n].state = "unsent"
            /\ msg'[j][n].state = "ready" /\ msg'[j][n].left = msg[j][n].left
<1>1. /\ msg[k] \in [Sends -> Message] /\ msg[k][m] \in Message /\ msg[j] \in [Sends -> Message]
  BY DEF MsgType
<1>2. CASE msg[k][m].state = "unsent"
  <2>1. msg' = [msg EXCEPT ![k][m].state = "ready"]
    BY <1>2 DEF Send
  <2>2. CASE j = k /\ n = m
    BY <1>1, <1>2, <2>1, <2>2 DEF MsgType, Message
  <2>3. CASE j # k \/ n # m
    BY <1>1, <2>1, <2>3 DEF MsgType
  <2> QED  BY <2>2, <2>3
<1>3. CASE msg[k][m].state # "unsent"
  BY <1>3 DEF Send
<1> QED  BY <1>2, <1>3

\* Giving a delivery up changes one message, which is ready again or dead.
LEMMA RedeliverMoves ==
  ASSUME msg \in MsgType, NEW k \in Jobs, NEW m \in Sends, Redeliver(k, m)
  PROVE  /\ \A j \in Jobs, n \in Sends : j # k \/ n # m => msg'[j][n] = msg[j][n]
         /\ msg'[k][m].state \in {"ready", "dead"}
         /\ msg[k][m].left > 0 =>
              msg'[k][m].state = "ready" /\ msg'[k][m].left = msg[k][m].left - 1
<1> DEFINE r == IF Exhausted(msg[k][m]) THEN [msg[k][m] EXCEPT !.state = "dead"]
                ELSE [state |-> "ready", left |-> msg[k][m].left - 1]
<1>1. /\ msg[k] \in [Sends -> Message] /\ msg[k][m] \in Message
  BY DEF MsgType
<1>2. msg' = [msg EXCEPT ![k][m] = r]
  BY DEF Redeliver
<1>3. /\ r.state \in {"ready", "dead"}
      /\ msg[k][m].left > 0 => r.state = "ready" /\ r.left = msg[k][m].left - 1
  BY <1>1, BoundsAssumption DEF Exhausted, Message
<1> HIDE DEF r
<1>4. msg'[k][m] = r
  BY <1>1, <1>2 DEF MsgType
<1>5. \A j \in Jobs, n \in Sends : j # k \/ n # m => msg'[j][n] = msg[j][n]
  BY <1>1, <1>2 DEF MsgType
<1> QED  BY <1>3, <1>4, <1>5

\* What pg-boss believes of handler h: it has message n of job j.
LEMMA HeldFacts ==
  ASSUME TypeOK, HeldIsActive, NEW h \in Handlers, NEW j \in Jobs, NEW n \in Sends, Holds(h, j, n)
  PROVE  /\ msg[j][n].state = "active"
         /\ \A g \in Handlers : Holds(g, j, n) => g = h
  BY DEF HeldIsActive, Holds

\* The queue's own steps, message by message.
LEMMA QueueMoves ==
  ASSUME TypeOK, HeldIsActive, Queue, NEW j \in Jobs, NEW n \in Sends
  PROVE  \/ \E h \in Handlers : Deliver(h, j, n) /\ msg'[j][n].state = "active"
              /\ msg[j][n].state = "ready" /\ msg'[j][n].left = msg[j][n].left
         \/ ExpireAbandoned(j, n)
         \/ \E h \in Handlers : Holds(h, j, n) /\ (ExpireOverrun(h) \/ Reject(h)) /\ Redeliver(j, n)
         \/ \E h \in Handlers : Holds(h, j, n) /\ Acknowledge(h) /\ msg'[j][n].state = "done"
         \/ /\ msg'[j][n] = msg[j][n]
            /\ \A h \in Handlers : Holds(h, j, n)' <=> Holds(h, j, n)
            /\ \A h \in Handlers : Holds(h, j, n) => handler'[h] = handler[h]
<1> DEFINE Same == /\ msg'[j][n] = msg[j][n]
                   /\ \A h \in Handlers : Holds(h, j, n)' <=> Holds(h, j, n)
                   /\ \A h \in Handlers : Holds(h, j, n) => handler'[h] = handler[h]
<1>1. /\ handler \in [Handlers -> HandlerState] /\ msg \in MsgType
      /\ msg[j] \in [Sends -> Message] /\ msg[j][n] \in Message
      /\ \A h \in Handlers : handler[h].pc # "idle" => handler[h].job \in Jobs
      /\ \A h \in Handlers : handler[h].send \in Sends
      /\ \A k \in Jobs : msg[k] \in [Sends -> Message]
  BY DEF TypeOK, MsgType, Message, HandlerState
<1>2. ASSUME NEW h \in Handlers, NEW k \in Jobs, NEW m \in Sends, Deliver(h, k, m)
      PROVE  \/ Deliver(h, j, n) /\ msg'[j][n].state = "active"
                /\ msg[j][n].state = "ready" /\ msg'[j][n].left = msg[j][n].left
             \/ Same
  <2>1. CASE k = j /\ m = n
    BY <1>1, <1>2, <2>1 DEF Deliver, MsgType, Message
  <2>2. CASE k # j \/ m # n
    <3>1. msg'[j][n] = msg[j][n]
      BY <1>1, <1>2, <2>2 DEF Deliver, MsgType
    <3>2. /\ \A g \in Handlers : g # h => handler'[g] = handler[g]
          /\ handler[h].pc = "idle" /\ handler'[h].job = k /\ handler'[h].send = m
      BY <1>1, <1>2 DEF Deliver, IdleHandler
    <3> QED  BY <2>2, <3>1, <3>2 DEF Holds
  <2> QED  BY <2>1, <2>2
<1>3. ASSUME NEW k \in Jobs, NEW m \in Sends, ExpireAbandoned(k, m)
      PROVE  ExpireAbandoned(j, n) \/ Same
  <2>1. CASE k = j /\ m = n
    BY <1>3, <2>1
  <2>2. CASE k # j \/ m # n
    BY <1>1, <1>3, <2>2, RedeliverMoves DEF ExpireAbandoned, actors, Holds
  <2> QED  BY <2>1, <2>2
<1>4. ASSUME NEW h \in Handlers, ExpireOverrun(h)
      PROVE  \/ Holds(h, j, n) /\ ExpireOverrun(h) /\ Redeliver(j, n)
             \/ Same
  <2>1. handler[h].pc # "idle" /\ handler[h].job \in Jobs
    BY <1>1, <1>4 DEF ExpireOverrun
  <2>2. CASE handler[h].job = j /\ handler[h].send = n
    BY <1>4, <2>2 DEF ExpireOverrun
  <2>3. CASE handler[h].job # j \/ handler[h].send # n
    <3>1. msg'[j][n] = msg[j][n]
      BY <1>1, <1>4, <2>1, <2>3, RedeliverMoves DEF ExpireOverrun
    <3>2. /\ \A g \in Handlers : g # h => handler'[g] = handler[g]
          /\ handler'[h].job = handler[h].job /\ handler'[h].send = handler[h].send
      BY <1>1, <1>4 DEF ExpireOverrun, HandlerState
    <3> QED  BY <2>3, <3>1, <3>2 DEF Holds
  <2> QED  BY <2>2, <2>3
<1>5. ASSUME NEW h \in Handlers, Acknowledge(h)
      PROVE  \/ Holds(h, j, n) /\ Acknowledge(h) /\ msg'[j][n].state = "done"
             \/ Same
  <2>1. /\ \A g \in Handlers : g # h => handler'[g] = handler[g]
        /\ handler'[h].pc = "idle" /\ handler[h].pc # "idle" /\ handler[h].job \in Jobs
    BY <1>1, <1>5 DEF Acknowledge, IdleHandler
  <2>2. CASE handler[h].late
    BY <1>5, <2>1, <2>2 DEF Acknowledge, Holds
  <2>3. CASE ~handler[h].late /\ handler[h].job = j /\ handler[h].send = n
    BY <1>1, <1>5, <2>1, <2>3 DEF Acknowledge, Holds, MsgType, Message
  <2>4. CASE ~handler[h].late /\ (handler[h].job # j \/ handler[h].send # n)
    <3>1. msg'[j][n] = msg[j][n]
      BY <1>1, <1>5, <2>1, <2>4 DEF Acknowledge, MsgType
    <3> QED  BY <2>1, <2>4, <3>1 DEF Holds
  <2> QED  BY <2>2, <2>3, <2>4
<1>6. ASSUME NEW h \in Handlers, Reject(h)
      PROVE  \/ Holds(h, j, n) /\ Reject(h) /\ Redeliver(j, n)
             \/ Same
  <2>1. /\ \A g \in Handlers : g # h => handler'[g] = handler[g]
        /\ handler'[h].pc = "idle" /\ handler[h].pc # "idle" /\ handler[h].job \in Jobs
    BY <1>1, <1>6 DEF Reject, IdleHandler
  <2>2. CASE handler[h].late
    BY <1>6, <2>1, <2>2 DEF Reject, Holds
  <2>3. CASE ~handler[h].late /\ handler[h].job = j /\ handler[h].send = n
    BY <1>6, <2>1, <2>3 DEF Reject, Holds
  <2>4. CASE ~handler[h].late /\ (handler[h].job # j \/ handler[h].send # n)
    <3>1. msg'[j][n] = msg[j][n]
      BY <1>1, <1>6, <2>1, <2>4, RedeliverMoves DEF Reject
    <3> QED  BY <2>1, <2>4, <3>1 DEF Holds
  <2> QED  BY <2>2, <2>3, <2>4
<1> HIDE DEF Same
<1>7. \/ Same
      \/ \E h \in Handlers : Deliver(h, j, n) /\ msg'[j][n].state = "active"
           /\ msg[j][n].state = "ready" /\ msg'[j][n].left = msg[j][n].left
      \/ ExpireAbandoned(j, n)
      \/ \E h \in Handlers : Holds(h, j, n) /\ (ExpireOverrun(h) \/ Reject(h)) /\ Redeliver(j, n)
      \/ \E h \in Handlers : Holds(h, j, n) /\ Acknowledge(h) /\ msg'[j][n].state = "done"
  BY <1>2, <1>3, <1>4, <1>5, <1>6 DEF Queue
<1> QED  BY <1>7 DEF Same

\* Every delivery pg-boss counts as running is active, and made to one handler.
LEMMA HeldStep ==
  ASSUME TypeOK, HeldIsActive, [Next]_vars
  PROVE  HeldIsActive'
<1>1. /\ handler \in [Handlers -> HandlerState] /\ msg \in MsgType
      /\ handler' \in [Handlers -> HandlerState]
      /\ \A h \in Handlers : handler[h].pc # "idle" => handler[h].job \in Jobs
      /\ \A h \in Handlers : handler'[h].pc # "idle" => handler'[h].job \in Jobs
      /\ \A h \in Handlers : handler[h].send \in Sends
      /\ \A h \in Handlers : handler'[h].send \in Sends
  BY NextType DEF TypeOK, MsgType, Message, HandlerState
<1>2. SUFFICES ASSUME NEW j \in Jobs, NEW n \in Sends
               PROVE  /\ \A h \in Handlers : Holds(h, j, n)' => msg'[j][n].state = "active"
                      /\ \A g, h \in Handlers : Holds(g, j, n)' /\ Holds(h, j, n)' => g = h
  <2>1. \A h \in Handlers : handler'[h].pc # "idle" /\ ~handler'[h].late =>
          msg'[handler'[h].job][handler'[h].send].state = "active"
    BY <1>1, <1>2 DEF Holds
  <2>2. \A g, h \in Handlers :
          /\ handler'[g].pc # "idle" /\ ~handler'[g].late
          /\ handler'[h].pc # "idle" /\ ~handler'[h].late
          /\ handler'[g].job = handler'[h].job /\ handler'[g].send = handler'[h].send
          => g = h
    BY <1>1, <1>2 DEF Holds
  <2> QED  BY <2>1, <2>2 DEF HeldIsActive
<1>3. \A h \in Handlers : Holds(h, j, n) => msg[j][n].state = "active"
                                             /\ \A g \in Handlers : Holds(g, j, n) => g = h
  BY HeldFacts
<1>4. ASSUME msg'[j][n] = msg[j][n] \/ msg[j][n].state # "active",
             msg'[j][n].state = "active" => msg[j][n].state \in {"active", "ready"},
             \A h \in Handlers : Holds(h, j, n)' => Holds(h, j, n)
      PROVE  /\ \A h \in Handlers : Holds(h, j, n)' => msg'[j][n].state = "active"
             /\ \A g, h \in Handlers : Holds(g, j, n)' /\ Holds(h, j, n)' => g = h
  BY <1>3, <1>4
<1>5. ASSUME NEW h \in Handlers, HandlerStep(h) \/ HandlerFault(h)
      PROVE  \A g \in Handlers : Holds(g, j, n)' => Holds(g, j, n)
  <2>1. handler' = [handler EXCEPT ![h] = IdleHandler] => handler'[h].pc = "idle"
    BY <1>1 DEF IdleHandler
  <2> QED  BY <1>5, <2>1, StepOfOne DEF Holds
<1>6. ASSUME NEW k \in Jobs, NEW m \in Sends, Send(k, m)
      PROVE  \/ msg'[j][n] = msg[j][n]
             \/ msg[j][n].state = "unsent" /\ msg'[j][n].state = "ready"
  BY <1>1, <1>6, SendSends
<1>7. ASSUME NEW a \in Admins, RetrySend(a)
      PROVE  \E k \in Jobs, m \in Sends : Send(k, m)
  BY <1>7 DEF RetrySend, RetryMessage, TypeOK, AdminState
<1>8. ASSUME NEW p \in Producers, EnqueueSend(p)
      PROVE  \E k \in Jobs, m \in Sends : Send(k, m)
  <2>1. producer[p].job \in Jobs /\ Send(producer[p].job, 0)
    BY <1>8 DEF EnqueueSend, TypeOK
  <2>2. 0 \in Sends
    BY BoundsAssumption DEF Sends
  <2> QED  BY <2>1, <2>2
<1>9. UNCHANGED handler => \A h \in Handlers : Holds(h, j, n)' <=> Holds(h, j, n)
  BY DEF Holds
<1>10. CASE Queue
  <2>1. ASSUME NEW h \in Handlers, Deliver(h, j, n), msg'[j][n].state = "active",
               msg[j][n].state = "ready"
        PROVE  \A g \in Handlers : Holds(g, j, n)' => g = h
    <3>1. \A g \in Handlers : g # h => handler'[g] = handler[g]
      BY <1>1, <2>1 DEF Deliver
    <3> QED  BY <1>3, <2>1, <3>1 DEF Holds
  <2>2. ASSUME ExpireAbandoned(j, n)
        PROVE  \A h \in Handlers : ~Holds(h, j, n)'
    BY <1>9, <2>2 DEF ExpireAbandoned, actors
  <2>3. ASSUME NEW h \in Handlers, Holds(h, j, n),
               ExpireOverrun(h) \/ Reject(h) \/ Acknowledge(h)
        PROVE  \A g \in Handlers : ~Holds(g, j, n)'
    <3>1. /\ \A g \in Handlers : g # h => handler'[g] = handler[g]
          /\ handler'[h].pc = "idle" \/ handler'[h].late
      BY <1>1, <2>3 DEF ExpireOverrun, Reject, Acknowledge, IdleHandler, HandlerState
    <3> QED  BY <1>3, <2>3, <3>1 DEF Holds
  <2> QED  BY <1>3, <1>10, <2>1, <2>2, <2>3, QueueMoves
<1>11. CASE UNCHANGED <<msg, handler>>
  BY <1>3, <1>9, <1>11
<1> QED  BY <1>3, <1>5, <1>6, <1>7, <1>8, <1>9, <1>10, <1>11, QueueSteps

\* A message leaves the unsent state by being sent, and never returns to it.
LEMMA UnsentSteps ==
  ASSUME TypeOK, HeldIsActive, [Next]_vars, NEW j \in Jobs, NEW n \in Sends
  PROVE  \/ msg'[j][n] = msg[j][n]
         \/ msg[j][n].state # "unsent" /\ msg'[j][n].state # "unsent"
         \/ /\ msg[j][n].state = "unsent" /\ msg'[j][n].state = "ready"
            /\ msg'[j][n].left = msg[j][n].left /\ UNCHANGED handler
            /\ \/ \E a \in Admins : RetrySend(a) /\ admin[a].job = j /\ admin[a].send = n
               \/ n = 0 /\ \E p \in Producers : EnqueueSend(p) /\ producer[p].job = j
<1>1. msg \in MsgType
  BY DEF TypeOK, MsgType, Message
<1>2. CASE Queue
  <2>1. ASSUME Redeliver(j, n)
        PROVE  msg'[j][n].state # "unsent"
    BY <1>1, <2>1, RedeliverMoves
  <2>2. ASSUME ExpireAbandoned(j, n)
        PROVE  msg[j][n].state # "unsent" /\ Redeliver(j, n)
    BY <2>2 DEF ExpireAbandoned
  <2> QED  BY <1>2, <2>1, <2>2, QueueMoves, HeldFacts
<1>3. ASSUME NEW a \in Admins, RetrySend(a), UNCHANGED handler
      PROVE  \/ msg'[j][n] = msg[j][n]
             \/ /\ msg[j][n].state = "unsent" /\ msg'[j][n].state = "ready"
                /\ msg'[j][n].left = msg[j][n].left
                /\ admin[a].job = j /\ admin[a].send = n
  <2>1. admin[a].job \in Jobs /\ admin[a].send \in Sends /\ Send(admin[a].job, admin[a].send)
    BY <1>3 DEF RetrySend, RetryMessage, TypeOK, AdminState
  <2> QED  BY <1>1, <2>1, SendSends
<1>4. ASSUME NEW p \in Producers, EnqueueSend(p), UNCHANGED handler
      PROVE  \/ msg'[j][n] = msg[j][n]
             \/ /\ msg[j][n].state = "unsent" /\ msg'[j][n].state = "ready"
                /\ msg'[j][n].left = msg[j][n].left
                /\ producer[p].job = j /\ n = 0
  <2>1. producer[p].job \in Jobs /\ Send(producer[p].job, 0)
    BY <1>4 DEF EnqueueSend, TypeOK
  <2>2. 0 \in Sends
    BY BoundsAssumption DEF Sends
  <2> QED  BY <1>1, <2>1, <2>2, SendSends
<1> QED  BY <1>2, <1>3, <1>4, QueueSteps

\* Where a retry is after its reset.
LEMMA AdminSends ==
  ASSUME TypeOK, [Next]_vars, NEW a \in Admins, "senderCrash" \notin Faults
  PROVE  \/ admin'[a].pc \notin {"rows", "send"} /\ admin[a].pc \notin {"rows", "send"}
         \/ /\ admin'[a].pc \in {"rows", "send"} /\ admin[a].pc \in {"rows", "send"}
            /\ admin'[a].job = admin[a].job /\ admin'[a].send = admin[a].send
         \/ RetrySend(a) /\ admin'[a].pc = "idle"
         \/ /\ ResetJob(a) /\ Retryable(admin[a].job) /\ admin'[a].pc = "rows"
            /\ admin'[a].job = admin[a].job /\ admin'[a].send = resets[admin[a].job] + 1
            /\ admin[a].pc = "reset"
<1> DEFINE Goal ==
      \/ admin'[a].pc \notin {"rows", "send"} /\ admin[a].pc \notin {"rows", "send"}
      \/ /\ admin'[a].pc \in {"rows", "send"} /\ admin[a].pc \in {"rows", "send"}
         /\ admin'[a].job = admin[a].job /\ admin'[a].send = admin[a].send
      \/ RetrySend(a) /\ admin'[a].pc = "idle"
      \/ /\ ResetJob(a) /\ Retryable(admin[a].job) /\ admin'[a].pc = "rows"
         /\ admin'[a].job = admin[a].job /\ admin'[a].send = resets[admin[a].job] + 1
         /\ admin[a].pc = "reset"
<1>1. admin \in [Admins -> AdminState]
  BY DEF TypeOK
<1>2. CASE admin'[a] = admin[a]
  BY <1>2
<1>3. CASE Queue
  BY <1>2, <1>3 DEF Queue, Deliver, ExpireAbandoned, ExpireOverrun, Acknowledge, Reject, actors
<1>4. ASSUME NEW h \in Handlers, HandlerStep(h) \/ HandlerFault(h)
      PROVE  UNCHANGED admin
  BY <1>4 DEF HandlerStep, Claim, LoadPending, NoProvider, RejectJob, StartCompiling,
       SettleWithoutPage, WritePage, RecordCompiled, Settle, Finish, FinishAt, CatchFailsJob,
       HandlerFault, ClaimAnswerLost, FinishAnswerLost, StatementThrows, RecordCompiledThrows,
       CatchWriteThrows, WorkerCrash
<1>5. CASE Sweeper
  BY <1>2, <1>5 DEF Sweeper, AgeAbandoned, AgeOverrun, SweepJobs, SweepRows, SweeperCrash, actors
<1>6. ASSUME NEW b \in Admins, Admin(b)
      PROVE  Goal
  <2>1. CASE b # a
    <3>1. admin'[a] = admin[a]
      BY <1>1, <1>6, <2>1 DEF Admin, RetryRead, RetryReadEvents, ResetJob, ResetRows, RetrySend,
                               AdminCrash
    <3> QED  BY <1>2, <3>1
  <2>2. CASE b = a
    <3>1. ASSUME NEW j \in Jobs, NEW mode \in RetryMode, RetryRead(a, j, mode)
          PROVE  admin'[a].pc \notin {"rows", "send"} /\ admin[a].pc = "idle"
      BY <1>1, <3>1 DEF RetryRead, IdleAdmin
    <3>2. CASE RetryReadEvents(a)
      <4>1. \/ admin' = [admin EXCEPT ![a] = [@ EXCEPT !.pc = "reset"]]
            \/ admin' = [admin EXCEPT ![a] = IdleAdmin]
        BY <3>2 DEF RetryReadEvents
      <4>2. admin[a].pc = "events"
        BY <3>2 DEF RetryReadEvents
      <4> QED  BY <1>1, <4>1, <4>2 DEF IdleAdmin, AdminState
    <3>3. CASE ResetJob(a)
      <4>1. admin[a].pc = "reset"
        BY <3>3 DEF ResetJob
      <4>2. CASE Retryable(admin[a].job)
        <5>1. admin' = [admin EXCEPT ![a].pc = "rows", ![a].send = resets[admin[a].job] + 1]
          BY <3>3, <4>2 DEF ResetJob
        <5> QED  BY <1>1, <3>3, <4>1, <4>2, <5>1 DEF AdminState
      <4>3. CASE ~Retryable(admin[a].job)
        <5>1. admin' = [admin EXCEPT ![a] = IdleAdmin]
          BY <3>3, <4>3 DEF ResetJob
        <5> QED  BY <1>1, <4>1, <5>1 DEF IdleAdmin
      <4> QED  BY <4>2, <4>3
    <3>4. CASE ResetRows(a)
      BY <1>1, <3>4 DEF ResetRows, AdminState
    <3>5. CASE RetrySend(a)
      <4>1. admin'[a].pc = "idle"
        BY <1>1, <3>5 DEF RetrySend, IdleAdmin
      <4> QED  BY <3>5, <4>1
    <3>6. CASE AdminCrash(a)
      BY <3>6 DEF AdminCrash, Fault
    <3> QED  BY <1>6, <2>2, <3>1, <3>2, <3>3, <3>4, <3>5, <3>6 DEF Admin
  <2> QED  BY <2>1, <2>2
<1>7. ASSUME NEW p \in Producers, Producer(p)
      PROVE  UNCHANGED admin
  BY <1>7 DEF Producer, Submit, CreateJob, CreateJobLosesRace, CreateRow, EnqueueSend,
              NextRequest, ProducerCrash
<1>8. CASE UNCHANGED vars
  BY <1>2, <1>8 DEF vars, actors
<1> QED  BY <1>2, <1>3, <1>4, <1>5, <1>6, <1>7, <1>8 DEF Next

\* Where a request is with the event rows of its job.
LEMMA ProducerSends ==
  ASSUME "senderCrash" \notin Faults, TypeOK, [Next]_vars, NEW p \in Producers,
         producer[p].pc = "rows"
  PROVE  \/ producer'[p].pc = "rows" /\ producer'[p].job = producer[p].job
         \/ EnqueueSend(p)
<1>1. producer \in [Producers -> ProducerState]
  BY DEF TypeOK
<1>2. CASE UNCHANGED producer
  BY <1>2
<1>3. CASE Queue
  BY <1>2, <1>3 DEF Queue, Deliver, ExpireAbandoned, ExpireOverrun, Acknowledge, Reject, actors
<1>4. ASSUME NEW h \in Handlers, HandlerStep(h) \/ HandlerFault(h)
      PROVE  UNCHANGED producer
  BY <1>4 DEF HandlerStep, Claim, LoadPending, NoProvider, RejectJob, StartCompiling,
       SettleWithoutPage, WritePage, RecordCompiled, Settle, Finish, FinishAt, CatchFailsJob,
       HandlerFault, ClaimAnswerLost, FinishAnswerLost, StatementThrows, RecordCompiledThrows,
       CatchWriteThrows, WorkerCrash
<1>5. CASE Sweeper
  BY <1>2, <1>5 DEF Sweeper, AgeAbandoned, AgeOverrun, SweepJobs, SweepRows, SweeperCrash, actors
<1>6. ASSUME NEW a \in Admins, Admin(a)
      PROVE  UNCHANGED producer
  BY <1>6 DEF Admin, RetryRead, RetryReadEvents, ResetJob, ResetRows, RetrySend, AdminCrash
<1>7. ASSUME NEW q \in Producers, Producer(q)
      PROVE  \/ producer'[p].pc = "rows" /\ producer'[p].job = producer[p].job
             \/ EnqueueSend(p)
  <2>1. CASE q = p
    <3>1. ASSUME NEW e \in Events, CreateRow(p, e)
          PROVE  producer'[p].pc = "rows" /\ producer'[p].job = producer[p].job
      BY <1>1, <3>1 DEF CreateRow, ProducerState
    <3>2. ~ProducerCrash(p)
      BY DEF ProducerCrash, Fault
    <3> QED  BY <1>7, <2>1, <3>1, <3>2 DEF Producer, Submit, CreateJob, CreateJobLosesRace, NextRequest
  <2>2. CASE q # p
    <3>1. producer'[p] = producer[p]
      BY <1>1, <1>7, <2>2 DEF Producer, Submit, CreateJob, CreateJobLosesRace, CreateRow,
                              EnqueueSend, NextRequest, ProducerCrash
    <3> QED  BY <3>1
  <2> QED  BY <2>1, <2>2
<1>8. CASE UNCHANGED vars
  BY <1>2, <1>8 DEF vars, actors
<1> QED  BY <1>2, <1>3, <1>4, <1>5, <1>6, <1>7, <1>8 DEF Next

\* Sending a message again changes nothing.
LEMMA SentStays ==
  ASSUME TypeOK, NEW j \in Jobs, NEW n \in Sends, msg[j][n].state # "unsent",
         \/ \E a \in Admins : RetrySend(a)
         \/ \E p \in Producers : EnqueueSend(p)
  PROVE  msg'[j][n] = msg[j][n]
<1>1. PICK k \in Jobs, m \in Sends : Send(k, m)
  <2>1. ASSUME NEW a \in Admins, RetrySend(a)
        PROVE  \E k \in Jobs, m \in Sends : Send(k, m)
    BY <2>1 DEF RetrySend, RetryMessage, TypeOK, AdminState
  <2>2. ASSUME NEW p \in Producers, EnqueueSend(p)
        PROVE  \E k \in Jobs, m \in Sends : Send(k, m)
    <3>1. producer[p].job \in Jobs /\ Send(producer[p].job, 0)
      BY <2>2 DEF EnqueueSend, TypeOK
    <3>2. 0 \in Sends
      BY BoundsAssumption DEF Sends
    <3> QED  BY <3>1, <3>2
  <2> QED  BY <2>1, <2>2
<1>2. msg \in MsgType
  BY DEF TypeOK, MsgType, Message
<1> QED  BY <1>1, <1>2, SendSends

\* Only a reset counts as one.
LEMMA ResetSteps ==
  ASSUME TypeOK, [Next]_vars, NEW j \in Jobs
  PROVE  /\ resets[j] \in Nat
         /\ \/ resets'[j] = resets[j]
            \/ /\ resets'[j] = resets[j] + 1 /\ UNCHANGED msg
               /\ \E a \in Admins : ResetJob(a) /\ admin[a].job = j /\ Retryable(j)
<1>1. resets \in [Jobs -> Sends] /\ resets[j] \in Nat
  BY BoundsAssumption DEF TypeOK, Sends
<1>2. ASSUME NEW a \in Admins, ResetJob(a)
      PROVE  \/ resets'[j] = resets[j]
             \/ /\ resets'[j] = resets[j] + 1 /\ UNCHANGED msg
                /\ admin[a].job = j /\ Retryable(j)
  <2>1. CASE Retryable(admin[a].job)
    <3>1. resets' = [resets EXCEPT ![admin[a].job] = @ + 1] /\ UNCHANGED msg
      BY <1>2, <2>1 DEF ResetJob
    <3> QED  BY <1>1, <2>1, <3>1
  <2>2. CASE ~Retryable(admin[a].job)
    BY <1>2, <2>2 DEF ResetJob
  <2> QED  BY <2>1, <2>2
<1> QED  BY <1>1, <1>2, StatusSteps DEF SweepJobs, CreateJob

\* Message n is not sent before reset n.
LEMMA SendsStep ==
  ASSUME "senderCrash" \notin Faults, TypeOK, HeldIsActive, SendsFollowResets, [Next]_vars
  PROVE  SendsFollowResets'
<1>1. /\ resets \in [Jobs -> Sends]
      /\ \A a \in Admins : admin[a].pc # "idle" => admin[a].job \in Jobs
      /\ \A a \in Admins : admin[a].send \in Nat
      /\ \A j \in Jobs : resets[j] \in Nat
  BY BoundsAssumption DEF TypeOK, AdminState, Sends
<1>2. ASSUME NEW j \in Jobs, NEW n \in Sends
      PROVE  /\ n > resets'[j] => msg'[j][n].state = "unsent"
             /\ msg'[j][n].state = "unsent" => msg'[j][n].left = RetryLimit
  <2>1. n > resets'[j] => n > resets[j]
    <3>1. n \in Nat
      BY BoundsAssumption DEF Sends
    <3> QED  BY <1>1, <3>1, ResetSteps
  <2>2. /\ n > resets[j] => msg[j][n].state = "unsent"
        /\ msg[j][n].state = "unsent" => msg[j][n].left = RetryLimit
    BY DEF SendsFollowResets
  <2>3. ASSUME NEW a \in Admins, RetrySend(a), admin[a].job = j, admin[a].send = n
        PROVE  ~(n > resets[j])
    BY <1>1, <2>3 DEF RetrySend, SendsFollowResets
  <2>4. ~(0 > resets[j])
    BY <1>1
  <2> QED  BY <2>1, <2>2, <2>3, <2>4, UnsentSteps
<1>3. ASSUME NEW a \in Admins, admin'[a].pc \in {"rows", "send"}
      PROVE  admin'[a].send <= resets'[admin'[a].job]
  <2>1. CASE /\ admin[a].pc \in {"rows", "send"} /\ admin'[a].job = admin[a].job
             /\ admin'[a].send = admin[a].send
    <3>1. admin[a].job \in Jobs /\ admin[a].send <= resets[admin[a].job]
      BY <1>1, <2>1 DEF SendsFollowResets
    <3> QED  BY <1>1, <2>1, <3>1, ResetSteps
  <2>2. CASE /\ ResetJob(a) /\ Retryable(admin[a].job) /\ admin[a].pc = "reset"
             /\ admin'[a].job = admin[a].job /\ admin'[a].send = resets[admin[a].job] + 1
    <3>1. resets' = [resets EXCEPT ![admin[a].job] = @ + 1] /\ admin[a].job \in Jobs
      BY <1>1, <2>2 DEF ResetJob
    <3> QED  BY <1>1, <2>2, <3>1
  <2> QED  BY <1>3, <2>1, <2>2, AdminSends
<1> QED  BY <1>2, <1>3 DEF SendsFollowResets

\* What a request owes it goes on owing until it is sent.
LEMMA OwedStep ==
  ASSUME "senderCrash" \notin Faults, TypeOK, [Next]_vars, NEW j \in Jobs, Owed(j),
         resets'[j] = resets[j], msg'[j][resets[j]].state = "unsent"
  PROVE  Owed(j)'
<1>1. /\ msg \in MsgType /\ msg' \in MsgType /\ resets \in [Jobs -> Sends]
      /\ \A a \in Admins : admin[a].send \in Sends
      /\ 0 \in Sends
  <2>1. /\ msg \in MsgType /\ msg' \in MsgType /\ resets \in [Jobs -> Sends]
        /\ \A a \in Admins : admin[a].send \in Sends
    BY NextType DEF TypeOK, MsgType, Message, AdminState
  <2>2. 0 \in Sends
    BY BoundsAssumption DEF Sends
  <2> QED  BY <2>1, <2>2
<1>2. ASSUME NEW k \in Sends, Send(j, k)
      PROVE  msg'[j][k].state # "unsent"
  <2>1. msg[j] \in [Sends -> Message] /\ msg[j][k] \in Message
    BY <1>1 DEF MsgType
  <2>2. CASE msg[j][k].state = "unsent"
    BY <1>1, <1>2, <2>1, <2>2 DEF Send, MsgType, Message
  <2>3. CASE msg[j][k].state # "unsent"
    BY <1>2, <2>3 DEF Send
  <2> QED  BY <2>2, <2>3
<1>3. ASSUME NEW a \in Admins, admin[a].pc \in {"rows", "send"}, admin[a].job = j,
             admin[a].send = resets[j]
      PROVE  admin'[a].pc \in {"rows", "send"} /\ admin'[a].job = j /\ admin'[a].send = resets[j]
  <2>1. ASSUME RetrySend(a)
        PROVE  FALSE
    BY <1>1, <1>2, <1>3, <2>1 DEF RetrySend, RetryMessage
  <2> QED  BY <1>3, <2>1, AdminSends
<1>4. ASSUME NEW p \in Producers, producer[p].pc = "rows", producer[p].job = j, resets[j] = 0
      PROVE  producer'[p].pc = "rows" /\ producer'[p].job = j
  <2>1. ASSUME EnqueueSend(p)
        PROVE  FALSE
    BY <1>1, <1>2, <1>4, <2>1 DEF EnqueueSend
  <2> QED  BY <1>4, <2>1, ProducerSends
<1> QED  BY <1>3, <1>4 DEF Owed

\* A message on its way stays so while its job is queued: a delivery is lost only to a
\* fault, and it has been granted a redelivery for each of them.
LEMMA UnderWayStep ==
  ASSUME SendsAreSure, TypeOK, HeldIsActive, [Next]_vars, NEW j \in Jobs, NEW n \in Sends,
         status[j] = "queued", status'[j] = "queued", UnderWay(j, n)
  PROVE  UnderWay(j, n)'
<1>1. /\ handler \in [Handlers -> HandlerState] /\ msg \in MsgType
      /\ msg[j] \in [Sends -> Message] /\ msg[j][n] \in Message /\ msg[j][n].left \in Nat
      /\ status \in [Jobs -> JobStatus] /\ RetryLimit \in Nat /\ MaxFaults \in Nat
      /\ MaxFaults <= RetryLimit
      /\ msg' \in MsgType /\ msg'[j][n] \in Message /\ msg'[j][n].left \in Nat
  BY NextType, BoundsAssumption DEF TypeOK, MsgType, Message, SendsAreSure
<1>2. /\ msg[j][n].state \in {"ready", "active"}
      /\ \A h \in Handlers : Holds(h, j, n) => handler[h].pc \in {"fetched", "throw"}
      /\ msg[j][n].left + faults >= RetryLimit
      /\ msg[j][n].state = "active" /\ ~Fetched(j, n) => msg[j][n].left + faults > RetryLimit
  BY DEF UnderWay
<1>3. faults \in Nat /\ faults' \in Nat /\ faults' >= faults /\ faults' <= MaxFaults
  BY FaultsGrow
<1>4. \A h \in Handlers : Holds(h, j, n) => msg[j][n].state = "active"
                                             /\ \A g \in Handlers : Holds(g, j, n) => g = h
  BY HeldFacts
\* Nothing happens to the message or to its handler.
<1>5. ASSUME msg'[j][n] = msg[j][n],
             \A h \in Handlers : Holds(h, j, n)' <=> Holds(h, j, n),
             \A h \in Handlers : Holds(h, j, n) => handler'[h] = handler[h]
      PROVE  UnderWay(j, n)'
  <2>1. Fetched(j, n) => Fetched(j, n)'
    BY <1>5 DEF Fetched
  <2>2. msg'[j][n].state = "active" /\ ~Fetched(j, n)' => msg'[j][n].left + faults' > RetryLimit
    BY <1>1, <1>2, <1>3, <1>5, <2>1
  <2>3. \A h \in Handlers : Holds(h, j, n)' => handler'[h].pc \in {"fetched", "throw"}
    BY <1>2, <1>5
  <2>4. msg'[j][n].left + faults' >= RetryLimit
    BY <1>1, <1>2, <1>3, <1>5
  <2> QED  BY <1>2, <1>5, <2>2, <2>3, <2>4 DEF UnderWay
\* The delivery is given up, and there is one left.
<1>6. ASSUME Redeliver(j, n), \A h \in Handlers : ~Holds(h, j, n)',
             msg[j][n].left + faults' > RetryLimit
      PROVE  UnderWay(j, n)'
  <2>1. msg[j][n].left > 0
    BY <1>1, <1>3, <1>6
  <2>2. msg'[j][n].state = "ready" /\ msg'[j][n].left = msg[j][n].left - 1
    BY <1>1, <1>6, <2>1, RedeliverMoves
  <2>3. msg'[j][n].left + faults' >= RetryLimit
    BY <1>1, <1>3, <1>6, <2>2
  <2> QED  BY <1>6, <2>2, <2>3 DEF UnderWay
\* It is active, and its handler fails.
<1>7. ASSUME UNCHANGED msg, faults' = faults + 1,
             \A h \in Handlers : Holds(h, j, n)' => handler'[h].pc \in {"fetched", "throw"}
      PROVE  UnderWay(j, n)'
  <2>1. msg'[j][n].left + faults' > RetryLimit
    BY <1>1, <1>2, <1>3, <1>7
  <2>2. msg'[j][n].left + faults' >= RetryLimit
    BY <1>1, <1>2, <1>3, <1>7
  <2> QED  BY <1>2, <1>7, <2>1, <2>2 DEF UnderWay
<1>8. UNCHANGED handler => \A h \in Handlers : Holds(h, j, n)' <=> Holds(h, j, n)
  BY DEF Holds
<1>9. CASE Queue
  <2>1. ASSUME NEW h \in Handlers, Deliver(h, j, n), msg'[j][n].state = "active",
               msg[j][n].state = "ready", msg'[j][n].left = msg[j][n].left
        PROVE  UnderWay(j, n)'
    <3>1. /\ \A g \in Handlers : g # h => handler'[g] = handler[g]
          /\ handler'[h].pc = "fetched" /\ handler'[h].job = j /\ handler'[h].send = n
          /\ ~handler'[h].late
      BY <1>1, <2>1 DEF Deliver, IdleHandler
    <3>2. Fetched(j, n)'
      BY <3>1 DEF Fetched, Holds
    <3>3. \A g \in Handlers : Holds(g, j, n)' => handler'[g].pc \in {"fetched", "throw"}
      BY <1>2, <3>1 DEF Holds
    <3>4. msg'[j][n].left + faults' >= RetryLimit
      BY <1>1, <1>2, <1>3, <2>1
    <3> QED  BY <2>1, <3>2, <3>3, <3>4 DEF UnderWay
  <2>2. ASSUME ExpireAbandoned(j, n)
        PROVE  UnderWay(j, n)'
    <3>1. /\ Redeliver(j, n) /\ msg[j][n].state = "active" /\ UNCHANGED <<handler, faults>>
          /\ \A h \in Handlers : ~Holds(h, j, n)
      BY <2>2 DEF ExpireAbandoned, actors
    <3>2. \A h \in Handlers : ~Holds(h, j, n)'
      BY <1>8, <3>1
    <3>3. msg[j][n].left + faults' > RetryLimit
      BY <1>2, <3>1 DEF Fetched
    <3> QED  BY <1>6, <3>1, <3>2, <3>3
  <2>3. ASSUME NEW h \in Handlers, Holds(h, j, n), ExpireOverrun(h) \/ Reject(h), Redeliver(j, n)
        PROVE  UnderWay(j, n)'
    <3>1. /\ \A g \in Handlers : g # h => handler'[g] = handler[g]
          /\ handler'[h].pc = "idle" \/ handler'[h].late
      BY <1>1, <2>3 DEF ExpireOverrun, Reject, IdleHandler, HandlerState
    <3>2. \A g \in Handlers : ~Holds(g, j, n)'
      BY <1>4, <2>3, <3>1 DEF Holds
    <3>3. msg[j][n].left + faults' > RetryLimit
      <4>1. CASE Reject(h)
        <5>1. ~Fetched(j, n) /\ faults' = faults
          BY <1>4, <2>3, <4>1 DEF Fetched, Reject
        <5> QED  BY <1>2, <1>4, <2>3, <5>1
      <4>2. CASE ExpireOverrun(h)
        <5>1. faults' = faults + 1
          BY <4>2 DEF ExpireOverrun, Fault
        <5> QED  BY <1>1, <1>2, <1>3, <5>1
      <4> QED  BY <2>3, <4>1, <4>2
    <3> QED  BY <1>6, <2>3, <3>2, <3>3
  <2>4. ASSUME NEW h \in Handlers, Holds(h, j, n), Acknowledge(h)
        PROVE  FALSE
    BY <1>2, <2>4 DEF Acknowledge
  <2> QED  BY <1>5, <1>9, <2>1, <2>2, <2>3, <2>4, QueueMoves
<1>10. ASSUME NEW h \in Handlers, HandlerStep(h) \/ HandlerFault(h), UNCHANGED msg
       PROVE  UnderWay(j, n)'
  <2>1. /\ \A k \in Handlers : k # h => handler'[k] = handler[k]
        /\ handler[h].pc # "idle"
        /\ \/ /\ handler'[h].job = handler[h].job /\ handler'[h].send = handler[h].send
              /\ handler'[h].late = handler[h].late /\ handler'[h].pc # "idle"
           \/ handler' = [handler EXCEPT ![h] = IdleHandler] /\ WorkerCrash(h)
    BY <1>10, StepOfOne
  <2>2. handler' = [handler EXCEPT ![h] = IdleHandler] => handler'[h].pc = "idle"
    BY <1>1 DEF IdleHandler
  <2>3. \A g \in Handlers : Holds(g, j, n)' => Holds(g, j, n)
    BY <2>1, <2>2 DEF Holds
  <2>4. CASE ~Holds(h, j, n)
    <3>1. \A g \in Handlers : Holds(g, j, n)' <=> Holds(g, j, n)
      BY <2>1, <2>3, <2>4 DEF Holds
    <3>2. \A g \in Handlers : Holds(g, j, n) => handler'[g] = handler[g]
      BY <2>1, <2>4
    <3> QED  BY <1>5, <1>10, <3>1, <3>2
  <2>5. CASE Holds(h, j, n)
    <3>1. handler[h].pc \in {"fetched", "throw"} /\ handler[h].job = j
      BY <1>2, <2>5 DEF Holds
    <3>2. CASE WorkerCrash(h)
      <4>1. faults' = faults + 1 /\ handler'[h].pc = "idle"
        BY <1>1, <3>2 DEF WorkerCrash, Fault, IdleHandler
      <4>2. \A g \in Handlers : Holds(g, j, n)' => handler'[g].pc \in {"fetched", "throw"}
        BY <1>2, <2>1, <2>3, <4>1 DEF Holds
      <4> QED  BY <1>7, <1>10, <4>1, <4>2
    <3>3. CASE StatementThrows(h)
      <4>1. faults' = faults + 1 /\ handler[h].pc = "fetched" /\ Goto(h, "throw")
        BY <3>1, <3>3 DEF StatementThrows, Fault
      <4>2. handler'[h].pc = "throw"
        BY <1>1, <4>1 DEF Goto, HandlerState
      <4>3. \A g \in Handlers : Holds(g, j, n)' => handler'[g].pc \in {"fetched", "throw"}
        BY <1>2, <2>1, <2>3, <4>2
      <4> QED  BY <1>7, <1>10, <4>1, <4>3
    <3>4. ASSUME Claim(h) \/ ClaimAnswerLost(h)
          PROVE  FALSE
      <4>1. ClaimJob(j)
        BY <3>1, <3>4 DEF Claim, ClaimAnswerLost, Claimable
      <4> QED  BY <1>1, <4>1 DEF ClaimJob
    <3> QED  BY <1>10, <3>1, <3>2, <3>3, <3>4 DEF HandlerStep, HandlerFault, LoadPending, NoProvider,
               RejectJob, StartCompiling, SettleWithoutPage, WritePage, RecordCompiled, Finish,
               FinishAt, CatchFailsJob, FinishAnswerLost, RecordCompiledThrows, CatchWriteThrows
  <2> QED  BY <2>4, <2>5
<1>11. ASSUME UNCHANGED handler, msg'[j][n] = msg[j][n]
       PROVE  UnderWay(j, n)'
  BY <1>5, <1>8, <1>11
<1>12. ASSUME NEW a \in Admins, RetrySend(a), UNCHANGED handler
       PROVE  UnderWay(j, n)'
  BY <1>2, <1>11, <1>12, SentStays
<1>13. ASSUME NEW p \in Producers, EnqueueSend(p), UNCHANGED handler
       PROVE  UnderWay(j, n)'
  BY <1>2, <1>11, <1>13, SentStays
<1> QED  BY <1>9, <1>10, <1>11, <1>12, <1>13, QueueSteps

\* A job comes to be queued with its message still to be sent, by a request that owes it.
LEMMA QueuedSteps ==
  ASSUME QueueInv, [Next]_vars, NEW j \in Jobs, status[j] # "queued", status'[j] = "queued"
  PROVE  resets'[j] \in Sends /\ msg'[j][resets'[j]].state = "unsent" /\ Owed(j)'
<1>1. /\ TypeOK /\ AbsentIsUntouched /\ AbsentIsFresh /\ SendsFollowResets
      /\ status \in [Jobs -> JobStatus] /\ resets \in [Jobs -> Sends]
      /\ admin \in [Admins -> AdminState] /\ producer \in [Producers -> ProducerState]
      /\ resets' \in [Jobs -> Sends] /\ resets[j] \in Nat
  <2>1. resets[j] \in Nat
    BY ResetSteps DEF QueueInv
  <2> QED  BY <2>1, NextType DEF QueueInv, TypeOK
<1>2. ASSUME NEW a \in Admins, ResetJob(a)
      PROVE  msg'[j][resets'[j]].state = "unsent" /\ Owed(j)'
  <2>1. /\ Retryable(admin[a].job) /\ admin[a].job = j
        /\ resets' = [resets EXCEPT ![j] = @ + 1] /\ UNCHANGED msg
        /\ admin' = [admin EXCEPT ![a].pc = "rows", ![a].send = resets[j] + 1]
    <3>1. Retryable(admin[a].job)
      BY <1>2 DEF ResetJob
    <3>2. /\ status' = [status EXCEPT ![admin[a].job] = "queued"]
          /\ resets' = [resets EXCEPT ![admin[a].job] = @ + 1] /\ UNCHANGED msg
          /\ admin' = [admin EXCEPT ![a].pc = "rows", ![a].send = resets[admin[a].job] + 1]
      BY <1>2, <3>1 DEF ResetJob
    <3>3. admin[a].job = j
      BY <1>1, <3>2
    <3> QED  BY <3>1, <3>2, <3>3
  <2>2. resets'[j] = resets[j] + 1 /\ resets'[j] \in Sends
    BY <1>1, <2>1
  <2>3. msg[j][resets'[j]].state = "unsent"
    BY <1>1, <2>2 DEF SendsFollowResets
  <2>4. admin'[a].pc = "rows" /\ admin'[a].job = j /\ admin'[a].send = resets'[j]
    BY <1>1, <2>1, <2>2 DEF AdminState
  <2> QED  BY <2>1, <2>3, <2>4 DEF Owed
<1>3. ASSUME NEW p \in Producers, CreateJob(p)
      PROVE  msg'[j][resets'[j]].state = "unsent" /\ Owed(j)'
  <2>1. /\ status[j] = "absent" /\ producer[p].job = j /\ UNCHANGED <<msg, resets>>
        /\ producer'[p].pc = "rows" /\ producer'[p].job = j
    BY <1>1, <1>3 DEF CreateJob, ProducerState
  <2>2. resets[j] = 0 /\ Untouched(j)
    BY <1>1, <2>1 DEF AbsentIsFresh, AbsentIsUntouched
  <2> QED  BY <1>1, <2>1, <2>2 DEF Untouched, Owed
<1>4. ASSUME NEW h \in Handlers, ClaimJob(handler[h].job)
      PROVE  FALSE
  BY <1>1, <1>4 DEF ClaimJob
<1>5. ASSUME NEW h \in Handlers, NEW s \in {"processing", "completed", "failed"}, NEW e,
             UpdateJobStatus(handler[h].job, s, e)
      PROVE  FALSE
  BY <1>1, <1>5 DEF UpdateJobStatus
<1>6. ASSUME NEW s \in Sweepers, SweepJobs(s)
      PROVE  FALSE
  BY <1>1, <1>6 DEF SweepJobs
<1> QED  BY <1>1, <1>2, <1>3, <1>4, <1>5, <1>6, StatusSteps

\* The latest message of a queued job is owed, or on its way.
LEMMA LatestStep ==
  ASSUME SendsAreSure, QueueInv, [Next]_vars
  PROVE  LatestIsAnnounced'
<1> DEFINE Told(j) == \/ msg[j][resets[j]].state = "unsent" /\ Owed(j)
                      \/ UnderWay(j, resets[j])
<1>1. /\ TypeOK /\ HeldIsActive /\ SendsFollowResets /\ LatestIsAnnounced
      /\ "senderCrash" \notin Faults
  BY DEF QueueInv, SendsAreSure
<1> SUFFICES ASSUME NEW j \in Jobs, status'[j] = "queued"
             PROVE  Told(j)'
  BY DEF LatestIsAnnounced
<1>2. CASE status[j] # "queued"
  BY <1>2, QueuedSteps
<1>3. CASE status[j] = "queued"
  <2>1. resets'[j] = resets[j]
    BY <1>1, <1>3, ResetSteps DEF Retryable, Terminal
  <2>2. resets[j] \in Sends
    BY <1>1 DEF TypeOK
  <2>3. CASE UnderWay(j, resets[j])
    <3>1. PICK n \in Sends : n = resets[j]
      BY <2>2
    <3>2. UnderWay(j, n)'
      BY <1>1, <1>3, <2>3, <3>1, UnderWayStep
    <3> QED  BY <2>1, <3>1, <3>2 DEF UnderWay, Fetched, Holds
  <2>4. CASE msg[j][resets[j]].state = "unsent" /\ Owed(j)
    <3>1. CASE msg'[j][resets[j]].state = "unsent"
      BY <1>1, <2>1, <2>4, <3>1, OwedStep
    <3>2. CASE msg'[j][resets[j]].state # "unsent"
      <4>1. /\ msg'[j][resets[j]].state = "ready"
            /\ msg'[j][resets[j]].left = RetryLimit /\ UNCHANGED handler
        BY <1>1, <2>2, <2>4, <3>2, UnsentSteps DEF SendsFollowResets
      <4>2. PICK n \in Sends : n = resets[j]
        BY <2>2
      <4>3. \A h \in Handlers : ~Holds(h, j, n)'
        <5>1. \A h \in Handlers : ~Holds(h, j, n)
          BY <1>1, <2>4, <4>2, HeldFacts
        <5> QED  BY <4>1, <5>1 DEF Holds
      <4>4. RetryLimit + faults' >= RetryLimit
        BY <1>1, FaultsGrow, BoundsAssumption
      <4>5. UnderWay(j, n)'
        BY <4>1, <4>2, <4>3, <4>4 DEF UnderWay
      <4> QED  BY <2>1, <4>2, <4>5 DEF UnderWay, Fetched, Holds
    <3> QED  BY <3>1, <3>2
  <2> QED  BY <1>1, <1>3, <2>3, <2>4 DEF LatestIsAnnounced
<1> QED  BY <1>2, <1>3

LEMMA QueueInit == Init => QueueInv
<1> SUFFICES ASSUME Init
             PROVE  QueueInv
  OBVIOUS
<1>1. CompiledInv /\ TypeOK
  BY CompiledInit, InitType
<1>2. /\ \A h \in Handlers : handler[h].pc = "idle"
      /\ \A a \in Admins : admin[a].pc = "idle"
      /\ \A j \in Jobs : status[j] = "absent" /\ resets[j] = 0
      /\ \A j \in Jobs, n \in Sends : msg[j][n].state = "unsent" /\ msg[j][n].left = RetryLimit
  BY DEF Init, IdleHandler, IdleAdmin
<1> QED  BY <1>1, <1>2 DEF QueueInv, CompiledInv, AbsentIsFresh, HeldIsActive, SendsFollowResets,
                           LatestIsAnnounced

LEMMA QueueInvStep == SendsAreSure /\ QueueInv /\ [Next]_vars => QueueInv'
<1> SUFFICES ASSUME SendsAreSure, QueueInv, [Next]_vars
             PROVE  QueueInv'
  OBVIOUS
<1>1. /\ TypeOK /\ AbsentIsUntouched /\ AbsentIsFresh /\ RowsAreCreated /\ HeldIsActive
      /\ SendsFollowResets /\ "senderCrash" \notin Faults
  BY DEF QueueInv, SendsAreSure
<1> QED  BY <1>1, NextType, AbsentStep, FreshStep, CreatedStep, HeldStep, SendsStep, LatestStep
         DEF QueueInv

\* A queued job is never stranded: while no request dies with a message to send, and a
\* message has a redelivery for every fault, some message of it will be delivered to a
\* handler that claims it, or a running request is about to send one.  Crashes, overruns,
\* failing statements, lost answers and concurrent retries do not change that.
THEOREM QueuedAnnounced ==
  ASSUME SendsAreSure
  PROVE  Spec => []QueuedIsAnnounced
<1>1. QueueInv => QueuedIsAnnounced
  <2> SUFFICES ASSUME QueueInv, NEW j \in Jobs, status[j] = "queued"
               PROVE  Announced(j)
    BY DEF QueuedIsAnnounced
  <2>1. resets[j] \in Sends /\ LatestIsAnnounced
    BY DEF QueueInv, TypeOK
  <2>2. CASE Owed(j)
    BY <2>2 DEF Owed, Announced
  <2>3. CASE UnderWay(j, resets[j])
    BY <2>1, <2>3 DEF UnderWay, Announced
  <2> QED  BY <2>1, <2>2, <2>3 DEF LatestIsAnnounced
<1>2. QueueInv /\ [Next]_vars => QueueInv'
  BY QueueInvStep
<1> QED  BY <1>1, <1>2, QueueInit, PTL DEF Spec
=============================================================================
