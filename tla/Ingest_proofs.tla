---------------------------- MODULE Ingest_proofs ----------------------------
(***************************************************************************)
(* Event intake for any requests, bodies and faults: it implements the     *)
(* event log, what is answered is on its way, no job is left queued        *)
(* without its request, a replay repeats the first answer, and an event is *)
(* refused as requested only when it was.                                  *)
(***************************************************************************)
EXTENDS Ingest, TLAPS

(***************************************************************************)
(* The parts of the inductive invariant.                                   *)
(***************************************************************************)
Busy(r) == req[r].pc # "idle"
Delivers(r) == Busy(r) /\ Body(r).via # "compilation"
Owner(r) == Busy(r) /\ OwnsEvents(r)
Asker(r) == Busy(r) /\ ~OwnsEvents(r)  \* a batch or a compilation

\* The identity of the n-th delivery of a request.
Named(r, n) == <<Body(r).channel, Delivery(r), Body(r).items[n].item>>
Stored(r, n) == Delivers(r) /\ n \in DOMAIN req[r].results /\ req[r].results[n] = "accepted"

\* Deliveries are told one after the other.
InOrder ==
  \A r \in Requests :
    /\ Delivers(r) =>
         req[r].results \in Seq(Verdicts) /\ Len(req[r].results) <= Len(Body(r).items)
    /\ req[r].pc \in {"find", "insert"} =>
         Delivers(r) /\ req[r].at = Len(req[r].results) + 1 /\ req[r].at <= Len(Body(r).items)

\* Which requests reach which statements, and with what.
Placed ==
  \A r \in Requests :
    /\ req[r].pc \in {"replay", "classify"} =>
         /\ Asker(r) /\ ~req[r].created /\ req[r].at = 1
         /\ req[r].queued = {} /\ req[r].results = << >>
    /\ req[r].pc = "classify" => Body(r).via = "compilation"
    /\ req[r].pc = "snapshot" => Body(r).via = "batch"
    /\ req[r].pc = "wait" => Owner(r)
    /\ req[r].pc = "complete" => Asker(r)
    /\ Asker(r) /\ req[r].pc \in {"find", "insert", "findJob", "insertJob"} => ~req[r].created
    /\ Asker(r) /\ Body(r).via = "batch" /\ req[r].pc \in {"rows", "complete", "snapshot", "send"} =>
         req[r].created
    /\ Owner(r) /\ req[r].pc \in {"findJob", "insertJob", "rows", "send", "wait"} =>
         /\ Body(r).compile
         /\ req[r].at = Len(req[r].results) /\ Stored(r, req[r].at)
    /\ Owner(r) /\ req[r].pc \in {"rows", "send"} => req[r].created
    /\ Owner(r) /\ req[r].pc = "rows" => req[r].todo = {Event(r)}
    /\ req[r].pc = "rows" => req[r].todo \subseteq Covers(r)
    /\ req[r].pc \in {"rows", "complete", "snapshot", "send", "wait"} => Exists(Job(r))

\* An identity is stored when a request says so, and by one delivery only.
StoredIsThere ==
  /\ \A r \in Requests : \A n \in 1..MaxItems : Stored(r, n) => event[Named(r, n)] # None
  /\ \A r \in Requests : \A e \in req[r].queued : event[e] # None
StoredOnce ==
  \A r, s \in Requests : \A n, m \in 1..MaxItems :
    Stored(r, n) /\ Stored(s, m) /\ Named(r, n) = Named(s, m) => r = s /\ n = m

\* An event's own job is made by the request that stored the event, afterwards.
MakesJob(r, n) == n = req[r].at /\ req[r].pc \in {"findJob", "insertJob"}
EventJobsAreTheirs ==
  \A e \in EventIds :
    Exists(<<"ingest_event", e>>) =>
      \E r \in Requests : \E n \in 1..MaxItems :
        Owner(r) /\ Stored(r, n) /\ Named(r, n) = e /\ ~MakesJob(r, n)

OnItsWay(j) == job[j].announced \/ Over(j)
Failed(r, j) == req[r].pc = "crashed" \/ j \in req[r].lost

\* What an event's owner has stored has a row in a job that is announced or over,
\* or the owner is still at it, unless it has failed that job.
JobOf(r, n) == <<"ingest_event", Named(r, n)>>
Landed(e) == HasRow(<<"ingest_event", e>>, e) /\ OnItsWay(<<"ingest_event", e>>)
AtIt(r, n) == n = req[r].at /\ req[r].pc \in {"findJob", "insertJob", "rows", "send"}
OwnersSettle ==
  \A r \in Requests :
    /\ Owner(r) /\ req[r].pc = "send" => HasRow(Job(r), Event(r))
    /\ \A n \in 1..MaxItems :
         Owner(r) /\ Body(r).compile /\ Stored(r, n) /\ ~Failed(r, JobOf(r, n)) =>
           AtIt(r, n) \/ Landed(Named(r, n))

\* The job of a batch or a compilation has one creator, who writes its rows.
OneCreator ==
  \A r, s \in Requests :
    Asker(r) /\ Asker(s) /\ req[r].created /\ req[s].created /\ Job(r) = Job(s) => r = s
MadeItsJob(r) ==
  /\ Exists(Job(r))
  /\ req[r].pc \in {"rows", "complete", "snapshot", "send", "done", "crashed"}
  /\ req[r].pc = "rows" => \A e \in Covers(r) \ req[r].todo : HasRow(Job(r), e)
  /\ req[r].pc \in {"snapshot", "send"} => \A e \in Covers(r) : HasRow(Job(r), e)
  /\ req[r].pc = "complete" => Covers(r) = {}
  /\ req[r].pc = "complete" /\ Body(r).via = "batch" => ~Body(r).compile
  /\ req[r].pc = "send" /\ Body(r).via = "batch" => Body(r).compile
  /\ req[r].pc = "snapshot" /\ ~Body(r).compile => Over(Job(r))
  /\ req[r].pc = "done" /\ ~Failed(r, Job(r)) /\ Body(r).compile =>
       OnItsWay(Job(r)) /\ \A e \in Covers(r) : HasRow(Job(r), e)
CreatorsSettle ==
  \A r \in Requests : Asker(r) /\ req[r].created => MadeItsJob(r)

\* The snapshot of such a job, once stored, is what its creator answers.
Response(r) ==
  [job |-> IF Body(r).via = "batch" /\ ~Body(r).compile THEN None ELSE Job(r),
   results |-> req[r].results]
KeepsAnswer(r) ==
  /\ \/ job[Job(r)].snapshot \in {None, Counts}
     \/ job[Job(r)].snapshot = Response(r)
  /\ (/\ req[r].pc = "done" /\ req[r].said.code = "ok"
      /\ job[Job(r)].snapshot \notin {None, Counts}) =>
       req[r].said.job = Response(r).job /\ req[r].said.results = Response(r).results
RepeatsAnswer(r) ==
  /\ Exists(Job(r)) /\ job[Job(r)].snapshot # None
  /\ job[Job(r)].snapshot # Counts =>
       /\ req[r].said.job = job[Job(r)].snapshot.job
       /\ req[r].said.results = job[Job(r)].snapshot.results
SnapshotsAreAnswers ==
  \A r \in Requests :
    /\ Asker(r) /\ req[r].created => KeepsAnswer(r)
    /\ Asker(r) /\ Duplicate(r) => RepeatsAnswer(r)
CompilationsHaveAnswers ==
  \A j \in DOMAIN job :
    j[1] = "compilation" =>
      job[j].snapshot # None /\ (job[j].snapshot # Counts => job[j].snapshot.job = j)
BatchesArePrivate ==
  \A r \in Requests :
    Asker(r) /\ Body(r).via = "batch" /\ req[r].pc \in {"rows", "complete", "snapshot", "send"} =>
      /\ ~job[Job(r)].announced
      /\ req[r].pc # "send" => job[Job(r)].snapshot = None

\* A compilation that is about to make its job has sorted its events.
HasSorted ==
  \A r \in Requests :
    Asker(r) /\ Body(r).via = "compilation" /\ req[r].pc \in {"findJob", "insertJob"} =>
      req[r].results \in [Body(r).wants -> Classes]

\* A row was asked for.
Asked(r, e) ==
  /\ Busy(r)
  /\ IF Body(r).via = "compilation" THEN e \in req[r].queued
     ELSE Body(r).compile /\ e \in Accepted(r)
RowsWereAsked ==
  \A j \in DOMAIN job : \A e \in DOMAIN job[j].row : \E r \in Requests : Asked(r, e)

RequestInv == TypeOK /\ InOrder /\ Placed /\ StoredIsThere /\ StoredOnce
JobInv ==
  /\ EventJobsAreTheirs /\ OwnersSettle /\ OneCreator /\ CreatorsSettle
  /\ SnapshotsAreAnswers /\ CompilationsHaveAnswers /\ BatchesArePrivate /\ HasSorted
  /\ RowsWereAsked
Inv == RequestInv /\ JobInv

-----------------------------------------------------------------------------
(* Bodies and identities                                                   *)

LEMMA BodyFacts ==
  ASSUME NEW b \in Bodies
  PROVE  /\ b \in BodyTypes
         /\ b.via \in Vias /\ b.items \in Seq(Deliveries) /\ b.wants \subseteq EventIds
         /\ b.compile \in BOOLEAN /\ b.key \in Keys /\ b.channel \in Channels
         /\ Len(b.items) \in Nat /\ Len(b.items) <= MaxItems
         /\ b.via \in {"batch", "webhook"} => Len(b.items) >= 1
         /\ b.via \in {"single", "direct", "memory"} =>
              Len(b.items) = 1 /\ b.items[1].item = Root
         /\ b.via \in {"memory", "webhook"} => b.compile
         /\ b.via # "compilation" => (b.via = "memory" <=> b.channel = "mcp")
<1>1. b \in BodyTypes
  BY BodiesAssumption
<1>2. /\ b.via \in Vias /\ b.items \in Seq(Deliveries) /\ b.wants \subseteq EventIds
      /\ b.compile \in BOOLEAN /\ b.key \in Keys /\ b.channel \in Channels
  BY <1>1 DEF BodyTypes
<1>3. Len(b.items) \in Nat /\ (b.items # << >> => Len(b.items) >= 1)
  BY <1>2
<1> QED BY <1>1, <1>2, <1>3, BodiesAssumption

\* Every delivery names an identity.
LEMMA NamesAreIds ==
  ASSUME TypeOK, NEW r \in Requests, Delivers(r), NEW n \in 1..Len(Body(r).items)
  PROVE  /\ n \in 1..MaxItems
         /\ Named(r, n) \in EventIds
         /\ Body(r).items[n].hash \in Payloads
<1> DEFINE b == Body(r)
<1>1. b \in Bodies /\ b.via # "compilation"
  BY DEF Delivers, Busy, Body, TypeOK, RequestOK
<1>2. n \in 1..MaxItems
  BY <1>1, BodyFacts, FaultsAssumption
<1>3. b.items[n] \in Deliveries
  BY <1>1, BodyFacts
<1>4. b.items[n].item \in Items /\ b.items[n].hash \in Payloads
  BY <1>3 DEF Deliveries
<1>5. CASE b.via = "memory"
  <2>1. Len(b.items) = 1 /\ b.items[1].item = Root /\ b.channel = "mcp"
    BY <1>1, <1>5, BodyFacts
  <2>2. n = 1
    BY <2>1
  <2>3. Named(r, n) = <<"mcp", r, Root>>
    BY <1>5, <2>1, <2>2 DEF Named, Delivery
  <2> QED BY <1>2, <1>4, <2>3 DEF EventIds
<1>6. CASE b.via # "memory"
  <2>1. b.channel \in Channels \ {"mcp"} /\ b.key \in Keys
    BY <1>1, <1>6, BodyFacts
  <2>2. Named(r, n) = <<b.channel, b.key, b.items[n].item>>
    BY <1>6 DEF Named, Delivery
  <2> QED BY <1>2, <1>4, <2>1, <2>2 DEF EventIds
<1> QED BY <1>5, <1>6

(* Records                                                                 *)

\* A request's record p that differs from q in these fields at most.
OnlyChanges(p, q, fields) ==
  /\ IsRequest(p)
  /\ "pc" \notin fields => p.pc = q.pc
  /\ "body" \notin fields => p.body = q.body
  /\ "at" \notin fields => p.at = q.at
  /\ "results" \notin fields => p.results = q.results
  /\ "queued" \notin fields => p.queued = q.queued
  /\ "todo" \notin fields => p.todo = q.todo
  /\ "created" \notin fields => p.created = q.created
  /\ "lost" \notin fields => p.lost = q.lost
  /\ "said" \notin fields => p.said = q.said

LEMMA SetField ==
  ASSUME NEW q, IsRequest(q), NEW x
  PROVE
    /\ LET p == [q EXCEPT !.pc = x] IN OnlyChanges(p, q, {"pc"}) /\ p.pc = x
    /\ LET p == [q EXCEPT !.body = x] IN OnlyChanges(p, q, {"body"}) /\ p.body = x
    /\ LET p == [q EXCEPT !.at = x] IN OnlyChanges(p, q, {"at"}) /\ p.at = x
    /\ LET p == [q EXCEPT !.results = x] IN OnlyChanges(p, q, {"results"}) /\ p.results = x
    /\ LET p == [q EXCEPT !.queued = x] IN OnlyChanges(p, q, {"queued"}) /\ p.queued = x
    /\ LET p == [q EXCEPT !.todo = x] IN OnlyChanges(p, q, {"todo"}) /\ p.todo = x
    /\ LET p == [q EXCEPT !.created = x] IN OnlyChanges(p, q, {"created"}) /\ p.created = x
    /\ LET p == [q EXCEPT !.lost = x] IN OnlyChanges(p, q, {"lost"}) /\ p.lost = x
    /\ LET p == [q EXCEPT !.said = x] IN OnlyChanges(p, q, {"said"}) /\ p.said = x
<1> DEFINE f_pc == q.pc
           f_body == q.body
           f_at == q.at
           f_results == q.results
           f_queued == q.queued
           f_todo == q.todo
           f_created == q.created
           f_lost == q.lost
           f_said == q.said
<1>1. q = [pc |-> f_pc, body |-> f_body, at |-> f_at, results |-> f_results, queued |-> f_queued,
           todo |-> f_todo, created |-> f_created, lost |-> f_lost, said |-> f_said]
  BY DEF IsRequest
<1> HIDE DEF f_pc, f_body, f_at, f_results, f_queued, f_todo, f_created, f_lost, f_said
<1>2. [q EXCEPT !.pc = x] =
          [pc |-> x, body |-> f_body, at |-> f_at, results |-> f_results, queued |-> f_queued,
           todo |-> f_todo, created |-> f_created, lost |-> f_lost, said |-> f_said]
  BY <1>1
<1>b. [q EXCEPT !.body = x] =
          [pc |-> f_pc, body |-> x, at |-> f_at, results |-> f_results, queued |-> f_queued,
           todo |-> f_todo, created |-> f_created, lost |-> f_lost, said |-> f_said]
  BY <1>1
<1>3. [q EXCEPT !.at = x] =
          [pc |-> f_pc, body |-> f_body, at |-> x, results |-> f_results, queued |-> f_queued,
           todo |-> f_todo, created |-> f_created, lost |-> f_lost, said |-> f_said]
  BY <1>1
<1>4. [q EXCEPT !.results = x] =
          [pc |-> f_pc, body |-> f_body, at |-> f_at, results |-> x, queued |-> f_queued,
           todo |-> f_todo, created |-> f_created, lost |-> f_lost, said |-> f_said]
  BY <1>1
<1>5. [q EXCEPT !.queued = x] =
          [pc |-> f_pc, body |-> f_body, at |-> f_at, results |-> f_results, queued |-> x,
           todo |-> f_todo, created |-> f_created, lost |-> f_lost, said |-> f_said]
  BY <1>1
<1>6. [q EXCEPT !.todo = x] =
          [pc |-> f_pc, body |-> f_body, at |-> f_at, results |-> f_results, queued |-> f_queued,
           todo |-> x, created |-> f_created, lost |-> f_lost, said |-> f_said]
  BY <1>1
<1>7. [q EXCEPT !.created = x] =
          [pc |-> f_pc, body |-> f_body, at |-> f_at, results |-> f_results, queued |-> f_queued,
           todo |-> f_todo, created |-> x, lost |-> f_lost, said |-> f_said]
  BY <1>1
<1>8. [q EXCEPT !.lost = x] =
          [pc |-> f_pc, body |-> f_body, at |-> f_at, results |-> f_results, queued |-> f_queued,
           todo |-> f_todo, created |-> f_created, lost |-> x, said |-> f_said]
  BY <1>1
<1>9. [q EXCEPT !.said = x] =
          [pc |-> f_pc, body |-> f_body, at |-> f_at, results |-> f_results, queued |-> f_queued,
           todo |-> f_todo, created |-> f_created, lost |-> f_lost, said |-> x]
  BY <1>1
<1> QED BY <1>1, <1>b, <1>2, <1>3, <1>4, <1>5, <1>6, <1>7, <1>8, <1>9 DEF OnlyChanges, IsRequest

LEMMA SetPc ==
  ASSUME NEW q, IsRequest(q), NEW x
  PROVE  LET p == [q EXCEPT !.pc = x] IN OnlyChanges(p, q, {"pc"}) /\ p.pc = x
  BY SetField

LEMMA SetBody ==
  ASSUME NEW q, IsRequest(q), NEW x
  PROVE  LET p == [q EXCEPT !.body = x] IN OnlyChanges(p, q, {"body"}) /\ p.body = x
  BY SetField

LEMMA SetAt ==
  ASSUME NEW q, IsRequest(q), NEW x
  PROVE  LET p == [q EXCEPT !.at = x] IN OnlyChanges(p, q, {"at"}) /\ p.at = x
  BY SetField

LEMMA SetResults ==
  ASSUME NEW q, IsRequest(q), NEW x
  PROVE  LET p == [q EXCEPT !.results = x] IN OnlyChanges(p, q, {"results"}) /\ p.results = x
  BY SetField

LEMMA SetTodo ==
  ASSUME NEW q, IsRequest(q), NEW x
  PROVE  LET p == [q EXCEPT !.todo = x] IN OnlyChanges(p, q, {"todo"}) /\ p.todo = x
  BY SetField

LEMMA SetQueued ==
  ASSUME NEW q, IsRequest(q), NEW x
  PROVE  LET p == [q EXCEPT !.queued = x] IN OnlyChanges(p, q, {"queued"}) /\ p.queued = x
  BY SetField

LEMMA SetCreated ==
  ASSUME NEW q, IsRequest(q), NEW x
  PROVE  LET p == [q EXCEPT !.created = x] IN OnlyChanges(p, q, {"created"}) /\ p.created = x
  BY SetField

LEMMA SetLost ==
  ASSUME NEW q, IsRequest(q), NEW x
  PROVE  LET p == [q EXCEPT !.lost = x] IN OnlyChanges(p, q, {"lost"}) /\ p.lost = x
  BY SetField

LEMMA SetSaid ==
  ASSUME NEW q, IsRequest(q), NEW x
  PROVE  LET p == [q EXCEPT !.said = x] IN OnlyChanges(p, q, {"said"}) /\ p.said = x
  BY SetField

LEMMA AnsweredIs ==
  ASSUME NEW q, IsRequest(q), NEW code, NEW j, NEW results
  PROVE  LET p == Answered(q, code, j, results) IN
         /\ OnlyChanges(p, q, {"pc", "said"})
         /\ p.pc = "done" /\ p.said.code = code /\ p.said.job = j
         /\ p.said.results = results /\ ~p.said.duplicate
<1> DEFINE said == Answer(code, j, results, FALSE)
           q1 == [q EXCEPT !.pc = "done"]
           p == [q1 EXCEPT !.said = said]
<1>1. said.code = code /\ said.job = j /\ said.results = results /\ ~said.duplicate
  BY DEF Answer
<1>2. OnlyChanges(q1, q, {"pc"}) /\ q1.pc = "done"
  BY SetPc
<1> HIDE DEF said, q1
<1>3. IsRequest(q1)
  BY <1>2 DEF OnlyChanges
<1>4. OnlyChanges(p, q1, {"said"}) /\ p.said = said
  BY <1>3, SetSaid
<1>5. Answered(q, code, j, results) = p
  BY DEF Answered, q1, said
<1> HIDE DEF p
<1> QED BY <1>1, <1>2, <1>4, <1>5 DEF OnlyChanges

LEMMA RepeatedIs ==
  ASSUME NEW q, IsRequest(q), NEW j, NEW results
  PROVE  LET p == Repeated(q, j, results) IN
         /\ OnlyChanges(p, q, {"pc", "said"})
         /\ p.pc = "done" /\ p.said.code = "ok" /\ p.said.job = j
         /\ p.said.results = results /\ p.said.duplicate
<1> DEFINE said == Answer("ok", j, results, TRUE)
           q1 == [q EXCEPT !.pc = "done"]
           p == [q1 EXCEPT !.said = said]
<1>1. said.code = "ok" /\ said.job = j /\ said.results = results /\ said.duplicate
  BY DEF Answer
<1>2. OnlyChanges(q1, q, {"pc"}) /\ q1.pc = "done"
  BY SetPc
<1> HIDE DEF said, q1
<1>3. IsRequest(q1)
  BY <1>2 DEF OnlyChanges
<1>4. OnlyChanges(p, q1, {"said"}) /\ p.said = said
  BY <1>3, SetSaid
<1>5. Repeated(q, j, results) = p
  BY DEF Repeated, q1, said
<1> HIDE DEF p
<1> QED BY <1>1, <1>2, <1>4, <1>5 DEF OnlyChanges

LEMMA MovesOn ==
  ASSUME NEW q, IsRequest(q), NEW x
  PROVE  /\ OnlyChanges(At(q, x), q, {"pc"}) /\ At(q, x).pc = x
         /\ OnlyChanges(Noted(q, x), q, {"results"}) /\ Noted(q, x).results = Append(q.results, x)
         /\ OnlyChanges(Leaves(q, x), q, {"todo"}) /\ Leaves(q, x).todo = x
<1>1. OnlyChanges(At(q, x), q, {"pc"}) /\ At(q, x).pc = x
  BY SetPc DEF At
<1>2. OnlyChanges(Noted(q, x), q, {"results"}) /\ Noted(q, x).results = Append(q.results, x)
  <2> DEFINE results == Append(q.results, x)
             p == [q EXCEPT !.results = results]
  <2> HIDE DEF results
  <2>1. OnlyChanges(p, q, {"results"}) /\ p.results = results
    BY SetResults
  <2>2. Noted(q, x) = p
    BY DEF Noted, results
  <2> HIDE DEF p
  <2> QED BY <2>1, <2>2 DEF results
<1>3. OnlyChanges(Leaves(q, x), q, {"todo"}) /\ Leaves(q, x).todo = x
  BY SetTodo DEF Leaves
<1> QED BY <1>1, <1>2, <1>3

LEMMA LosesIs ==
  ASSUME NEW q, IsRequest(q), NEW j
  PROVE  OnlyChanges(Loses(q, j), q, {"lost"}) /\ Loses(q, j).lost = q.lost \union {j}
<1> DEFINE lost == q.lost \union {j}
           p == [q EXCEPT !.lost = lost]
<1> HIDE DEF lost
<1>1. OnlyChanges(p, q, {"lost"}) /\ p.lost = lost
  BY SetLost
<1>2. Loses(q, j) = p
  BY DEF Loses, lost
<1> HIDE DEF p
<1> QED BY <1>1, <1>2 DEF lost

LEMMA NextItemIs ==
  ASSUME NEW q, IsRequest(q), q.body \in Bodies, q.at \in Nat \ {0}
  PROVE  LET p == NextItem(q) IN
         /\ OnlyChanges(p, q, {"pc", "at", "said"})
         /\ \/ p.pc = "find" /\ p.at = q.at + 1 /\ p.at <= Len(q.body.items)
            \/ p.pc = "findJob" /\ p.at = q.at /\ q.body.via = "batch"
            \/ /\ p.pc = "done" /\ p.at = q.at /\ q.body.via # "batch"
               /\ p.said.job = None /\ p.said.code = "ok"
<1>1. Len(q.body.items) \in Nat
  BY BodyFacts
<1>2. CASE q.at < Len(q.body.items)
  <2> DEFINE q1 == [q EXCEPT !.at = q.at + 1]
             p == [q1 EXCEPT !.pc = "find"]
  <2>1. OnlyChanges(q1, q, {"at"}) /\ q1.at = q.at + 1
    BY SetAt
  <2> HIDE DEF q1
  <2>a. IsRequest(q1)
    BY <2>1 DEF OnlyChanges
  <2>2. OnlyChanges(p, q1, {"pc"}) /\ p.pc = "find"
    BY <2>a, SetPc
  <2>3. NextItem(q) = p
    BY <1>2 DEF NextItem, q1
  <2> HIDE DEF p
  <2>4. p.at = q.at + 1 /\ p.at <= Len(q.body.items)
    BY <1>1, <1>2, <2>1, <2>2 DEF OnlyChanges
  <2>5. OnlyChanges(p, q, {"pc", "at", "said"})
    BY <2>1, <2>2 DEF OnlyChanges
  <2> QED BY <2>2, <2>3, <2>4, <2>5
<1>3. CASE ~(q.at < Len(q.body.items)) /\ q.body.via = "batch"
  <2> DEFINE p == At(q, "findJob")
  <2>1. OnlyChanges(p, q, {"pc"}) /\ p.pc = "findJob"
    BY MovesOn
  <2>2. NextItem(q) = p
    BY <1>3 DEF NextItem
  <2> HIDE DEF p
  <2> QED BY <1>3, <2>1, <2>2 DEF OnlyChanges
<1>4. CASE ~(q.at < Len(q.body.items)) /\ q.body.via # "batch"
  <2> DEFINE p == Answered(q, "ok", None, q.results)
  <2>1. OnlyChanges(p, q, {"pc", "said"}) /\ p.pc = "done" /\ p.said.job = None /\ p.said.code = "ok"
    BY AnsweredIs
  <2>2. NextItem(q) = p
    BY <1>4 DEF NextItem
  <2> HIDE DEF p
  <2> QED BY <1>4, <2>1, <2>2 DEF OnlyChanges
<1> QED BY <1>2, <1>3, <1>4

LEMMA RequestFacts ==
  ASSUME TypeOK, NEW r \in Requests
  PROVE  /\ IsRequest(req[r]) /\ req[r].at \in Nat \ {0}
         /\ req[r].queued \subseteq EventIds /\ req[r].todo \subseteq EventIds
         /\ req[r].created \in BOOLEAN /\ req[r].lost \subseteq JobIds
         /\ ~Busy(r) => req[r] = Idle
         /\ Busy(r) => Body(r) \in Bodies /\ (Owner(r) <=> ~Asker(r))
         /\ Owner(r) => Delivers(r)
         /\ Asker(r) => Body(r).via \in {"batch", "compilation"}
<1>1. Busy(r) => Body(r) \in Bodies
  BY DEF TypeOK, RequestOK, Busy, Body
<1>2. Busy(r) => Body(r).via \in Vias
  BY <1>1, BodyFacts
<1>3. Owner(r) => Delivers(r)
  BY DEF Owner, Delivers, OwnsEvents
<1>4. Asker(r) => Body(r).via \in {"batch", "compilation"}
  BY <1>2 DEF Asker, OwnsEvents, Vias
<1>5. ~Busy(r) => req[r] = Idle
  BY DEF TypeOK, RequestOK, Busy
<1>6. Busy(r) => (Owner(r) <=> ~Asker(r))
  BY DEF Owner, Asker
<1> QED BY <1>1, <1>3, <1>4, <1>5, <1>6 DEF TypeOK, RequestOK

\* A step of one request.
LEMMA Moved ==
  ASSUME TypeOK, NEW r \in Requests, NEW q, Set(r, q)
  PROVE  /\ req'[r] = q /\ \A s \in Requests \ {r} : req'[s] = req[s]
         /\ DOMAIN req' = Requests /\ req' = [s \in Requests |-> req'[s]]
<1>1. DOMAIN req = Requests
  BY DEF TypeOK
<1> QED BY <1>1 DEF Set

-----------------------------------------------------------------------------
(* What each step does to its request                                      *)

LEMMA JobIsId ==
  ASSUME TypeOK, InOrder, Placed, NEW r \in Requests,
         Asker(r) \/ (Owner(r) /\ req[r].at \in 1..Len(Body(r).items))
  PROVE  Job(r) \in JobIds
<1>1. CASE Asker(r)
  <2>1. Body(r).via \in {"batch", "compilation"} /\ Body(r).key \in Keys /\ ~OwnsEvents(r)
    BY <1>1, RequestFacts, BodyFacts DEF Asker
  <2> QED BY <2>1 DEF Job, JobIds
<1>2. CASE Owner(r) /\ req[r].at \in 1..Len(Body(r).items)
  <2>1. Event(r) \in EventIds
    BY <1>2, NamesAreIds, RequestFacts DEF Event, Item, Named
  <2>2. Job(r) = <<"ingest_event", Event(r)>>
    BY <1>2 DEF Job, Owner, OwnsEvents
  <2> QED BY <2>1, <2>2 DEF JobIds
<1> QED BY <1>1, <1>2

\* What a request covers, now and next, and that it is events.
LEMMA CoversIs ==
  ASSUME NEW r \in Requests
  PROVE  /\ Owner(r) => Covers(r) = {Event(r)}
         /\ Asker(r) /\ Body(r).via = "batch" /\ Body(r).compile => Covers(r) = Accepted(r)
         /\ Asker(r) /\ Body(r).via = "batch" /\ ~Body(r).compile => Covers(r) = {}
         /\ Asker(r) /\ Body(r).via = "compilation" => Covers(r) = req[r].queued
<1>1. Owner(r) => Covers(r) = {Event(r)}
  <2> DEFINE own == {Event(r)}
  <2>1. Covers(r) = CASE OwnsEvents(r) -> own
                      [] Body(r).via = "batch" -> IF Body(r).compile THEN Accepted(r) ELSE {}
                      [] Body(r).via = "compilation" -> req[r].queued
    BY DEF Covers
  <2> HIDE DEF own
  <2>2. OwnsEvents(r) => Body(r).via # "batch" /\ Body(r).via # "compilation"
    BY DEF OwnsEvents
  <2>3. OwnsEvents(r) => Covers(r) = own
    BY <2>1, <2>2
  <2> QED BY <2>3 DEF Owner, own
<1>2. Asker(r) => ~OwnsEvents(r)
  BY DEF Asker
<1>3. Asker(r) /\ Body(r).via = "batch" /\ Body(r).compile => Covers(r) = Accepted(r)
  BY <1>2 DEF Covers
<1>4. Asker(r) /\ Body(r).via = "batch" /\ ~Body(r).compile => Covers(r) = {}
  BY <1>2 DEF Covers
<1>5. Asker(r) /\ Body(r).via = "compilation" => Covers(r) = req[r].queued
  BY <1>2 DEF Covers
<1> QED BY <1>1, <1>3, <1>4, <1>5

LEMMA CoversIsNext ==
  ASSUME NEW r \in Requests
  PROVE  (Owner(r) => Covers(r) = {Event(r)})'
<1>1. Owner(r) => Covers(r) = {Event(r)}
  BY CoversIs
<1> QED BY <1>1, PTL

LEMMA CoversAreIds ==
  ASSUME TypeOK, InOrder, NEW r \in Requests,
         Asker(r) \/ (Owner(r) /\ req[r].at \in 1..Len(Body(r).items))
  PROVE  Covers(r) \subseteq EventIds
<1>1. CASE Owner(r) /\ req[r].at \in 1..Len(Body(r).items)
  <2>1. Event(r) \in EventIds
    BY <1>1, NamesAreIds, RequestFacts DEF Event, Item, Named
  <2> QED BY <1>1, <2>1, CoversIs
<1>2. CASE Asker(r) /\ Body(r).via = "batch"
  <2>1. Delivers(r)
    BY <1>2 DEF Delivers, Asker
  <2>2. DOMAIN req[r].results \subseteq 1..Len(Body(r).items)
    <3>1. Len(Body(r).items) \in Nat /\ req[r].results \in Seq(Verdicts)
      BY <2>1, BodyFacts, RequestFacts DEF InOrder, Delivers
    <3>2. Len(req[r].results) <= Len(Body(r).items)
      BY <2>1 DEF InOrder
    <3> QED BY <3>1, <3>2
  <2>3. \A n \in DOMAIN req[r].results : Named(r, n) \in EventIds
    BY <2>1, <2>2, NamesAreIds
  <2>4. Accepted(r) \subseteq EventIds
    BY <2>3 DEF Accepted, Named
  <2> QED BY <1>2, <2>4, CoversIs
<1>3. CASE Asker(r) /\ Body(r).via = "compilation"
  BY <1>3, RequestFacts, CoversIs
<1> QED BY <1>1, <1>2, <1>3, RequestFacts

\* The places where a verdict takes a request.
LEMMA VerdictIs ==
  ASSUME TypeOK, InOrder, Placed, NEW r \in Requests, req[r].pc \in {"find", "insert"},
         NEW v \in Verdicts
  PROVE  LET p == Verdict(r, v)
             q == req[r] IN
         /\ OnlyChanges(p, q, {"pc", "at", "results", "said"})
         /\ p.results = Append(q.results, v)
         /\ \/ /\ p.pc = "find" /\ Body(r).via \in {"webhook", "batch"}
               /\ p.at = q.at + 1 /\ p.at <= Len(Body(r).items)
               /\ Owner(r) => v # "accepted"
            \/ /\ p.pc = "findJob" /\ p.at = q.at
               /\ Owner(r) => v = "accepted" /\ Body(r).compile
            \/ /\ p.pc = "done" /\ p.at = q.at /\ Owner(r) /\ p.said.job \in JobIds \union {None}
               /\ v = "accepted" => ~Body(r).compile
<1> DEFINE q == req[r]
           q1 == Noted(q, v)
           b == Body(r)
<1>1. /\ IsRequest(q) /\ q.body = b /\ b \in Bodies /\ q.at \in Nat \ {0} /\ Busy(r)
      /\ Delivers(r) /\ q.at \in 1..Len(b.items)
  <2>1. Busy(r) /\ Delivers(r)
    BY DEF Busy, InOrder
  <2>2. IsRequest(q) /\ b \in Bodies /\ q.at \in Nat \ {0}
    BY <2>1, RequestFacts
  <2>3. q.at <= Len(b.items)
    BY DEF InOrder
  <2>4. Len(b.items) \in Nat
    BY <2>2, BodyFacts
  <2> QED BY <2>1, <2>2, <2>3, <2>4 DEF Body
<1>2. OnlyChanges(q1, q, {"results"}) /\ q1.results = Append(q.results, v)
  BY <1>1, MovesOn
<1>3. b.via \in {"single", "direct", "memory", "webhook", "batch"}
  BY <1>1, BodyFacts DEF Delivers, Vias, Body
<1>4. b.via \in {"memory", "webhook"} => b.compile
  BY <1>1, BodyFacts
<1>5. OwnJob(r) \in JobIds \union {None}
  BY DEF OwnJob, Exists, TypeOK
<1>6. Owner(r) <=> b.via # "batch"
  BY <1>1, <1>3 DEF Owner, OwnsEvents
<1>7. b.compile \in BOOLEAN
  BY <1>1, BodyFacts
<1> DEFINE
      Ends(p) ==
        /\ OnlyChanges(p, q1, {"pc", "at", "said"})
        /\ \/ /\ p.pc = "find" /\ b.via \in {"webhook", "batch"}
              /\ p.at = q1.at + 1 /\ p.at <= Len(b.items)
              /\ Owner(r) => v # "accepted"
           \/ /\ p.pc = "findJob" /\ p.at = q1.at
              /\ Owner(r) => v = "accepted" /\ b.compile
           \/ /\ p.pc = "done" /\ p.at = q1.at /\ Owner(r) /\ p.said.job \in JobIds \union {None}
              /\ v = "accepted" => ~b.compile
<1>8. IsRequest(q1) /\ q1.body = b /\ q1.at = q.at
  BY <1>1, <1>2 DEF OnlyChanges
<1> HIDE DEF q1, b, q
<1>n. ASSUME b.via = "batch" \/ (b.via = "webhook" /\ v # "accepted") PROVE Ends(NextItem(q1))
  <2>1. q1.at \in Nat \ {0} /\ q1.body \in Bodies
    BY <1>1, <1>8
  <2>2. LET p == NextItem(q1) IN
          /\ OnlyChanges(p, q1, {"pc", "at", "said"})
          /\ \/ p.pc = "find" /\ p.at = q1.at + 1 /\ p.at <= Len(q1.body.items)
             \/ p.pc = "findJob" /\ p.at = q1.at /\ q1.body.via = "batch"
             \/ /\ p.pc = "done" /\ p.at = q1.at /\ q1.body.via # "batch"
                /\ p.said.job = None /\ p.said.code = "ok"
    BY <1>8, <2>1, NextItemIs
  <2> DEFINE p == NextItem(q1)
  <2> HIDE DEF p
  <2>3. Ends(p)
    BY <1>6, <1>8, <1>n, <2>2 DEF p
  <2> QED BY <2>3 DEF p
<1>a. ASSUME NEW code, NEW j \in JobIds \union {None}, NEW results,
             b.via # "batch", v = "accepted" => ~b.compile
      PROVE  Ends(Answered(q1, code, j, results))
  <2> DEFINE p == Answered(q1, code, j, results)
  <2>1. OnlyChanges(p, q1, {"pc", "said"}) /\ p.pc = "done" /\ p.said.job = j
    BY <1>8, AnsweredIs
  <2> HIDE DEF p
  <2> QED BY <1>6, <1>a, <2>1 DEF OnlyChanges, p
<1>r. ASSUME NEW j \in JobIds \union {None}, NEW results,
             b.via # "batch", v = "accepted" => ~b.compile
      PROVE  Ends(Repeated(q1, j, results))
  <2> DEFINE p == Repeated(q1, j, results)
  <2>1. OnlyChanges(p, q1, {"pc", "said"}) /\ p.pc = "done" /\ p.said.job = j
    BY <1>8, RepeatedIs
  <2> HIDE DEF p
  <2> QED BY <1>6, <1>r, <2>1 DEF OnlyChanges, p
<1>f. ASSUME v = "accepted", b.compile \/ b.via = "batch"
      PROVE  Ends(At(q1, "findJob"))
  <2> DEFINE p == At(q1, "findJob")
  <2>1. OnlyChanges(p, q1, {"pc"}) /\ p.pc = "findJob"
    BY <1>8, MovesOn
  <2> HIDE DEF p
  <2> QED BY <1>6, <1>f, <2>1 DEF OnlyChanges, p
<1> HIDE DEF Ends
<1>13. Ends(Verdict(r, v))
  <2>9. CASE b.via \in {"single", "direct"}
    <3>1. Verdict(r, v) = SingleVerdict(r, q1, v)
      BY <2>9 DEF Verdict, DirectVerdict, b, q, q1
    <3>2. CASE v = "accepted" /\ b.compile
      <4>1. Verdict(r, v) = At(q1, "findJob")
        BY <1>8, <3>1, <3>2 DEF SingleVerdict
      <4> QED BY <1>f, <3>2, <4>1
    <3>3. CASE v = "accepted" /\ ~b.compile
      <4>1. Verdict(r, v) = Answered(q1, "ok", None, q1.results)
        BY <1>8, <3>1, <3>3 DEF SingleVerdict
      <4> QED BY <2>9, <1>a, <3>3, <4>1
    <3>4. CASE v = "duplicate"
      <4>1. Verdict(r, v) = Repeated(q1, OwnJob(r), q1.results)
        BY <3>1, <3>4 DEF SingleVerdict
      <4> QED BY <1>5, <2>9, <1>r, <3>4, <4>1
    <3>5. CASE v = "conflict"
      <4>1. Verdict(r, v) = Answered(q1, "conflict", None, q1.results)
        BY <3>1, <3>5 DEF SingleVerdict
      <4> QED BY <2>9, <1>a, <3>5, <4>1
    <3>6. CASE v = "failed"
      <4>1. Verdict(r, v) = Answered(q1, "error", None, q1.results)
        BY <3>1, <3>6 DEF SingleVerdict
      <4> QED BY <2>9, <1>a, <3>6, <4>1
    <3> QED BY <1>7, <3>2, <3>3, <3>4, <3>5, <3>6 DEF Verdicts
  <2>10. CASE b.via = "memory"
    <3>1. Verdict(r, v) = MemoryVerdict(q1, v)
      BY <2>10 DEF Verdict, b, q, q1
    <3>2. CASE v = "accepted"
      BY <1>4, <2>10, <1>f, <3>1, <3>2 DEF MemoryVerdict
    <3>3. CASE v # "accepted"
      <4>1. Verdict(r, v) = Answered(q1, "error", None, q1.results)
        BY <3>1, <3>3 DEF MemoryVerdict
      <4> QED BY <2>10, <1>a, <3>3, <4>1
    <3> QED BY <3>2, <3>3
  <2>11. CASE b.via = "webhook"
    <3>1. Verdict(r, v) = WebhookVerdict(q1, v)
      BY <2>11 DEF Verdict, b, q, q1
    <3>2. CASE v = "accepted"
      BY <1>4, <2>11, <1>f, <3>1, <3>2 DEF WebhookVerdict
    <3>3. CASE v = "failed"
      <4>1. Verdict(r, v) = Answered(q1, "error", None, q1.results)
        BY <3>1, <3>3 DEF WebhookVerdict
      <4> QED BY <2>11, <1>a, <3>3, <4>1
    <3>4. CASE v \notin {"accepted", "failed"}
      BY <2>11, <1>n, <3>1, <3>4 DEF WebhookVerdict
    <3> QED BY <3>2, <3>3, <3>4
  <2>12. CASE b.via = "batch"
    BY <2>12, <1>n DEF Verdict, BatchVerdict, b, q, q1
  <2> QED BY <1>3, <2>9, <2>10, <2>11, <2>12
<1> DEFINE p == Verdict(r, v)
<1> HIDE DEF p
<1>15. OnlyChanges(p, q, {"pc", "at", "results", "said"}) /\ p.results = Append(q.results, v)
  BY <1>2, <1>13 DEF OnlyChanges, Ends, p
<1> QED BY <1>8, <1>13, <1>15 DEF Ends, p, b, q

\* What follows a message sent.
LEMMA AfterSendIs ==
  ASSUME TypeOK, InOrder, Placed, NEW r \in Requests, req[r].pc = "send"
  PROVE  LET p == AfterSend(r)
             q == req[r] IN
         /\ OnlyChanges(p, q, {"pc", "at", "todo", "said"}) /\ p.todo = {}
         /\ \/ p.pc = "find" /\ Owner(r) /\ p.at = q.at + 1 /\ p.at <= Len(Body(r).items)
            \/ p.pc = "wait" /\ Owner(r) /\ p.at = q.at
            \/ /\ p.pc = "done" /\ p.at = q.at /\ p.said.job \in JobIds \union {None}
               /\ Asker(r) =>
                    /\ p.said.code = "ok" /\ ~p.said.duplicate
                    /\ p.said.job = Job(r) /\ p.said.results = q.results
<1> DEFINE q1 == Leaves(req[r], {})
           b == Body(r)
<1>1. IsRequest(req[r]) /\ req[r].body = b /\ b \in Bodies /\ Busy(r) /\ req[r].at \in Nat \ {0}
  BY RequestFacts DEF Busy, Body
<1>2. OnlyChanges(q1, req[r], {"todo"}) /\ q1.todo = {}
  BY <1>1, MovesOn
<1> HIDE DEF q1
<1>3. IsRequest(q1) /\ q1.body = b /\ q1.at = req[r].at /\ q1.results = req[r].results
  BY <1>1, <1>2 DEF OnlyChanges
<1>4. Job(r) \in JobIds
  BY DEF Placed, Exists, TypeOK
<1>5. Owner(r) <=> b.via \in {"single", "direct", "memory", "webhook"}
  BY <1>1 DEF Owner, OwnsEvents
<1>6. Owner(r) <=> ~Asker(r)
  BY <1>1, RequestFacts
<1> DEFINE p == AfterSend(r)
<1>7. CASE b.via = "webhook"
  <2>1. p = NextItem(q1)
    BY <1>7 DEF AfterSend, q1
  <2> HIDE DEF p
  <2>2. /\ OnlyChanges(p, q1, {"pc", "at", "said"})
        /\ \/ p.pc = "find" /\ p.at = q1.at + 1 /\ p.at <= Len(q1.body.items)
           \/ p.pc = "findJob" /\ p.at = q1.at /\ q1.body.via = "batch"
           \/ /\ p.pc = "done" /\ p.at = q1.at /\ q1.body.via # "batch"
              /\ p.said.job = None /\ p.said.code = "ok"
    BY <1>1, <1>3, <2>1, NextItemIs
  <2>3. OnlyChanges(p, req[r], {"pc", "at", "todo", "said"}) /\ p.todo = {}
    BY <1>2, <2>2 DEF OnlyChanges
  <2> QED BY <1>3, <1>5, <1>6, <1>7, <2>2, <2>3 DEF p
<1>8. CASE b.via = "single" /\ b.wait
  <2>1. p = At(q1, "wait")
    BY <1>8 DEF AfterSend, q1
  <2> HIDE DEF p
  <2>2. OnlyChanges(p, q1, {"pc"}) /\ p.pc = "wait"
    BY <1>3, <2>1, MovesOn
  <2>3. /\ OnlyChanges(p, req[r], {"pc", "at", "todo", "said"}) /\ p.at = req[r].at
        /\ p.todo = {}
    BY <1>2, <2>2 DEF OnlyChanges
  <2> QED BY <1>5, <1>8, <2>2, <2>3 DEF p
<1>9. CASE b.via # "webhook" /\ ~(b.via = "single" /\ b.wait)
  <2>1. p = Answered(q1, "ok", Job(r), q1.results)
    BY <1>9 DEF AfterSend, q1
  <2> HIDE DEF p
  <2>2. /\ OnlyChanges(p, q1, {"pc", "said"}) /\ p.pc = "done"
        /\ p.said.code = "ok" /\ ~p.said.duplicate
        /\ p.said.job = Job(r) /\ p.said.results = req[r].results
    BY <1>3, <2>1, AnsweredIs
  <2>3. /\ OnlyChanges(p, req[r], {"pc", "at", "todo", "said"}) /\ p.at = req[r].at
        /\ p.todo = {}
    BY <1>2, <2>2 DEF OnlyChanges
  <2> QED BY <1>4, <2>2, <2>3 DEF p
<1> QED BY <1>7, <1>8, <1>9

\* A request whose job is new.
LEMMA CreatedIs ==
  ASSUME TypeOK, NEW r \in Requests, Busy(r)
  PROVE  LET p == JobCreated(r, TRUE)
             q == req[r] IN
         /\ OnlyChanges(p, q, {"pc", "created", "todo"}) /\ p.todo = Covers(r)
         /\ p.created /\ p.created \in BOOLEAN
         /\ \/ p.pc = "rows" /\ (Body(r).via = "batch" => Body(r).compile)
               /\ (Body(r).via = "compilation" => q.queued # {})
            \/ /\ p.pc = "complete" /\ Asker(r)
               /\ Body(r).via = "batch" => ~Body(r).compile
               /\ Body(r).via = "compilation" => q.queued = {}
<1> DEFINE b == Body(r)
           yes == TRUE
           q1 == [req[r] EXCEPT !.created = yes]
           q2 == Leaves(q1, Covers(r))
<1>1. IsRequest(req[r]) /\ req[r].body = b /\ b \in Bodies
  BY RequestFacts DEF Body
<1>2. yes /\ yes \in BOOLEAN
  OBVIOUS
<1> HIDE DEF yes
<1>3. OnlyChanges(q1, req[r], {"created"}) /\ q1.created = yes
  BY <1>1, SetCreated
<1>4. q1 = [req[r] EXCEPT !.created = TRUE]
  BY DEF yes
<1> HIDE DEF q1
<1>5. IsRequest(q1)
  BY <1>3 DEF OnlyChanges
<1>6. OnlyChanges(q2, q1, {"todo"}) /\ q2.todo = Covers(r)
  BY <1>5, MovesOn
<1>7. q2 = Leaves([req[r] EXCEPT !.created = TRUE], Covers(r))
  BY <1>4
<1> HIDE DEF q2
<1>8. /\ IsRequest(q2) /\ OnlyChanges(q2, req[r], {"created", "todo"})
      /\ q2.created /\ q2.created \in BOOLEAN /\ q2.body = b /\ q2.queued = req[r].queued
  BY <1>1, <1>2, <1>3, <1>6 DEF OnlyChanges
<1>9. ASSUME NEW x PROVE LET p == At(q2, x) IN
        /\ OnlyChanges(p, req[r], {"pc", "created", "todo"}) /\ p.todo = Covers(r)
        /\ p.created /\ p.created \in BOOLEAN /\ p.pc = x
  <2> DEFINE p == At(q2, x)
  <2>1. OnlyChanges(p, q2, {"pc"}) /\ p.pc = x
    BY <1>8, MovesOn
  <2> HIDE DEF p
  <2>2. /\ OnlyChanges(p, req[r], {"pc", "created", "todo"}) /\ p.todo = Covers(r)
        /\ p.created /\ p.created \in BOOLEAN
    BY <1>6, <1>8, <2>1 DEF OnlyChanges
  <2> QED BY <2>1, <2>2 DEF p
<1>10. b.via \in Vias /\ b.compile \in BOOLEAN
  BY <1>1, BodyFacts
<1> DEFINE p == JobCreated(r, TRUE)
<1>11. CASE OwnsEvents(r)
  <2>1. p = At(q2, "rows")
    BY <1>7, <1>11 DEF JobCreated, OwnsEvents
  <2> HIDE DEF p
  <2>2. b.via \notin {"batch", "compilation"}
    BY <1>11 DEF OwnsEvents
  <2> QED BY <1>9, <2>1, <2>2 DEF p
<1>12. CASE b.via = "batch"
  <2>0. Asker(r)
    BY <1>12 DEF Asker, OwnsEvents
  <2>1. p = BatchCreated(q2, Job(r))
    BY <1>7, <1>12 DEF JobCreated, OwnsEvents
  <2>2. p = At(q2, IF b.compile THEN "rows" ELSE "complete")
    BY <1>8, <2>1 DEF BatchCreated
  <2> HIDE DEF p
  <2>3. CASE b.compile
    BY <1>9, <1>12, <2>2, <2>3 DEF p
  <2>4. CASE ~b.compile
    BY <1>9, <1>12, <2>0, <2>2, <2>4 DEF p
  <2> QED BY <2>3, <2>4
<1>13. CASE b.via = "compilation"
  <2>0. Asker(r)
    BY <1>13 DEF Asker, OwnsEvents
  <2>1. p = CompilationCreated(q2, Job(r))
    BY <1>7, <1>13 DEF JobCreated, OwnsEvents
  <2>2. CASE req[r].queued # {}
    <3>1. p = At(q2, "rows")
      BY <1>8, <2>1, <2>2 DEF CompilationCreated
    <3> HIDE DEF p
    <3> QED BY <1>9, <1>13, <2>2, <3>1 DEF p
  <2>3. CASE req[r].queued = {}
    <3>1. p = At(q2, "complete")
      BY <1>8, <2>1, <2>3 DEF CompilationCreated
    <3> HIDE DEF p
    <3> QED BY <1>9, <1>13, <2>0, <2>3, <3>1 DEF p
  <2> QED BY <2>2, <2>3
<1> QED BY <1>10, <1>11, <1>12, <1>13 DEF Vias, OwnsEvents

\* An answer given before the request has made a job, and what it repeats.
Repeats(r, said) ==
  /\ Exists(Job(r))
  /\ said.results = SnapshotResults(Job(r))
  /\ IF Body(r).via = "batch"
     THEN job[Job(r)].snapshot # None /\ said.job = SnapshotJob(Job(r))
     ELSE said.job = Job(r)
Answers(r, p) ==
  /\ OnlyChanges(p, req[r], {"pc", "todo", "said"}) /\ p.pc = "done"
  /\ p.said.job \in JobIds \union {None} /\ p.todo \subseteq EventIds
  /\ p.said.duplicate => Repeats(r, p.said)

LEMMA AnswersOnce ==
  ASSUME TypeOK, NEW r \in Requests, NEW code, NEW j \in JobIds \union {None}, NEW results
  PROVE  Answers(r, Answered(req[r], code, j, results))
<1> DEFINE p == Answered(req[r], code, j, results)
<1>1. /\ OnlyChanges(p, req[r], {"pc", "said"}) /\ p.pc = "done" /\ p.said.job = j
      /\ ~p.said.duplicate
  BY RequestFacts, AnsweredIs
<1> HIDE DEF p
<1>2. OnlyChanges(p, req[r], {"pc", "todo", "said"}) /\ p.todo \subseteq EventIds
  BY <1>1, RequestFacts DEF OnlyChanges
<1> QED BY <1>1, <1>2 DEF Answers, p

LEMMA SnapshotsName ==
  ASSUME TypeOK, NEW j \in DOMAIN job
  PROVE  SnapshotJob(j) \in JobIds \union {None}
  BY DEF TypeOK, IsJob, SnapshotJob

LEMMA BatchRepeats ==
  ASSUME TypeOK, NEW r \in Requests, Asker(r), Body(r).via = "batch", Exists(Job(r)),
         job[Job(r)].snapshot # None
  PROVE  Answers(r, Repeated(req[r], SnapshotJob(Job(r)), SnapshotResults(Job(r))))
<1> DEFINE j == SnapshotJob(Job(r))
           results == SnapshotResults(Job(r))
           p == Repeated(req[r], j, results)
<1>0. IsRequest(req[r])
  BY RequestFacts
<1>1. /\ OnlyChanges(p, req[r], {"pc", "said"}) /\ p.pc = "done" /\ p.said.job = j
      /\ p.said.results = results
  BY <1>0, RepeatedIs
<1>2. j \in JobIds \union {None}
  BY SnapshotsName DEF Exists
<1> HIDE DEF p
<1>3. OnlyChanges(p, req[r], {"pc", "todo", "said"}) /\ p.todo \subseteq EventIds
  BY <1>1, RequestFacts DEF OnlyChanges
<1> QED BY <1>1, <1>2, <1>3 DEF Answers, Repeats, p

LEMMA JobFailedIs ==
  ASSUME TypeOK, NEW r \in Requests, Asker(r), ~req[r].created
  PROVE  Answers(r, JobFailed(r))
<1>1. Body(r).via \in {"batch", "compilation"} /\ IsRequest(req[r])
  BY RequestFacts
<1>2. CASE Body(r).via = "batch"
  <2>1. JobFailed(r) = Answered(req[r], "ok", None, req[r].results)
    BY <1>2 DEF JobFailed
  <2> QED BY <1>1, <2>1, AnswersOnce
<1>3. CASE Body(r).via = "compilation"
  <2>1. JobFailed(r) = Answered(req[r], "error", None, req[r].results)
    BY <1>3 DEF JobFailed
  <2> QED BY <1>1, <2>1, AnswersOnce
<1> QED BY <1>1, <1>2, <1>3

LEMMA JobConflictIs ==
  ASSUME TypeOK, InOrder, Placed, NEW r \in Requests, Asker(r), Exists(Job(r))
  PROVE  Answers(r, JobConflict(r))
<1>1. Body(r).via \in {"batch", "compilation"} /\ IsRequest(req[r]) /\ Job(r) \in JobIds
  BY RequestFacts, JobIsId
<1>2. CASE Body(r).via = "compilation"
  <2>1. JobConflict(r) = Answered(req[r], "conflict", None, req[r].results)
    BY <1>2 DEF JobConflict
  <2> QED BY <1>1, <2>1, AnswersOnce
<1>3. CASE Body(r).via = "batch" /\ job[Job(r)].snapshot # None
  <2>1. JobConflict(r) = Repeated(req[r], SnapshotJob(Job(r)), SnapshotResults(Job(r)))
    BY <1>3 DEF JobConflict, BatchConflict
  <2> QED BY <1>3, <2>1, BatchRepeats
<1>4. CASE Body(r).via = "batch" /\ job[Job(r)].snapshot = None
  <2>1. JobConflict(r) = Answered(req[r], "ok", Job(r), req[r].results)
    BY <1>4 DEF JobConflict, BatchConflict
  <2> QED BY <1>1, <2>1, AnswersOnce
<1> QED BY <1>1, <1>2, <1>3, <1>4

LEMMA ReplayedIs ==
  ASSUME TypeOK, InOrder, Placed, NEW r \in Requests, Asker(r), Exists(Job(r))
  PROVE  /\ Body(r).via = "batch" => Answers(r, ReplayedBatch(r))
         /\ Body(r).via = "compilation" => Answers(r, ReplayedCompilation(r))
<1> DEFINE j == Job(r)
<1>1. IsRequest(req[r]) /\ j \in JobIds
  BY RequestFacts, JobIsId
<1> HIDE DEF j
<1>2. ASSUME Body(r).via = "batch" PROVE Answers(r, ReplayedBatch(r))
  <2>1. CASE job[j].hash # Hash(r) \/ job[j].snapshot = None
    <3>1. ReplayedBatch(r) = Answered(req[r], "conflict", j, << >>)
      BY <2>1 DEF ReplayedBatch, j
    <3> QED BY <1>1, <3>1, AnswersOnce
  <2>2. CASE ~(job[j].hash # Hash(r) \/ job[j].snapshot = None)
    <3>1. ReplayedBatch(r) = Repeated(req[r], SnapshotJob(j), SnapshotResults(j))
      BY <2>2 DEF ReplayedBatch, j
    <3> QED BY <1>2, <2>2, <3>1, BatchRepeats DEF j
  <2> QED BY <2>1, <2>2
<1>3. ASSUME Body(r).via = "compilation" PROVE Answers(r, ReplayedCompilation(r))
  <2>1. CASE job[j].hash # Hash(r)
    <3>1. ReplayedCompilation(r) = Answered(req[r], "conflict", j, << >>)
      BY <2>1 DEF ReplayedCompilation, j
    <3> QED BY <1>1, <3>1, AnswersOnce
  <2>2. CASE job[j].hash = Hash(r)
    <3> DEFINE results == SnapshotResults(j)
               p == Repeated(req[r], j, results)
    <3>1. ReplayedCompilation(r) = p
      BY <2>2 DEF ReplayedCompilation, j
    <3>2. /\ OnlyChanges(p, req[r], {"pc", "said"}) /\ p.pc = "done" /\ p.said.job = j
          /\ p.said.results = results
      BY <1>1, RepeatedIs
    <3> HIDE DEF p
    <3>3. OnlyChanges(p, req[r], {"pc", "todo", "said"}) /\ p.todo \subseteq EventIds
      BY <3>2, RequestFacts DEF OnlyChanges
    <3> QED BY <1>1, <1>3, <3>1, <3>2, <3>3 DEF Answers, Repeats, j
  <2> QED BY <2>1, <2>2
<1> QED BY <1>2, <1>3

\* A batch or a compilation whose job, with the same body, another has made.
LEMMA FoundIs ==
  ASSUME TypeOK, InOrder, Placed, NEW r \in Requests, Asker(r), Exists(Job(r)), ~req[r].created
  PROVE  LET p == JobCreated(r, FALSE) IN
         \/ Answers(r, p)
         \/ /\ OnlyChanges(p, req[r], {"pc", "todo"})
            /\ p.pc = "rows" /\ p.todo = Covers(r) /\ Body(r).via = "compilation"
<1>0. Covers(r) \subseteq EventIds
  BY CoversAreIds
<1> DEFINE b == Body(r)
           no == FALSE
           q1 == [req[r] EXCEPT !.created = no]
           q2 == Leaves(q1, Covers(r))
<1>1. /\ IsRequest(req[r]) /\ req[r].body = b /\ b \in Bodies /\ Job(r) \in JobIds
      /\ b.via \in {"batch", "compilation"} /\ req[r].created \in BOOLEAN
  BY RequestFacts, JobIsId DEF Body, Asker
<1>2. no = req[r].created
  BY <1>1
<1> HIDE DEF no
<1>3. OnlyChanges(q1, req[r], {"created"}) /\ q1.created = no
  BY <1>1, SetCreated
<1>4. q1 = [req[r] EXCEPT !.created = FALSE]
  BY DEF no
<1> HIDE DEF q1
<1>5. IsRequest(q1)
  BY <1>3 DEF OnlyChanges
<1>6. OnlyChanges(q2, q1, {"todo"}) /\ q2.todo = Covers(r)
  BY <1>5, MovesOn
<1>7. q2 = Leaves([req[r] EXCEPT !.created = FALSE], Covers(r))
  BY <1>4
<1> HIDE DEF q2
<1>8. /\ IsRequest(q2) /\ OnlyChanges(q2, req[r], {"todo"}) /\ ~q2.created
      /\ q2.body = b /\ q2.queued = req[r].queued
  BY <1>1, <1>2, <1>3, <1>6 DEF OnlyChanges
<1>9. ASSUME NEW j \in JobIds \union {None} PROVE Answers(r, Answered(q2, "ok", j, q2.results))
  <2> DEFINE p == Answered(q2, "ok", j, q2.results)
  <2>1. /\ OnlyChanges(p, q2, {"pc", "said"}) /\ p.pc = "done" /\ p.said.job = j
        /\ ~p.said.duplicate
    BY <1>8, AnsweredIs
  <2> HIDE DEF p
  <2>2. OnlyChanges(p, req[r], {"pc", "todo", "said"}) /\ p.todo \subseteq EventIds
    BY <1>0, <1>6, <1>8, <2>1 DEF OnlyChanges
  <2> QED BY <2>1, <2>2 DEF Answers, p
<1> DEFINE p == JobCreated(r, FALSE)
<1>10. CASE b.via = "batch"
  <2>1. p = BatchCreated(q2, Job(r))
    BY <1>7, <1>10 DEF JobCreated, OwnsEvents
  <2>2. p = Answered(q2, "ok", IF b.compile THEN Job(r) ELSE None, q2.results)
    BY <1>8, <2>1 DEF BatchCreated
  <2> HIDE DEF p
  <2>3. (IF b.compile THEN Job(r) ELSE None) \in JobIds \union {None}
    BY <1>1
  <2> QED BY <1>9, <2>2, <2>3 DEF p
<1>11. CASE b.via = "compilation"
  <2>1. p = CompilationCreated(q2, Job(r))
    BY <1>7, <1>11 DEF JobCreated, OwnsEvents
  <2>2. CASE req[r].queued # {}
    <3>1. p = At(q2, "rows")
      BY <1>8, <2>1, <2>2 DEF CompilationCreated
    <3> HIDE DEF p
    <3>2. OnlyChanges(p, q2, {"pc"}) /\ p.pc = "rows"
      BY <1>8, <3>1, MovesOn
    <3>3. OnlyChanges(p, req[r], {"pc", "todo"}) /\ p.todo = Covers(r)
      BY <1>6, <1>8, <3>2 DEF OnlyChanges
    <3> QED BY <1>11, <3>2, <3>3 DEF p
  <2>3. CASE req[r].queued = {}
    <3>1. p = Answered(q2, "ok", Job(r), q2.results)
      BY <1>8, <2>1, <2>3 DEF CompilationCreated
    <3> QED BY <1>1, <1>9, <3>1
  <2> QED BY <2>2, <2>3
<1> QED BY <1>1, <1>10, <1>11

-----------------------------------------------------------------------------
(* The steps, by what they leave                                           *)

Moves(r) ==
  /\ \A s \in Requests \ {r} : req'[s] = req[s]
  /\ DOMAIN req' = Requests /\ req' = [s \in Requests |-> req'[s]]

\* A request arrives.
Begins(r) ==
  /\ Moves(r) /\ ~Busy(r) /\ UNCHANGED <<event, job, faults>>
  /\ IsRequest(req'[r]) /\ req'[r].body \in Bodies /\ req'[r].at = 1
  /\ req'[r].results = << >> /\ req'[r].queued = {} /\ req'[r].todo = {}
  /\ ~req'[r].created /\ req'[r].lost = {}
  /\ req'[r].created \in BOOLEAN /\ req'[r].lost \subseteq JobIds
  /\ \/ req'[r].pc = "find" /\ req'[r].body.via \in {"single", "direct", "memory", "webhook"}
     \/ req'[r].pc = "replay" /\ req'[r].body.via \in {"batch", "compilation"}
     \/ req'[r].pc = "done" /\ req'[r].said.job = None /\ ~req'[r].said.duplicate

\* A delivery is told its verdict.
Tells(r, v) ==
  \/ v = "accepted" /\ event[Event(r)] = None /\ event' = [event EXCEPT ![Event(r)] = Item(r).hash]
  \/ v = ResolveReplay(r) /\ event[Event(r)] # None /\ event' = event
  \/ v = "failed" /\ event' = event
Hears(r, v) ==
  /\ req[r].pc \in {"find", "insert"} /\ v \in Verdicts /\ Moves(r) /\ req'[r] = Verdict(r, v)
  /\ job' = job /\ faults' \in faults..MaxFaults
  /\ Tells(r, v)

\* A compilation sorts its events.
Sorts(r) ==
  /\ req[r].pc = "classify" /\ Moves(r) /\ UNCHANGED <<event, job, faults>>
  /\ OnlyChanges(req'[r], req[r], {"pc", "results", "queued"}) /\ req'[r].pc = "findJob"
  /\ req'[r].queued \subseteq Body(r).wants
  /\ \A e \in req'[r].queued : event[e] # None
  /\ \A e \in Body(r).wants :
       req'[r].results[e] \in {"already_active", "already_compiled"} =>
         \E j \in DOMAIN job : HasRow(j, e)
  /\ req'[r].results \in [Body(r).wants -> Classes]

\* A request goes on, or ends, without a trace in the tables.
Turns(r) ==
  /\ Moves(r) /\ Busy(r) /\ UNCHANGED <<event, job>>
  /\ OnlyChanges(req'[r], req[r], {"pc", "todo", "said"}) /\ req'[r].todo \subseteq EventIds
  /\ \/ req[r].pc = "replay" /\ Body(r).via = "batch" /\ req'[r].pc = "find" /\ faults' = faults
     \/ /\ req[r].pc = "replay" /\ Body(r).via = "compilation" /\ req'[r].pc = "classify"
        /\ faults' = faults
     \/ req[r].pc = "find" /\ req'[r].pc = "insert" /\ faults' = faults
     \/ req[r].pc = "findJob" /\ req'[r].pc = "insertJob" /\ faults' = faults
     \/ /\ req[r].pc = "findJob" /\ Body(r).via = "compilation" /\ req'[r].pc = "rows"
        /\ Exists(Job(r)) /\ req'[r].todo = Covers(r) /\ faults' = faults
     \/ /\ req[r].pc \in {"replay", "findJob", "insertJob"} /\ Asker(r)
        /\ Answers(r, req'[r]) /\ faults' = faults
     \/ /\ req[r].pc = "wait" /\ req'[r].pc = "done" /\ req'[r].said.job = Job(r)
        /\ faults' = faults
     \/ /\ req[r].pc \in {"replay", "classify"} /\ Asker(r) /\ Answers(r, req'[r])
        /\ faults' = faults + 1 /\ faults < MaxFaults
     \/ req'[r].pc = "crashed" /\ faults' = faults + 1 /\ faults < MaxFaults

\* A job is made.
Makes(r) ==
  /\ req[r].pc = "insertJob" /\ ~Exists(Job(r)) /\ Moves(r) /\ UNCHANGED <<event, faults>>
  /\ req'[r] = JobCreated(r, TRUE)
  /\ job' = Put(job, Job(r),
               [status |-> "queued", hash |-> Hash(r), announced |-> FALSE, row |-> << >>,
                snapshot |-> IF Body(r).via = "compilation"
                             THEN [job |-> Job(r), results |-> req[r].results] ELSE None])

LEMMA Taken ==
  ASSUME TypeOK, NEW r \in Requests, NEW q, Set(r, q)
  PROVE  Moves(r) /\ req'[r] = q
  BY Moved DEF Moves

LEMMA WentTo ==
  ASSUME TypeOK, NEW r \in Requests, NEW pc, Goto(r, pc)
  PROVE  /\ Moves(r) /\ req'[r].pc = pc /\ req'[r].todo \subseteq EventIds
         /\ OnlyChanges(req'[r], req[r], {"pc", "todo", "said"})
<1>1. Moves(r) /\ req'[r] = At(req[r], pc)
  BY Taken DEF Goto
<1>2. OnlyChanges(At(req[r], pc), req[r], {"pc"}) /\ At(req[r], pc).pc = pc
  BY RequestFacts, MovesOn
<1> QED BY <1>1, <1>2, RequestFacts DEF OnlyChanges

LEMMA Arriving ==
  ASSUME TypeOK, NEW r \in Requests, Start(r)
  PROVE  Begins(r)
<1>1. PICK via \in Vias, pc \in {"find", "replay"} :
        /\ Arrives(r, via, pc)
        /\ IF pc = "find" THEN via \in {"single", "direct", "memory", "webhook"}
           ELSE via \in {"batch", "compilation"}
  BY DEF Start, PostEvents, IngestOne, MemoryWrite, PostWebhook, PostBatch, PostCompilations, Vias
<1>2. /\ req[r].pc = "idle" /\ UNCHANGED <<event, job, faults>>
      /\ \E b \in Bodies : b.via = via /\
           Set(r, IF b.allowed THEN [Idle EXCEPT !.body = b, !.pc = pc]
                  ELSE Answered([Idle EXCEPT !.body = b], "refused", None, << >>))
  BY <1>1 DEF Arrives
<1>3. PICK b \in Bodies :
        /\ b.via = via
        /\ Set(r, IF b.allowed THEN [Idle EXCEPT !.body = b, !.pc = pc]
                  ELSE Answered([Idle EXCEPT !.body = b], "refused", None, << >>))
  BY <1>2
<1>4. ~Busy(r)
  BY <1>2 DEF Busy
<1> DEFINE q1 == [Idle EXCEPT !.body = b]
           New(p) ==
             /\ IsRequest(p) /\ p.body = b /\ p.at = 1 /\ p.results = << >> /\ p.queued = {}
             /\ p.todo = {} /\ ~p.created /\ p.lost = {}
             /\ p.created \in BOOLEAN /\ p.lost \subseteq JobIds
<1>5. New(q1)
  <2> DEFINE q == Idle
  <2>1. /\ IsRequest(q) /\ q.at = 1 /\ q.results = << >> /\ q.queued = {}
        /\ q.todo = {} /\ ~q.created /\ q.lost = {}
        /\ q.created \in BOOLEAN /\ q.lost \subseteq JobIds
    BY DEF Idle, IsRequest
  <2> HIDE DEF q
  <2> DEFINE p == [q EXCEPT !.body = b]
  <2>2. OnlyChanges(p, q, {"body"}) /\ p.body = b
    BY <2>1, SetBody
  <2>3. q1 = p
    BY DEF q
  <2> HIDE DEF p, q1
  <2> QED BY <2>1, <2>2, <2>3 DEF OnlyChanges
<1>6. CASE b.allowed
  <2> DEFINE p == [Idle EXCEPT !.body = b, !.pc = pc]
  <2>2. Moves(r) /\ req'[r] = p
    BY <1>3, <1>6, Taken
  <2>3. p = [q1 EXCEPT !.pc = pc]
    OBVIOUS
  <2> HIDE DEF q1, p
  <2>4. OnlyChanges(p, q1, {"pc"}) /\ p.pc = pc
    <3> DEFINE p1 == [q1 EXCEPT !.pc = pc]
    <3>1. OnlyChanges(p1, q1, {"pc"}) /\ p1.pc = pc
      BY <1>5, SetPc
    <3> HIDE DEF p1
    <3> QED BY <2>3, <3>1 DEF p1
  <2>1. New(p) /\ p.pc = pc
    BY <1>5, <2>4 DEF OnlyChanges
  <2> QED BY <1>1, <1>2, <1>3, <1>4, <2>1, <2>2 DEF Begins
<1>7. CASE ~b.allowed
  <2> DEFINE p == Answered(q1, "refused", None, << >>)
  <2>2. Moves(r) /\ req'[r] = p
    BY <1>3, <1>7, Taken
  <2> HIDE DEF q1
  <2>1. /\ OnlyChanges(p, q1, {"pc", "said"}) /\ p.pc = "done" /\ p.said.job = None
        /\ ~p.said.duplicate
    BY <1>5, AnsweredIs
  <2> HIDE DEF p
  <2>3. New(p)
    BY <1>5, <2>1 DEF OnlyChanges
  <2> QED BY <1>2, <1>4, <2>1, <2>2, <2>3 DEF Begins
<1> QED BY <1>6, <1>7

LEMMA Hearing ==
  ASSUME TypeOK, InOrder, Placed, NEW r \in Requests, Intake(r)
  PROVE  Turns(r) \/ \E v \in Verdicts : Hears(r, v)
<1>1. faults \in 0..MaxFaults /\ faults \in Nat /\ MaxFaults \in Nat
  BY FaultsAssumption DEF TypeOK
<1>2. ResolveReplay(r) \in Verdicts
  BY DEF ResolveReplay, Verdicts
<1>3. CASE Look(r)
  <2>1. CASE event[Event(r)] # None
    <3> DEFINE v == ResolveReplay(r)
    <3>1. req[r].pc = "find" /\ Set(r, Verdict(r, v)) /\ UNCHANGED <<event, job, faults>>
      BY <1>3, <2>1 DEF Look
    <3>2. Moves(r) /\ req'[r] = Verdict(r, v)
      BY <3>1, Taken
    <3> HIDE DEF v
    <3>3. faults' \in faults..MaxFaults
      BY <1>1, <3>1
    <3>4. Hears(r, v)
      BY <1>2, <2>1, <3>1, <3>2, <3>3 DEF Hears, Tells, v
    <3> QED BY <1>2, <3>4 DEF v
  <2>2. CASE event[Event(r)] = None
    <3>1. req[r].pc = "find" /\ Goto(r, "insert") /\ UNCHANGED <<event, job, faults>>
      BY <1>3, <2>2 DEF Look
    <3> QED BY <3>1, WentTo DEF Turns, Busy
  <2> QED BY <2>1, <2>2
<1>4. CASE Insert(r)
  <2>1. /\ req[r].pc = "insert" /\ event[Event(r)] = None /\ Set(r, Verdict(r, "accepted"))
        /\ event' = [event EXCEPT ![Event(r)] = Item(r).hash] /\ UNCHANGED <<job, faults>>
    BY <1>4 DEF Insert
  <2>2. Moves(r) /\ req'[r] = Verdict(r, "accepted")
    BY <2>1, Taken
  <2>3. "accepted" \in Verdicts /\ faults' \in faults..MaxFaults
    BY <1>1, <2>1 DEF Verdicts
  <2> QED BY <2>1, <2>2, <2>3 DEF Hears, Tells
<1>5. CASE Refused(r)
  <2> DEFINE v == ResolveReplay(r)
  <2>1. /\ req[r].pc = "insert" /\ event[Event(r)] # None /\ Set(r, Verdict(r, v))
        /\ UNCHANGED <<event, job, faults>>
    BY <1>5 DEF Refused
  <2>2. Moves(r) /\ req'[r] = Verdict(r, v)
    BY <2>1, Taken
  <2> HIDE DEF v
  <2>3. faults' \in faults..MaxFaults
    BY <1>1, <2>1
  <2>4. Hears(r, v)
    BY <1>2, <2>1, <2>2, <2>3 DEF Hears, Tells, v
  <2> QED BY <1>2, <2>4 DEF v
<1>6. CASE InsertFails(r)
  <2>1. /\ req[r].pc \in {"find", "insert"} /\ Set(r, Verdict(r, "failed")) /\ UNCHANGED <<event, job>>
        /\ faults < MaxFaults /\ faults' = faults + 1
    BY <1>6 DEF InsertFails, Fault
  <2>2. Moves(r) /\ req'[r] = Verdict(r, "failed")
    BY <2>1, Taken
  <2>3. "failed" \in Verdicts
    BY DEF Verdicts
  <2>4. faults' \in faults..MaxFaults
    BY <1>1, <2>1
  <2> QED BY <2>1, <2>2, <2>3, <2>4 DEF Hears, Tells
<1> QED BY <1>3, <1>4, <1>5, <1>6
     DEF Intake, FindEvent, InsertEvent, InsertRefused, FindDelivery, PersistDelivery, PersistRefused

LEMMA Sorting ==
  ASSUME TypeOK, NEW r \in Requests, Classify(r)
  PROVE  Sorts(r)
<1> DEFINE wants == Body(r).wants
           verdict == [e \in wants |->
             IF event[e] = None THEN "not_found"
             ELSE IF Active(e) THEN "already_active"
             ELSE IF Compiled(e) THEN "already_compiled" ELSE "queued"]
           queued == {e \in wants : verdict[e] = "queued"}
           q1 == [req[r] EXCEPT !.results = verdict]
           q2 == [q1 EXCEPT !.pc = "findJob"]
           q3 == [q2 EXCEPT !.queued = queued]
<1>1. req[r].pc = "classify" /\ UNCHANGED <<event, job, faults>> /\ Set(r, q3)
  BY DEF Classify
<1>2. \A e \in queued : e \in wants /\ event[e] # None
  OBVIOUS
<1>3. \A e \in wants :
        verdict[e] \in {"already_active", "already_compiled"} => \E j \in DOMAIN job : HasRow(j, e)
  BY DEF Active, Compiled
<1>11. verdict \in [wants -> Classes]
  BY DEF Classes
<1> HIDE DEF verdict
<1> HIDE DEF queued, wants
<1>4. OnlyChanges(q1, req[r], {"results"}) /\ q1.results = verdict
  BY RequestFacts, SetResults
<1> HIDE DEF q1
<1>5. IsRequest(q1)
  BY <1>4 DEF OnlyChanges
<1>6. OnlyChanges(q2, q1, {"pc"}) /\ q2.pc = "findJob"
  BY <1>5, SetPc
<1> HIDE DEF q2
<1>7. IsRequest(q2)
  BY <1>6 DEF OnlyChanges
<1>8. OnlyChanges(q3, q2, {"queued"}) /\ q3.queued = queued
  BY <1>7, SetQueued
<1>9. Moves(r) /\ req'[r] = q3
  BY <1>1, Taken
<1> HIDE DEF q3
<1>10. /\ OnlyChanges(q3, req[r], {"pc", "results", "queued"})
       /\ q3.pc = "findJob" /\ q3.results = verdict
  BY <1>4, <1>6, <1>8 DEF OnlyChanges
<1> QED BY <1>1, <1>2, <1>3, <1>8, <1>9, <1>10, <1>11 DEF Sorts, wants

\* What an owner has stored has no job before it makes it.
LEMMA OwnersComeFirst ==
  ASSUME TypeOK, InOrder, Placed, StoredOnce, EventJobsAreTheirs,
         NEW r \in Requests, Owner(r), req[r].pc \in {"findJob", "insertJob"}
  PROVE  ~Exists(Job(r)) /\ Job(r) = <<"ingest_event", Event(r)>> /\ Event(r) \in EventIds
<1> DEFINE n == req[r].at
<1>1. Stored(r, n) /\ n = Len(req[r].results) /\ Delivers(r) /\ n \in Nat \ {0}
  BY RequestFacts DEF Placed
<1>2. n \in 1..Len(Body(r).items) /\ n \in 1..MaxItems
  <2>1. n <= Len(Body(r).items) /\ Len(Body(r).items) \in Nat
    BY <1>1, BodyFacts, RequestFacts DEF InOrder, Owner
  <2>2. n \in 1..Len(Body(r).items)
    BY <1>1, <2>1
  <2> QED BY <1>1, <2>2, NamesAreIds
<1>3. Event(r) = Named(r, n) /\ Event(r) \in EventIds
  BY <1>1, <1>2, NamesAreIds DEF Event, Item, Named
<1>4. Job(r) = <<"ingest_event", Event(r)>>
  BY DEF Job, Owner, OwnsEvents
<1>5. ~Exists(Job(r))
  <2> SUFFICES ASSUME Exists(<<"ingest_event", Event(r)>>) PROVE FALSE
    BY <1>4
  <2>1. PICK s \in Requests : \E m \in 1..MaxItems :
          Owner(s) /\ Stored(s, m) /\ Named(s, m) = Event(r) /\ ~MakesJob(s, m)
    BY <1>3 DEF EventJobsAreTheirs
  <2>2. PICK m \in 1..MaxItems :
          Owner(s) /\ Stored(s, m) /\ Named(s, m) = Event(r) /\ ~MakesJob(s, m)
    BY <2>1
  <2>3. s = r /\ m = n
    BY <1>1, <1>2, <1>3, <2>2 DEF StoredOnce
  <2> QED BY <2>2, <2>3 DEF MakesJob
<1> QED BY <1>3, <1>4, <1>5

LEMMA Turning ==
  ASSUME TypeOK, InOrder, Placed, StoredOnce, EventJobsAreTheirs, NEW r \in Requests,
         \/ ReplayBatch(r) \/ ReplayCompilation(r) \/ LookupFails(r) \/ FindJob(r)
         \/ InsertJobRefused(r) \/ Wait(r) \/ Crash(r)
  PROVE  Turns(r)
<1>1. CASE ReplayBatch(r)
  <2>1. /\ req[r].pc = "replay" /\ Body(r).via = "batch" /\ UNCHANGED <<event, job, faults>>
        /\ Busy(r) /\ Asker(r)
    BY <1>1 DEF ReplayBatch, Busy, Asker, OwnsEvents
  <2>2. CASE Exists(Job(r))
    <3>1. Set(r, ReplayedBatch(r))
      BY <1>1, <2>2 DEF ReplayBatch
    <3>2. Moves(r) /\ Answers(r, req'[r])
      BY <2>1, <2>2, <3>1, Taken, ReplayedIs
    <3> QED BY <2>1, <3>2 DEF Turns, Answers
  <2>3. CASE ~Exists(Job(r))
    <3>1. Goto(r, "find")
      BY <1>1, <2>3 DEF ReplayBatch
    <3> QED BY <2>1, <3>1, WentTo DEF Turns
  <2> QED BY <2>2, <2>3
<1>2. CASE ReplayCompilation(r)
  <2>1. /\ req[r].pc = "replay" /\ Body(r).via = "compilation" /\ UNCHANGED <<event, job, faults>>
        /\ Busy(r) /\ Asker(r)
    BY <1>2 DEF ReplayCompilation, Busy, Asker, OwnsEvents
  <2>2. CASE Exists(Job(r))
    <3>1. Set(r, ReplayedCompilation(r))
      BY <1>2, <2>2 DEF ReplayCompilation
    <3>2. Moves(r) /\ Answers(r, req'[r])
      BY <2>1, <2>2, <3>1, Taken, ReplayedIs
    <3> QED BY <2>1, <3>2 DEF Turns, Answers
  <2>3. CASE ~Exists(Job(r))
    <3>1. Goto(r, "classify")
      BY <1>2, <2>3 DEF ReplayCompilation
    <3> QED BY <2>1, <3>1, WentTo DEF Turns
  <2> QED BY <2>2, <2>3
<1>3. CASE FindJob(r)
  <2>1. req[r].pc = "findJob" /\ Busy(r) /\ UNCHANGED <<event, job, faults>>
    BY <1>3 DEF FindJob, Busy
  <2>2. Asker(r) => ~req[r].created
    BY <2>1 DEF Placed
  <2>3. Owner(r) => ~Exists(Job(r))
    BY <2>1, OwnersComeFirst
  <2>4. Owner(r) \/ Asker(r)
    BY <2>1, RequestFacts
  <2>5. CASE NothingToCreate(r) /\ Set(r, JobFailed(r))
    <3>1. Asker(r)
      BY <2>1, <2>5 DEF NothingToCreate, Asker, OwnsEvents
    <3>2. Moves(r) /\ Answers(r, req'[r])
      BY <2>2, <2>5, <3>1, Taken, JobFailedIs
    <3> QED BY <2>1, <3>1, <3>2 DEF Turns, Answers
  <2>6. CASE ~Exists(Job(r)) /\ Goto(r, "insertJob")
    BY <2>1, <2>6, WentTo DEF Turns
  <2>7. CASE Exists(Job(r)) /\ Set(r, JobCreated(r, FALSE))
    <3>1. Asker(r)
      BY <2>3, <2>4, <2>7
    <3> DEFINE p == JobCreated(r, FALSE)
    <3>2. \/ Answers(r, p)
          \/ /\ OnlyChanges(p, req[r], {"pc", "todo"})
             /\ p.pc = "rows" /\ p.todo = Covers(r) /\ Body(r).via = "compilation"
      BY <2>2, <2>7, <3>1, FoundIs
    <3>3. Moves(r) /\ req'[r] = p
      BY <2>7, Taken
    <3> HIDE DEF p
    <3>4. CASE Answers(r, p)
      BY <2>1, <3>1, <3>3, <3>4 DEF Turns, Answers
    <3>5. CASE ~Answers(r, p)
      <4>1. OnlyChanges(p, req[r], {"pc", "todo", "said"}) /\ p.todo \subseteq EventIds
        BY <3>1, <3>2, <3>5, CoversAreIds DEF OnlyChanges
      <4> QED BY <2>1, <2>7, <3>2, <3>3, <3>5, <4>1 DEF Turns
    <3> QED BY <3>4, <3>5
  <2>8. CASE Exists(Job(r)) /\ Set(r, JobConflict(r))
    <3>1. Asker(r)
      BY <2>3, <2>4, <2>8
    <3>2. Moves(r) /\ Answers(r, req'[r])
      BY <2>8, <3>1, Taken, JobConflictIs
    <3> QED BY <2>1, <3>1, <3>2 DEF Turns, Answers
  <2>9. CASE /\ Exists(Job(r))
             /\ Set(r, IF job[Job(r)].hash = Hash(r) THEN JobCreated(r, FALSE) ELSE JobConflict(r))
    <3>1. CASE job[Job(r)].hash = Hash(r)
      BY <2>7, <2>9, <3>1
    <3>2. CASE job[Job(r)].hash # Hash(r)
      BY <2>8, <2>9, <3>2
    <3> QED BY <3>1, <3>2
  <2> QED BY <1>3, <2>5, <2>6, <2>9 DEF FindJob
<1>4. CASE InsertJobRefused(r)
  <2>1. /\ req[r].pc = "insertJob" /\ Busy(r) /\ UNCHANGED <<event, job, faults>>
        /\ Exists(Job(r)) /\ Set(r, JobFailed(r))
    BY <1>4 DEF InsertJobRefused, Busy
  <2>2. Asker(r)
    BY <2>1, OwnersComeFirst, RequestFacts
  <2>3. ~req[r].created
    BY <2>1, <2>2 DEF Placed
  <2>4. Moves(r) /\ Answers(r, req'[r])
    BY <2>1, <2>2, <2>3, Taken, JobFailedIs
  <2> QED BY <2>1, <2>2, <2>4 DEF Turns, Answers
<1>5. CASE Wait(r)
  <2>1. PICK code : /\ req[r].pc = "wait" /\ UNCHANGED <<event, job, faults>>
                    /\ Set(r, Answered(req[r], code, Job(r), req[r].results))
    BY <1>5 DEF Wait, WaitEnds, WaitTimesOut
  <2> DEFINE p == Answered(req[r], code, Job(r), req[r].results)
  <2>2. OnlyChanges(p, req[r], {"pc", "said"}) /\ p.pc = "done" /\ p.said.job = Job(r)
    BY RequestFacts, AnsweredIs
  <2>3. Moves(r) /\ req'[r] = p
    BY <2>1, Taken
  <2> HIDE DEF p
  <2>4. OnlyChanges(p, req[r], {"pc", "todo", "said"}) /\ p.todo \subseteq EventIds
    BY <2>2, RequestFacts DEF OnlyChanges
  <2> QED BY <2>1, <2>2, <2>3, <2>4 DEF Turns, Busy
<1>6. CASE Crash(r)
  <2>1. /\ Busy(r) /\ faults < MaxFaults /\ faults' = faults + 1 /\ Goto(r, "crashed")
        /\ UNCHANGED <<event, job>>
    BY <1>6 DEF Crash, Fault, InFlight, Busy
  <2> QED BY <2>1, WentTo DEF Turns
<1>7. CASE LookupFails(r)
  <2>1. /\ req[r].pc \in {"replay", "classify"} /\ Busy(r) /\ UNCHANGED <<event, job>>
        /\ faults < MaxFaults /\ faults' = faults + 1
        /\ Set(r, Answered(req[r], "error", None, << >>))
    BY <1>7 DEF LookupFails, Fault, Busy
  <2>2. Asker(r)
    BY <2>1 DEF Placed
  <2>3. Moves(r) /\ Answers(r, req'[r])
    BY <2>1, Taken, AnswersOnce
  <2> QED BY <2>1, <2>2, <2>3 DEF Turns, Answers
<1> QED BY <1>1, <1>2, <1>3, <1>4, <1>5, <1>6, <1>7

-----------------------------------------------------------------------------
(* Jobs                                                                    *)

\* An entry of jobs x that differs from y in these columns at most.
OnlySets(x, y, columns) ==
  /\ IsJob(x) /\ x.hash = y.hash
  /\ "status" \notin columns => x.status = y.status
  /\ "announced" \notin columns => x.announced = y.announced
  /\ "row" \notin columns => x.row = y.row
  /\ "snapshot" \notin columns => x.snapshot = y.snapshot

LEMMA SetColumn ==
  ASSUME NEW y, IsJob(y)
  PROVE  /\ \A v \in {"queued", "completed", "failed"} :
              [y EXCEPT !.status = v] =
                [status |-> v, hash |-> y.hash, announced |-> y.announced, row |-> y.row,
                 snapshot |-> y.snapshot]
         /\ \A v : [y EXCEPT !.announced = v] =
                [status |-> y.status, hash |-> y.hash, announced |-> v, row |-> y.row,
                 snapshot |-> y.snapshot]
         /\ \A v : [y EXCEPT !.row = v] =
                [status |-> y.status, hash |-> y.hash, announced |-> y.announced, row |-> v,
                 snapshot |-> y.snapshot]
         /\ \A v : [y EXCEPT !.snapshot = v] =
                [status |-> y.status, hash |-> y.hash, announced |-> y.announced, row |-> y.row,
                 snapshot |-> v]
<1> DEFINE f_status == y.status
           f_hash == y.hash
           f_announced == y.announced
           f_row == y.row
           f_snapshot == y.snapshot
<1>1. y = [status |-> f_status, hash |-> f_hash, announced |-> f_announced, row |-> f_row,
           snapshot |-> f_snapshot]
  BY DEF IsJob
<1> HIDE DEF f_status, f_hash, f_announced, f_row, f_snapshot
<1>2. \A v : [y EXCEPT !.status = v] =
               [status |-> v, hash |-> f_hash, announced |-> f_announced, row |-> f_row,
                snapshot |-> f_snapshot]
  BY <1>1
<1>3. \A v : [y EXCEPT !.announced = v] =
               [status |-> f_status, hash |-> f_hash, announced |-> v, row |-> f_row,
                snapshot |-> f_snapshot]
  BY <1>1
<1>4. \A v : [y EXCEPT !.row = v] =
               [status |-> f_status, hash |-> f_hash, announced |-> f_announced, row |-> v,
                snapshot |-> f_snapshot]
  BY <1>1
<1>5. \A v : [y EXCEPT !.snapshot = v] =
               [status |-> f_status, hash |-> f_hash, announced |-> f_announced, row |-> f_row,
                snapshot |-> v]
  BY <1>1
<1> QED BY <1>2, <1>3, <1>4, <1>5 DEF f_status, f_hash, f_announced, f_row, f_snapshot

LEMMA PutRow ==
  ASSUME NEW row, NEW S, row \in [DOMAIN row -> S], NEW e, NEW v \in S
  PROVE  LET new == Put(row, e, v) IN
         DOMAIN new = DOMAIN row \union {e} /\ new \in [DOMAIN new -> S]
  BY DEF Put

LEMMA AwaitsIs ==
  ASSUME NEW y, IsJob(y), NEW e \in EventIds
  PROVE  LET x == Awaits(y, e) IN
         OnlySets(x, y, {"row"}) /\ DOMAIN x.row = DOMAIN y.row \union {e}
<1> DEFINE new == Put(y.row, e, "pending")
           x == [status |-> y.status, hash |-> y.hash, announced |-> y.announced, row |-> new,
                 snapshot |-> y.snapshot]
<1>1. /\ DOMAIN new = DOMAIN y.row \union {e}
      /\ new \in [DOMAIN new -> {"pending", "compiled", "failed"}]
  BY PutRow DEF IsJob
<1> HIDE DEF new
<1>2. Awaits(y, e) = x
  BY SetColumn DEF Awaits, new
<1>3. OnlySets(x, y, {"row"}) /\ x.row = new
  BY <1>1 DEF OnlySets, IsJob
<1> HIDE DEF x
<1> QED BY <1>1, <1>2, <1>3

LEMMA CompletedIs ==
  ASSUME NEW y, IsJob(y)
  PROVE  LET x == Completed(y) IN OnlySets(x, y, {"status"}) /\ x.status = "completed"
<1> DEFINE x == [status |-> "completed", hash |-> y.hash, announced |-> y.announced,
                 row |-> y.row, snapshot |-> y.snapshot]
<1>1. Completed(y) = x
  BY SetColumn DEF Completed
<1>2. OnlySets(x, y, {"status"}) /\ x.status = "completed"
  BY DEF OnlySets, IsJob
<1> HIDE DEF x
<1> QED BY <1>1, <1>2

LEMMA KeepsIs ==
  ASSUME NEW y, IsJob(y), NEW response, response.job \in JobIds \union {None}
  PROVE  LET x == Keeps(y, response) IN OnlySets(x, y, {"snapshot"}) /\ x.snapshot = response
<1> DEFINE x == [status |-> y.status, hash |-> y.hash, announced |-> y.announced,
                 row |-> y.row, snapshot |-> response]
<1>1. Keeps(y, response) = x
  BY SetColumn DEF Keeps
<1>2. OnlySets(x, y, {"snapshot"}) /\ x.snapshot = response
  BY DEF OnlySets, IsJob
<1> HIDE DEF x
<1> QED BY <1>1, <1>2

LEMMA AnnouncedIs ==
  ASSUME NEW y, IsJob(y)
  PROVE  LET x == Announced(y) IN OnlySets(x, y, {"announced"}) /\ x.announced
<1> DEFINE x == [status |-> y.status, hash |-> y.hash, announced |-> TRUE,
                 row |-> y.row, snapshot |-> y.snapshot]
<1>1. Announced(y) = x
  BY SetColumn DEF Announced
<1>2. OnlySets(x, y, {"announced"}) /\ x.announced
  BY DEF OnlySets, IsJob
<1> HIDE DEF x
<1> QED BY <1>1, <1>2

LEMMA SettledIs ==
  ASSUME NEW y, IsJob(y), NEW outcome \in {"compiled", "failed"}
  PROVE  LET x == Settled(y, outcome) IN
         /\ OnlySets(x, y, {"status", "row", "snapshot"}) /\ x.status \in {"completed", "failed"}
         /\ x.snapshot = Counts /\ DOMAIN x.row = DOMAIN y.row
<1> DEFINE new == [e \in DOMAIN y.row |-> IF y.row[e] = "pending" THEN outcome ELSE y.row[e]]
           status == IF outcome = "compiled" THEN "completed" ELSE "failed"
           x == [status |-> status, hash |-> y.hash, announced |-> y.announced, row |-> new,
                 snapshot |-> Counts]
<1>1. status \in {"completed", "failed"}
  OBVIOUS
<1>2. DOMAIN new = DOMAIN y.row /\ new \in [DOMAIN y.row -> {"pending", "compiled", "failed"}]
  BY DEF IsJob
<1>3. Settled(y, outcome) = [[[y EXCEPT !.row = new] EXCEPT !.status = status] EXCEPT !.snapshot = Counts]
  BY DEF Settled
<1> HIDE DEF new, status
<1> DEFINE y1 == [status |-> y.status, hash |-> y.hash, announced |-> y.announced, row |-> new,
                  snapshot |-> y.snapshot]
           y2 == [status |-> status, hash |-> y.hash, announced |-> y.announced, row |-> new,
                  snapshot |-> y.snapshot]
<1>4. [y EXCEPT !.row = new] = y1
  BY SetColumn
<1>5. IsJob(y1) /\ IsJob(y2)
  BY <1>1, <1>2 DEF IsJob
<1>6. [y1 EXCEPT !.status = status] = y2
  BY <1>1, SetColumn
<1>7. [y2 EXCEPT !.snapshot = Counts] = x
  BY SetColumn
<1>8. Settled(y, outcome) = x
  BY <1>3, <1>4, <1>6, <1>7
<1>9. OnlySets(x, y, {"status", "row", "snapshot"}) /\ x.status = status /\ x.snapshot = Counts /\ x.row = new
  BY <1>1, <1>2 DEF OnlySets, IsJob
<1> HIDE DEF x
<1> QED BY <1>1, <1>2, <1>8, <1>9

\* A step that changes one job, in these columns.
Changes(j, columns) ==
  /\ j \in DOMAIN job /\ DOMAIN job' = DOMAIN job /\ job' = [i \in DOMAIN job |-> job'[i]]
  /\ \A i \in DOMAIN job \ {j} : job'[i] = job[i]
  /\ OnlySets(job'[j], job[j], columns)

LEMMA Changed ==
  ASSUME TypeOK, NEW j \in DOMAIN job, NEW x, job' = [job EXCEPT ![j] = x],
         NEW columns, OnlySets(x, job[j], columns)
  PROVE  Changes(j, columns) /\ job'[j] = x
<1>1. job = [i \in DOMAIN job |-> job[i]]
  BY DEF TypeOK
<1>2. /\ DOMAIN job' = DOMAIN job /\ job' = [i \in DOMAIN job |-> job'[i]] /\ job'[j] = x
      /\ \A i \in DOMAIN job \ {j} : job'[i] = job[i]
  BY <1>1
<1> QED BY <1>2 DEF Changes

\* A row of a job is put to pending.
Writes(r, e) ==
  /\ req[r].pc = "rows" /\ e \in req[r].todo /\ Moves(r) /\ UNCHANGED <<event, faults>>
  /\ Changes(Job(r), {"row"}) /\ DOMAIN job'[Job(r)].row = DOMAIN job[Job(r)].row \union {e}
  /\ \/ /\ OnlyChanges(req'[r], req[r], {"todo"}) /\ req'[r].todo = req[r].todo \ {e}
        /\ req'[r].pc = "rows" /\ req[r].todo # {e}
     \/ /\ req[r].todo = {e} /\ OnlyChanges(req'[r], req[r], {"pc"})
        /\ req'[r].pc = IF Body(r).via = "batch" THEN "snapshot" ELSE "send"

\* An answer given by the request that made the job.
AnswersJob(r) ==
  /\ OnlyChanges(req'[r], req[r], {"pc", "said"}) /\ req'[r].pc = "done"
  /\ req'[r].said.code = "ok" /\ ~req'[r].said.duplicate
  /\ req'[r].said.job = Response(r).job /\ req'[r].said.results = Response(r).results

\* The job of a request that does not compile is completed.
Completes(r) ==
  /\ req[r].pc = "complete" /\ Moves(r) /\ UNCHANGED <<event, faults>>
  /\ Changes(Job(r), {"status"}) /\ job'[Job(r)].status = "completed"
  /\ \/ /\ Body(r).via = "batch" /\ OnlyChanges(req'[r], req[r], {"pc"})
        /\ req'[r].pc = "snapshot"
     \/ Body(r).via # "batch" /\ AnswersJob(r)

\* A batch's snapshot is stored.
Records(r) ==
  /\ req[r].pc = "snapshot" /\ Moves(r) /\ UNCHANGED <<event, faults>>
  /\ Changes(Job(r), {"snapshot"}) /\ job'[Job(r)].snapshot = Response(r)
  /\ \/ /\ Body(r).compile /\ OnlyChanges(req'[r], req[r], {"pc"})
        /\ req'[r].pc = "send"
     \/ ~Body(r).compile /\ AnswersJob(r)

\* The job is announced.
Sends(r) ==
  /\ req[r].pc = "send" /\ Moves(r) /\ UNCHANGED <<event, faults>>
  /\ Changes(Job(r), {"announced"}) /\ job'[Job(r)].announced
  /\ req'[r] = AfterSend(r)

\* A statement about the job, or its message, fails.
Fails(r) ==
  /\ req[r].pc \in {"findJob", "insertJob", "rows", "complete", "snapshot", "send"}
  /\ Moves(r) /\ UNCHANGED <<event, job>>
  /\ faults' = faults + 1 /\ faults < MaxFaults
  /\ OnlyChanges(req'[r], req[r], {"pc", "at", "todo", "lost", "said"})
  /\ req'[r].lost = req[r].lost \union {Job(r)} /\ Job(r) \in JobIds
  /\ req'[r].todo \subseteq EventIds
  /\ \/ /\ req'[r].pc = "find" /\ Owner(r) /\ req'[r].at = req[r].at + 1
        /\ req[r].pc \in {"findJob", "insertJob", "rows", "send"}
        /\ req'[r].at <= Len(Body(r).items)
     \/ req[r].pc = "send" /\ req'[r].pc = "wait" /\ Owner(r) /\ req'[r].at = req[r].at
     \/ /\ req'[r].pc = "done" /\ req'[r].at = req[r].at
        /\ req'[r].said.job \in JobIds \union {None}
        /\ Asker(r) =>
             /\ ~req'[r].said.duplicate
             /\ req'[r].said.code = "ok" =>
                  \/ req[r].pc # "send" /\ Body(r).via = "batch"
                  \/ req'[r].said.job = Job(r) /\ req'[r].said.results = req[r].results

\* The worker settles a job.
Works(j) ==
  /\ UNCHANGED <<event, req, faults>> /\ job[j].announced
  /\ Changes(j, {"status", "row", "snapshot"}) /\ Over(j)' /\ job'[j].snapshot = Counts
  /\ DOMAIN job'[j].row = DOMAIN job[j].row

LEMMA Writing ==
  ASSUME TypeOK, Placed, NEW r \in Requests, UpsertRow(r)
  PROVE  \E e \in req[r].todo : Writes(r, e)
<1>1. req[r].pc = "rows" /\ UNCHANGED <<event, faults>> /\ Busy(r) /\ IsRequest(req[r])
  BY RequestFacts DEF UpsertRow, Busy
<1>2. PICK e \in req[r].todo :
        /\ job' = [job EXCEPT ![Job(r)] = Awaits(@, e)]
        /\ Set(r, IF req[r].todo = {e} THEN AfterRows(r) ELSE Leaves(req[r], req[r].todo \ {e}))
  BY DEF UpsertRow
<1>3. Job(r) \in DOMAIN job /\ IsJob(job[Job(r)]) /\ e \in EventIds
  BY <1>1, RequestFacts DEF Placed, Exists, TypeOK
<1>4. /\ OnlySets(Awaits(job[Job(r)], e), job[Job(r)], {"row"})
      /\ DOMAIN Awaits(job[Job(r)], e).row = DOMAIN job[Job(r)].row \union {e}
  BY <1>3, AwaitsIs
<1>5. Changes(Job(r), {"row"}) /\ job'[Job(r)] = Awaits(job[Job(r)], e)
  BY <1>2, <1>3, <1>4, Changed
<1>6. DOMAIN job'[Job(r)].row = DOMAIN job[Job(r)].row \union {e}
  BY <1>4, <1>5
<1>7. CASE req[r].todo = {e}
  <2>1. Moves(r) /\ req'[r] = AfterRows(r)
    BY <1>2, <1>7, Taken
  <2>2. Owner(r) => req[r].created
    BY <1>1 DEF Placed
  <2>3. OwnsEvents(r) => Body(r).via # "batch" /\ req[r].created
    BY <1>1, <2>2 DEF OwnsEvents, Owner
  <2> DEFINE pc == IF Body(r).via = "batch" THEN "snapshot" ELSE "send"
  <2>4. AfterRows(r) = At(req[r], pc)
    BY <2>3 DEF AfterRows
  <2> HIDE DEF pc
  <2>5. OnlyChanges(At(req[r], pc), req[r], {"pc"}) /\ At(req[r], pc).pc = pc
    BY <1>1, MovesOn
  <2> QED BY <1>1, <1>5, <1>6, <1>7, <2>1, <2>4, <2>5 DEF Writes, pc
<1>8. CASE req[r].todo # {e}
  <2> DEFINE p == Leaves(req[r], req[r].todo \ {e})
  <2>1. Moves(r) /\ req'[r] = p
    BY <1>2, <1>8, Taken
  <2>2. OnlyChanges(p, req[r], {"todo"}) /\ p.todo = req[r].todo \ {e}
    BY <1>1, MovesOn
  <2> HIDE DEF p
  <2>3. p.pc = "rows"
    BY <1>1, <2>2 DEF OnlyChanges
  <2> QED BY <1>1, <1>5, <1>6, <1>8, <2>1, <2>2, <2>3 DEF Writes
<1> QED BY <1>7, <1>8

LEMMA Completing ==
  ASSUME TypeOK, Placed, NEW r \in Requests, CompleteJob(r)
  PROVE  Completes(r)
<1>1. req[r].pc = "complete" /\ UNCHANGED <<event, faults>> /\ Busy(r) /\ IsRequest(req[r])
  BY RequestFacts DEF CompleteJob, Busy
<1>2. /\ job' = [job EXCEPT ![Job(r)] = Completed(@)]
      /\ Set(r, IF Body(r).via = "batch" THEN At(req[r], "snapshot")
                ELSE Answered(req[r], "ok", Job(r), req[r].results))
  BY DEF CompleteJob
<1>3. Job(r) \in DOMAIN job /\ IsJob(job[Job(r)])
  BY <1>1 DEF Placed, Exists, TypeOK
<1>4. /\ OnlySets(Completed(job[Job(r)]), job[Job(r)], {"status"})
      /\ Completed(job[Job(r)]).status = "completed"
  BY <1>3, CompletedIs
<1>5. Changes(Job(r), {"status"}) /\ job'[Job(r)].status = "completed"
  BY <1>2, <1>3, <1>4, Changed
<1>6. CASE Body(r).via = "batch"
  <2>1. Moves(r) /\ req'[r] = At(req[r], "snapshot")
    BY <1>2, <1>6, Taken
  <2>2. OnlyChanges(At(req[r], "snapshot"), req[r], {"pc"}) /\ At(req[r], "snapshot").pc = "snapshot"
    BY <1>1, MovesOn
  <2> QED BY <1>1, <1>5, <1>6, <2>1, <2>2 DEF Completes
<1>7. CASE Body(r).via # "batch"
  <2> DEFINE p == Answered(req[r], "ok", Job(r), req[r].results)
  <2>1. Moves(r) /\ req'[r] = p
    BY <1>2, <1>7, Taken
  <2>2. /\ OnlyChanges(p, req[r], {"pc", "said"}) /\ p.pc = "done"
        /\ p.said.code = "ok" /\ ~p.said.duplicate
        /\ p.said.job = Job(r) /\ p.said.results = req[r].results
    BY <1>1, AnsweredIs
  <2> HIDE DEF p
  <2>3. Response(r).job = Job(r) /\ Response(r).results = req[r].results
    BY <1>7 DEF Response
  <2>4. AnswersJob(r)
    BY <2>1, <2>2, <2>3 DEF AnswersJob
  <2> QED BY <1>1, <1>5, <1>7, <2>1, <2>4 DEF Completes
<1> QED BY <1>6, <1>7

LEMMA Recording ==
  ASSUME TypeOK, Placed, NEW r \in Requests, WriteSnapshot(r)
  PROVE  Records(r)
<1> DEFINE named == IF Body(r).compile THEN Job(r) ELSE None
           response == [job |-> named, results |-> req[r].results]
<1>1. req[r].pc = "snapshot" /\ UNCHANGED <<event, faults>> /\ Busy(r) /\ IsRequest(req[r])
  BY RequestFacts DEF WriteSnapshot, Busy
<1>2. /\ job' = [job EXCEPT ![Job(r)] = Keeps(@, response)]
      /\ Set(r, IF Body(r).compile THEN At(req[r], "send")
                ELSE Answered(req[r], "ok", named, req[r].results))
  BY DEF WriteSnapshot
<1>3. /\ Job(r) \in DOMAIN job /\ IsJob(job[Job(r)]) /\ Job(r) \in JobIds
      /\ Body(r).via = "batch"
  BY <1>1 DEF Placed, Exists, TypeOK
<1>4. /\ response = Response(r) /\ response.job = named /\ named \in JobIds \union {None}
      /\ response.results = req[r].results
  BY <1>3 DEF Response
<1> HIDE DEF response, named
<1>5. /\ OnlySets(Keeps(job[Job(r)], response), job[Job(r)], {"snapshot"})
      /\ Keeps(job[Job(r)], response).snapshot = response
  BY <1>3, <1>4, KeepsIs
<1>6. Changes(Job(r), {"snapshot"}) /\ job'[Job(r)].snapshot = response
  BY <1>2, <1>3, <1>5, Changed
<1>7. CASE Body(r).compile
  <2>1. Moves(r) /\ req'[r] = At(req[r], "send")
    BY <1>2, <1>7, Taken
  <2>2. OnlyChanges(At(req[r], "send"), req[r], {"pc"}) /\ At(req[r], "send").pc = "send"
    BY <1>1, MovesOn
  <2> QED BY <1>1, <1>4, <1>6, <1>7, <2>1, <2>2 DEF Records
<1>8. CASE ~Body(r).compile
  <2> DEFINE p == Answered(req[r], "ok", named, req[r].results)
  <2>1. Moves(r) /\ req'[r] = p
    BY <1>2, <1>8, Taken
  <2>2. /\ OnlyChanges(p, req[r], {"pc", "said"}) /\ p.pc = "done"
        /\ p.said.code = "ok" /\ ~p.said.duplicate
        /\ p.said.job = named /\ p.said.results = req[r].results
    BY <1>1, AnsweredIs
  <2> HIDE DEF p
  <2>3. AnswersJob(r)
    BY <1>4, <2>1, <2>2 DEF AnswersJob
  <2> QED BY <1>1, <1>4, <1>6, <1>8, <2>1, <2>3 DEF Records
<1> QED BY <1>7, <1>8

LEMMA Sending ==
  ASSUME TypeOK, Placed, NEW r \in Requests, Send(r)
  PROVE  Sends(r)
<1>1. /\ req[r].pc = "send" /\ UNCHANGED <<event, faults>> /\ Busy(r)
      /\ job' = [job EXCEPT ![Job(r)] = Announced(@)] /\ Set(r, AfterSend(r))
  BY DEF Send, Busy
<1>2. Job(r) \in DOMAIN job /\ IsJob(job[Job(r)])
  BY <1>1 DEF Placed, Exists, TypeOK
<1>3. /\ OnlySets(Announced(job[Job(r)]), job[Job(r)], {"announced"})
      /\ Announced(job[Job(r)]).announced
  BY <1>2, AnnouncedIs
<1>4. Changes(Job(r), {"announced"}) /\ job'[Job(r)].announced
  BY <1>1, <1>2, <1>3, Changed
<1>5. Moves(r) /\ req'[r] = AfterSend(r)
  BY <1>1, Taken
<1> QED BY <1>1, <1>4, <1>5 DEF Sends

LEMMA MessageFailing ==
  ASSUME TypeOK, InOrder, Placed, NEW r \in Requests, SendFails(r)
  PROVE  Fails(r)
<1> DEFINE j == Job(r)
<1>1. /\ req[r].pc = "send" /\ UNCHANGED <<event, job>> /\ Busy(r) /\ IsRequest(req[r])
      /\ faults' = faults + 1 /\ faults < MaxFaults /\ j \in JobIds
  BY RequestFacts DEF SendFails, Fault, Busy, Placed, Exists, TypeOK
<1>2. Set(r, IF Body(r).via = "compilation"
             THEN Answered(Loses(req[r], j), "error", None, req[r].results)
             ELSE Loses(AfterSend(r), j))
  BY DEF SendFails
<1> HIDE DEF j
<1>3. CASE Body(r).via = "compilation"
  <2> DEFINE q1 == Loses(req[r], j)
             p == Answered(q1, "error", None, req[r].results)
  <2>1. OnlyChanges(q1, req[r], {"lost"}) /\ q1.lost = req[r].lost \union {j}
    BY <1>1, LosesIs
  <2>2. Moves(r) /\ req'[r] = p
    BY <1>2, <1>3, Taken
  <2> HIDE DEF q1
  <2>3. IsRequest(q1)
    BY <2>1 DEF OnlyChanges
  <2>4. /\ OnlyChanges(p, q1, {"pc", "said"}) /\ p.pc = "done"
        /\ p.said.code = "error" /\ ~p.said.duplicate /\ p.said.job = None
    BY <2>3, AnsweredIs
  <2> HIDE DEF p
  <2>5. /\ OnlyChanges(p, req[r], {"pc", "at", "todo", "lost", "said"})
        /\ p.lost = req[r].lost \union {j} /\ p.at = req[r].at /\ p.todo \subseteq EventIds
    BY <2>1, <2>4, RequestFacts DEF OnlyChanges
  <2> QED BY <1>1, <2>2, <2>4, <2>5 DEF Fails, j
<1>4. CASE Body(r).via # "compilation"
  <2> DEFINE q1 == AfterSend(r)
             p == Loses(q1, j)
  <2>1. /\ OnlyChanges(q1, req[r], {"pc", "at", "todo", "said"}) /\ q1.todo = {}
        /\ \/ q1.pc = "find" /\ Owner(r) /\ q1.at = req[r].at + 1 /\ q1.at <= Len(Body(r).items)
           \/ q1.pc = "wait" /\ Owner(r) /\ q1.at = req[r].at
           \/ /\ q1.pc = "done" /\ q1.at = req[r].at /\ q1.said.job \in JobIds \union {None}
              /\ Asker(r) =>
                   /\ q1.said.code = "ok" /\ ~q1.said.duplicate
                   /\ q1.said.job = j /\ q1.said.results = req[r].results
    BY <1>1, AfterSendIs DEF j
  <2>2. Moves(r) /\ req'[r] = p
    BY <1>2, <1>4, Taken
  <2> HIDE DEF q1
  <2>3. IsRequest(q1)
    BY <2>1 DEF OnlyChanges
  <2>4. OnlyChanges(p, q1, {"lost"}) /\ p.lost = q1.lost \union {j}
    BY <2>3, LosesIs
  <2> HIDE DEF p
  <2>5. OnlyChanges(p, req[r], {"pc", "at", "todo", "lost", "said"}) /\ p.lost = req[r].lost \union {j}
    BY <2>1, <2>4 DEF OnlyChanges
  <2>6. p.pc = q1.pc /\ p.at = q1.at /\ p.said = q1.said /\ p.todo \subseteq EventIds
    BY <2>1, <2>4 DEF OnlyChanges
  <2> QED BY <1>1, <2>1, <2>2, <2>5, <2>6 DEF Fails, j
<1> QED BY <1>3, <1>4

\* What follows a statement about the job that throws.
LEMMA JobFailedLeaves ==
  ASSUME TypeOK, InOrder, Placed, NEW r \in Requests, Busy(r), Job(r) \in JobIds
  PROVE  LET p == JobFailed(r) IN
         /\ OnlyChanges(p, req[r], {"pc", "at", "said"})
         /\ \/ p.pc = "find" /\ Owner(r) /\ p.at = req[r].at + 1 /\ p.at <= Len(Body(r).items)
            \/ /\ p.pc = "done" /\ p.at = req[r].at /\ p.said.job \in JobIds \union {None}
               /\ Asker(r) => ~p.said.duplicate /\ (p.said.code = "ok" => Body(r).via = "batch")
<1>1. IsRequest(req[r]) /\ req[r].body = Body(r) /\ Body(r) \in Bodies /\ req[r].at \in Nat \ {0}
      /\ (Owner(r) <=> ~Asker(r))
  BY RequestFacts DEF Body
<1>2. ASSUME NEW code, NEW j \in JobIds \union {None}, code = "ok" => Body(r).via = "batch"
      PROVE  LET p == Answered(req[r], code, j, req[r].results) IN
             /\ OnlyChanges(p, req[r], {"pc", "at", "said"})
             /\ p.pc = "done" /\ p.at = req[r].at /\ p.said.job \in JobIds \union {None}
             /\ ~p.said.duplicate /\ (p.said.code = "ok" => Body(r).via = "batch")
  <2> DEFINE p == Answered(req[r], code, j, req[r].results)
  <2>1. /\ OnlyChanges(p, req[r], {"pc", "said"}) /\ p.pc = "done" /\ p.said.job = j
        /\ p.said.code = code /\ ~p.said.duplicate
    BY <1>1, AnsweredIs
  <2> HIDE DEF p
  <2>2. OnlyChanges(p, req[r], {"pc", "at", "said"}) /\ p.at = req[r].at
    BY <2>1 DEF OnlyChanges
  <2> QED BY <1>2, <2>1, <2>2 DEF p
<1> DEFINE p == JobFailed(r)
<1>3. CASE Body(r).via = "batch"
  <2> DEFINE j == IF req[r].created THEN Job(r) ELSE None
  <2>1. p = Answered(req[r], "ok", j, req[r].results) /\ j \in JobIds \union {None}
    BY <1>3 DEF JobFailed
  <2> HIDE DEF p, j
  <2> QED BY <1>2, <1>3, <2>1 DEF p
<1>4. CASE Body(r).via = "webhook"
  <2>1. p = NextItem(req[r])
    BY <1>4 DEF JobFailed
  <2> HIDE DEF p
  <2>2. /\ OnlyChanges(p, req[r], {"pc", "at", "said"})
        /\ \/ p.pc = "find" /\ p.at = req[r].at + 1 /\ p.at <= Len(Body(r).items)
           \/ p.pc = "done" /\ p.at = req[r].at /\ p.said.job = None
    BY <1>1, <1>4, <2>1, NextItemIs
  <2>3. Owner(r)
    BY <1>4 DEF Owner, OwnsEvents
  <2> QED BY <1>1, <2>2, <2>3 DEF p
<1>5. CASE Body(r).via \notin {"batch", "webhook"}
  <2>1. p = Answered(req[r], "error", None, req[r].results)
    BY <1>5 DEF JobFailed
  <2> HIDE DEF p
  <2> QED BY <1>2, <2>1 DEF p
<1> QED BY <1>3, <1>4, <1>5

LEMMA JobFailing ==
  ASSUME TypeOK, InOrder, Placed, StoredOnce, EventJobsAreTheirs, NEW r \in Requests, JobFails(r)
  PROVE  Fails(r)
<1> DEFINE j == Job(r)
           q1 == JobFailed(r)
           q2 == Leaves(q1, {})
           p == Loses(q2, j)
<1>1. /\ req[r].pc \in {"findJob", "insertJob", "rows", "complete", "snapshot"}
      /\ UNCHANGED <<event, job>> /\ Busy(r) /\ Set(r, p)
      /\ faults' = faults + 1 /\ faults < MaxFaults
  BY DEF JobFails, Fault, Busy
<1>2. j \in JobIds
  <2>1. CASE req[r].pc \in {"rows", "complete", "snapshot"}
    BY <2>1 DEF Placed, Exists, TypeOK
  <2>2. CASE req[r].pc \in {"findJob", "insertJob"} /\ Owner(r)
    BY <2>2, OwnersComeFirst DEF JobIds
  <2>3. CASE Asker(r)
    BY <2>3, JobIsId
  <2> QED BY <1>1, <2>1, <2>2, <2>3, RequestFacts
<1>3. Owner(r) => req[r].pc \notin {"complete", "snapshot"}
  BY DEF Placed, Owner, Asker, OwnsEvents
<1> HIDE DEF j, q1
<1>4. /\ OnlyChanges(q1, req[r], {"pc", "at", "said"})
      /\ \/ q1.pc = "find" /\ Owner(r) /\ q1.at = req[r].at + 1 /\ q1.at <= Len(Body(r).items)
         \/ /\ q1.pc = "done" /\ q1.at = req[r].at /\ q1.said.job \in JobIds \union {None}
            /\ Asker(r) => ~q1.said.duplicate /\ (q1.said.code = "ok" => Body(r).via = "batch")
  BY <1>1, <1>2, JobFailedLeaves DEF j, q1
<1>5. IsRequest(q1)
  BY <1>4 DEF OnlyChanges
<1>6. OnlyChanges(q2, q1, {"todo"}) /\ q2.todo = {}
  BY <1>5, MovesOn
<1> HIDE DEF q2
<1>7. IsRequest(q2)
  BY <1>6 DEF OnlyChanges
<1>8. OnlyChanges(p, q2, {"lost"}) /\ p.lost = q2.lost \union {j}
  BY <1>7, LosesIs
<1>9. Moves(r) /\ req'[r] = p
  BY <1>1, Taken
<1> HIDE DEF p
<1>10. /\ OnlyChanges(p, req[r], {"pc", "at", "todo", "lost", "said"})
       /\ p.lost = req[r].lost \union {j} /\ p.todo \subseteq EventIds
       /\ p.pc = q1.pc /\ p.at = q1.at /\ p.said = q1.said
  BY <1>4, <1>6, <1>8 DEF OnlyChanges
<1> QED BY <1>1, <1>2, <1>3, <1>4, <1>9, <1>10 DEF Fails, j

LEMMA Working ==
  ASSUME TypeOK, NEW j \in DOMAIN job, WorkerRuns(j)
  PROVE  Works(j)
<1>1. job[j].announced /\ UNCHANGED <<event, req, faults>>
  BY DEF WorkerRuns
<1>2. PICK outcome \in {"compiled", "failed"} : job' = [job EXCEPT ![j] = Settled(@, outcome)]
  BY DEF WorkerRuns
<1> DEFINE x == Settled(job[j], outcome)
<1>3. /\ OnlySets(x, job[j], {"status", "row", "snapshot"}) /\ x.status \in {"completed", "failed"}
      /\ x.snapshot = Counts /\ DOMAIN x.row = DOMAIN job[j].row
  BY SettledIs DEF TypeOK
<1>4. job' = [job EXCEPT ![j] = x]
  BY <1>2
<1> HIDE DEF x
<1>5. Changes(j, {"status", "row", "snapshot"}) /\ job'[j] = x
  BY <1>3, <1>4, Changed
<1> QED BY <1>1, <1>3, <1>5 DEF Works, Over

LEMMA Making ==
  ASSUME TypeOK, NEW r \in Requests, InsertJob(r)
  PROVE  Makes(r)
<1>1. Set(r, JobCreated(r, TRUE))
  BY DEF InsertJob
<1>2. Moves(r) /\ req'[r] = JobCreated(r, TRUE)
  BY <1>1, Taken
<1> QED BY <1>2 DEF InsertJob, Makes

\* The steps of the system.
LEMMA Steps ==
  ASSUME RequestInv, EventJobsAreTheirs, Next
  PROVE  \/ \E r \in Requests :
              \/ Begins(r) \/ (\E v \in Verdicts : Hears(r, v)) \/ Sorts(r) \/ Turns(r)
              \/ Makes(r) \/ (\E e \in req[r].todo : Writes(r, e)) \/ Completes(r)
              \/ Records(r) \/ Sends(r) \/ Fails(r)
         \/ \E j \in DOMAIN job : Works(j)
<1>1. TypeOK /\ InOrder /\ Placed /\ StoredOnce
  BY DEF RequestInv
<1>2. CASE \E j \in DOMAIN job : WorkerRuns(j)
  BY <1>1, <1>2, Working
<1>3. ASSUME NEW r \in Requests,
             \/ Start(r) \/ Sort(r) \/ Intake(r) \/ Create(r) \/ Announce(r) \/ Wait(r)
             \/ Crash(r)
      PROVE  \/ Begins(r) \/ (\E v \in Verdicts : Hears(r, v)) \/ Sorts(r) \/ Turns(r)
             \/ Makes(r) \/ (\E e \in req[r].todo : Writes(r, e)) \/ Completes(r)
             \/ Records(r) \/ Sends(r) \/ Fails(r)
  <2>1. CASE Start(r)
    BY <1>1, <2>1, Arriving
  <2>2. CASE Intake(r)
    BY <1>1, <2>2, Hearing
  <2>3. CASE Classify(r)
    BY <1>1, <2>3, Sorting
  <2>4. CASE \/ ReplayBatch(r) \/ ReplayCompilation(r) \/ LookupFails(r) \/ FindJob(r)
             \/ InsertJobRefused(r) \/ Wait(r) \/ Crash(r)
    BY <1>1, <2>4, Turning
  <2>5. CASE InsertJob(r)
    BY <1>1, <2>5, Making
  <2>6. CASE UpsertRow(r)
    BY <1>1, <2>6, Writing
  <2>7. CASE CompleteJob(r)
    BY <1>1, <2>7, Completing
  <2>8. CASE WriteSnapshot(r)
    BY <1>1, <2>8, Recording
  <2>9. CASE Send(r)
    BY <1>1, <2>9, Sending
  <2>10. CASE SendFails(r)
    BY <1>1, <2>10, MessageFailing
  <2>13. CASE JobFails(r)
    BY <1>1, <2>13, JobFailing
  <2>11. Create(r) => FindJob(r) \/ InsertJob(r) \/ InsertJobRefused(r)
    BY DEF Create
  <2>12. Announce(r) => \/ UpsertRow(r) \/ CompleteJob(r) \/ WriteSnapshot(r) \/ Send(r)
                        \/ SendFails(r) \/ JobFails(r)
    BY DEF Announce
  <2>14. Sort(r) => ReplayBatch(r) \/ ReplayCompilation(r) \/ Classify(r) \/ LookupFails(r)
    BY DEF Sort
  <2> QED BY <1>3, <2>1, <2>2, <2>3, <2>4, <2>5, <2>6, <2>7, <2>8, <2>9, <2>10, <2>11, <2>12,
             <2>13, <2>14
<1> QED BY <1>2, <1>3 DEF Next

-----------------------------------------------------------------------------
(* What a step leaves alone                                                *)

\* Of another request, all.
LEMMA Elsewhere ==
  ASSUME TypeOK, NEW r \in Requests, Moves(r), NEW s \in Requests \ {r}
  PROVE  /\ req'[s] = req[s] /\ Body(s)' = Body(s)
         /\ Busy(s)' <=> Busy(s)
         /\ Delivers(s)' <=> Delivers(s)
         /\ Owner(s)' <=> Owner(s)
         /\ Asker(s)' <=> Asker(s)
         /\ \A n : Named(s, n)' = Named(s, n) /\ (Stored(s, n)' <=> Stored(s, n))
         /\ Event(s)' = Event(s) /\ Item(s)' = Item(s) /\ Accepted(s)' = Accepted(s)
         /\ Busy(s) => Job(s)' = Job(s) /\ Covers(s)' = Covers(s)
<1>1. req'[s] = req[s]
  BY DEF Moves
<1>2. Body(s)' = Body(s) /\ (Busy(s)' <=> Busy(s)) /\ Delivery(s)' = Delivery(s)
  BY <1>1 DEF Body, Busy, Delivery
<1>3. OwnsEvents(s)' <=> OwnsEvents(s)
  BY <1>2 DEF OwnsEvents
<1>4. /\ Delivers(s)' <=> Delivers(s)
      /\ Owner(s)' <=> Owner(s)
      /\ Asker(s)' <=> Asker(s)
  BY <1>2, <1>3 DEF Delivers, Owner, Asker
<1>5. \A n : Named(s, n)' = Named(s, n) /\ (Stored(s, n)' <=> Stored(s, n))
  BY <1>1, <1>2, <1>4 DEF Named, Stored
<1>6. Item(s)' = Item(s) /\ Event(s)' = Event(s)
  BY <1>1, <1>2 DEF Item, Event
<1>8. Accepted(s)' = Accepted(s)
  BY <1>1, <1>2 DEF Accepted
<1>b. Busy(s) => OwnsEvents(s) \/ Body(s).via \in {"batch", "compilation"}
  BY RequestFacts DEF Asker
<1>7. Busy(s) => Job(s)' = Job(s)
  BY <1>2, <1>3, <1>6, <1>b DEF Job
<1>9. Busy(s) => Covers(s)' = Covers(s)
  BY <1>1, <1>2, <1>3, <1>6, <1>8, <1>b DEF Covers
<1> QED BY <1>1, <1>2, <1>4, <1>5, <1>6, <1>7, <1>8, <1>9

\* Of the request that takes the step, what its body says.
Stays(r) == Moves(r) /\ Busy(r) /\ Busy(r)' /\ req'[r].body = req[r].body

LEMMA BodyStays ==
  ASSUME TypeOK, NEW r \in Requests, Stays(r)
  PROVE  /\ Body(r)' = Body(r)
         /\ Delivers(r)' <=> Delivers(r)
         /\ Owner(r)' <=> Owner(r)
         /\ Asker(r)' <=> Asker(r)
         /\ \A n : Named(r, n)' = Named(r, n)
         /\ req'[r].at = req[r].at => Event(r)' = Event(r) /\ Item(r)' = Item(r)
         /\ Asker(r) \/ req'[r].at = req[r].at => Job(r)' = Job(r)
         /\ req'[r].results = req[r].results =>
              Accepted(r)' = Accepted(r) /\ \A n : Stored(r, n)' <=> Stored(r, n)
         /\ Asker(r) /\ req'[r].results = req[r].results /\ req'[r].queued = req[r].queued =>
              Covers(r)' = Covers(r)
<1>1. Body(r)' = Body(r) /\ Delivery(r)' = Delivery(r) /\ Busy(r) /\ Busy(r)'
  BY DEF Stays, Body, Delivery
<1>2. OwnsEvents(r)' <=> OwnsEvents(r)
  BY <1>1 DEF OwnsEvents
<1>3. /\ Delivers(r)' <=> Delivers(r)
      /\ Owner(r)' <=> Owner(r)
      /\ Asker(r)' <=> Asker(r)
  BY <1>1, <1>2 DEF Delivers, Owner, Asker
<1>b. OwnsEvents(r) \/ Body(r).via \in {"batch", "compilation"}
  BY <1>1, RequestFacts DEF Asker
<1>4. \A n : Named(r, n)' = Named(r, n)
  BY <1>1 DEF Named
<1>5. req'[r].at = req[r].at => Event(r)' = Event(r) /\ Item(r)' = Item(r)
  BY <1>1 DEF Item, Event
<1>6. Asker(r) \/ req'[r].at = req[r].at => Job(r)' = Job(r)
  BY <1>1, <1>2, <1>5, <1>b DEF Job, Asker
<1>7. req'[r].results = req[r].results =>
        Accepted(r)' = Accepted(r) /\ \A n : Stored(r, n)' <=> Stored(r, n)
  BY <1>1, <1>3 DEF Accepted, Stored
<1>8. Asker(r) /\ req'[r].results = req[r].results /\ req'[r].queued = req[r].queued =>
        Covers(r)' = Covers(r)
  BY <1>1, <1>2, <1>7, <1>b DEF Covers, Asker
<1> QED BY <1>1, <1>3, <1>4, <1>5, <1>6, <1>7, <1>8
\* A step that neither stores an event nor sorts one.
Quiet(r) ==
  /\ Stays(r) /\ event' = event
  /\ OnlyChanges(req'[r], req[r], {"pc", "at", "todo", "created", "lost", "said"})

LEMMA Quieting ==
  ASSUME TypeOK, InOrder, Placed, NEW r \in Requests,
         \/ Turns(r) \/ Makes(r) \/ (\E e \in req[r].todo : Writes(r, e)) \/ Completes(r)
         \/ Records(r) \/ Sends(r) \/ Fails(r)
  PROVE  Quiet(r)
<1> DEFINE fields == {"pc", "at", "todo", "created", "lost", "said"}
<1>1. /\ Moves(r) /\ Busy(r) /\ event' = event /\ OnlyChanges(req'[r], req[r], fields)
      /\ req'[r].pc # "idle"
  <2>1. CASE Turns(r)
    BY <2>1 DEF Turns, OnlyChanges, Answers
  <2>2. CASE Makes(r)
    <3>1. Moves(r) /\ Busy(r) /\ event' = event /\ req'[r] = JobCreated(r, TRUE)
      BY <2>2 DEF Makes, Busy
    <3> DEFINE p == JobCreated(r, TRUE)
    <3>2. OnlyChanges(p, req[r], {"pc", "created", "todo"}) /\ p.pc \in {"rows", "complete"}
      BY <3>1, CreatedIs
    <3> HIDE DEF p
    <3>3. OnlyChanges(p, req[r], fields)
      BY <3>2 DEF OnlyChanges
    <3> QED BY <3>1, <3>2, <3>3 DEF p
  <2>3. CASE \E e \in req[r].todo : Writes(r, e)
    BY <2>3 DEF Writes, OnlyChanges, Busy
  <2>4. CASE Completes(r)
    BY <2>4 DEF Completes, OnlyChanges, AnswersJob, Busy
  <2>5. CASE Records(r)
    BY <2>5 DEF Records, OnlyChanges, AnswersJob, Busy
  <2>6. CASE Sends(r)
    <3>1. Moves(r) /\ Busy(r) /\ event' = event /\ req'[r] = AfterSend(r) /\ req[r].pc = "send"
      BY <2>6 DEF Sends, Busy
    <3> DEFINE p == AfterSend(r)
    <3>2. OnlyChanges(p, req[r], {"pc", "at", "todo", "said"}) /\ p.pc \in {"find", "wait", "done"}
      BY <3>1, AfterSendIs
    <3> HIDE DEF p
    <3>3. OnlyChanges(p, req[r], fields)
      BY <3>2 DEF OnlyChanges
    <3> QED BY <3>1, <3>2, <3>3 DEF p
  <2>7. CASE Fails(r)
    BY <2>7 DEF Fails, OnlyChanges, Busy
  <2> QED BY <2>1, <2>2, <2>3, <2>4, <2>5, <2>6, <2>7
<1>2. req'[r].body = req[r].body /\ Busy(r)'
  BY <1>1 DEF OnlyChanges, Busy
<1> QED BY <1>1, <1>2 DEF Quiet, Stays

\* Such a step leaves every request what it has stored, accepted and queued.
LEMMA QuietKeeps ==
  ASSUME TypeOK, NEW r \in Requests, Quiet(r), NEW s \in Requests
  PROVE  /\ Body(s)' = Body(s) /\ req'[s].results = req[s].results /\ req'[s].queued = req[s].queued
         /\ Busy(s)' <=> Busy(s)
         /\ Delivers(s)' <=> Delivers(s)
         /\ Owner(s)' <=> Owner(s)
         /\ Asker(s)' <=> Asker(s)
         /\ \A n : Named(s, n)' = Named(s, n) /\ (Stored(s, n)' <=> Stored(s, n))
         /\ Accepted(s)' = Accepted(s)
         /\ Asker(s) => Job(s)' = Job(s) /\ Covers(s)' = Covers(s)
<1>1. CASE s = r
  <2>1. Stays(r) /\ req'[r].results = req[r].results /\ req'[r].queued = req[r].queued
    BY DEF Quiet, OnlyChanges
  <2> QED BY <1>1, <2>1, BodyStays DEF Stays
<1>2. CASE s # r
  <2>1. Moves(r) /\ s \in Requests \ {r}
    BY <1>2 DEF Quiet, Stays
  <2> QED BY <2>1, Elsewhere DEF Asker
<1> QED BY <1>1, <1>2

LEMMA QuietKeepsStored ==
  ASSUME TypeOK, StoredIsThere, StoredOnce, NEW r \in Requests, Quiet(r)
  PROVE  StoredIsThere' /\ StoredOnce'
<1>1. /\ \A s \in Requests : req'[s].queued = req[s].queued
      /\ \A s \in Requests : \A n : Named(s, n)' = Named(s, n) /\ (Stored(s, n)' <=> Stored(s, n))
  BY QuietKeeps
<1>2. event' = event
  BY DEF Quiet
<1>3. StoredIsThere'
  BY <1>1, <1>2 DEF StoredIsThere
<1>4. StoredOnce'
  BY <1>1 DEF StoredOnce
<1> QED BY <1>3, <1>4
-----------------------------------------------------------------------------
(* Types                                                                   *)

JobsOK == DOMAIN job \subseteq JobIds /\ job = [j \in DOMAIN job |-> job[j]] /\ \A j \in DOMAIN job : IsJob(job[j])

LEMMA TypesFollow ==
  ASSUME TypeOK, NEW r \in Requests, Moves(r), RequestOK(req'[r]), JobsOK',
         event' \in [EventIds -> Payloads \union {None}], faults' \in 0..MaxFaults
  PROVE  TypeOK'
<1>1. \A s \in Requests : RequestOK(req'[s])
  <2> TAKE s \in Requests
  <2>1. CASE s = r
    BY <2>1
  <2>2. CASE s # r
    <3>1. req'[s] = req[s]
      BY <2>2 DEF Moves
    <3>2. RequestOK(req[s])
      BY DEF TypeOK
    <3> QED BY <3>1, <3>2
  <2> QED BY <2>1, <2>2
<1>2. DOMAIN req' = Requests /\ req' = [s \in Requests |-> req'[s]]
  BY DEF Moves
<1> QED BY <1>1, <1>2 DEF TypeOK, JobsOK

LEMMA QuietTypes ==
  ASSUME TypeOK, NEW r \in Requests, Quiet(r), req'[r].at \in Nat \ {0},
         req'[r].todo \subseteq EventIds, req'[r].created \in BOOLEAN, req'[r].lost \subseteq JobIds,
         req'[r].pc = "done" => req'[r].said.job \in JobIds \union {None}
  PROVE  RequestOK(req'[r])
<1>1. IsRequest(req'[r]) /\ req'[r].queued = req[r].queued /\ req'[r].body = req[r].body
  BY DEF Quiet, OnlyChanges
<1>2. req[r].body \in Bodies /\ req'[r].pc # "idle"
  BY RequestFacts DEF Quiet, Stays, Busy, Body
<1>3. req[r].queued \subseteq EventIds
  BY RequestFacts
<1> QED BY <1>1, <1>2, <1>3 DEF RequestOK

LEMMA ChangesTypes ==
  ASSUME TypeOK, NEW j, NEW columns, Changes(j, columns)
  PROVE  JobsOK'
<1>1. IsJob(job'[j])
  BY DEF Changes, OnlySets
<1>2. \A i \in DOMAIN job' : IsJob(job'[i])
  <2> TAKE i \in DOMAIN job'
  <2>1. CASE i = j
    BY <1>1, <2>1
  <2>2. CASE i # j
    <3>1. job'[i] = job[i] /\ i \in DOMAIN job
      BY <2>2 DEF Changes
    <3> QED BY <3>1 DEF TypeOK
  <2> QED BY <2>1, <2>2
<1>3. DOMAIN job' \subseteq JobIds /\ job' = [i \in DOMAIN job' |-> job'[i]]
  BY DEF Changes, TypeOK
<1> QED BY <1>2, <1>3 DEF JobsOK

\* The job a request makes.
LEMMA MadeIs ==
  ASSUME RequestInv, EventJobsAreTheirs, NEW r \in Requests, Makes(r)
  PROVE  /\ Busy(r) /\ Job(r) \in JobIds /\ DOMAIN job' = DOMAIN job \union {Job(r)}
         /\ job' = [i \in DOMAIN job' |-> job'[i]]
         /\ \A i \in DOMAIN job : job'[i] = job[i]
         /\ IsJob(job'[Job(r)])
         /\ job'[Job(r)].status = "queued" /\ ~job'[Job(r)].announced
         /\ job'[Job(r)].row = << >>
         /\ job'[Job(r)].snapshot =
              IF Body(r).via = "compilation" THEN [job |-> Job(r), results |-> req[r].results] ELSE None
<1>1. Busy(r) /\ ~Exists(Job(r)) /\ TypeOK /\ InOrder /\ Placed /\ StoredOnce /\ req[r].pc = "insertJob"
  BY DEF Makes, Busy, RequestInv
<1>2. Job(r) \in JobIds
  <2>1. CASE Owner(r)
    BY <1>1, <2>1, OwnersComeFirst DEF JobIds
  <2>2. CASE Asker(r)
    BY <1>1, <2>2, JobIsId
  <2> QED BY <1>1, <2>1, <2>2, RequestFacts
<1> DEFINE j == Job(r)
           snapshot == IF Body(r).via = "compilation" THEN [job |-> j, results |-> req[r].results] ELSE None
           x == [status |-> "queued", hash |-> Hash(r), announced |-> FALSE, row |-> << >>,
                 snapshot |-> snapshot]
<1>3. job' = Put(job, j, x)
  BY DEF Makes
<1>4. snapshot \notin {None, Counts} => snapshot.job \in JobIds \union {None}
  BY <1>2
<1> HIDE DEF snapshot
<1>5. /\ IsJob(x) /\ x.status = "queued" /\ ~x.announced /\ x.row = << >> /\ x.snapshot = snapshot
  <2>1. DOMAIN << >> = {} /\ << >> \in [{} -> {"pending", "compiled", "failed"}]
    OBVIOUS
  <2> QED BY <1>4, <2>1 DEF IsJob
<1> HIDE DEF j, x
<1>6. /\ DOMAIN job' = DOMAIN job \union {j} /\ job'[j] = x
      /\ \A i \in DOMAIN job : i # j => job'[i] = job[i]
      /\ job' = [i \in DOMAIN job' |-> job'[i]]
  BY <1>3 DEF Put
<1>7. j \notin DOMAIN job
  BY <1>1 DEF j, Exists
<1> QED BY <1>1, <1>2, <1>5, <1>6, <1>7 DEF j, snapshot
\* A step of a request, by what it does.
Tables(r) ==
  \/ Turns(r) \/ Makes(r) \/ (\E e \in req[r].todo : Writes(r, e)) \/ Completes(r)
  \/ Records(r) \/ Sends(r) \/ Fails(r)

Acts(r) == Begins(r) \/ (\E v \in Verdicts : Hears(r, v)) \/ Sorts(r) \/ Tables(r)

LEMMA TablesTypes ==
  ASSUME RequestInv, EventJobsAreTheirs, NEW r \in Requests, Tables(r)
  PROVE  TypeOK'
<1>1. TypeOK /\ InOrder /\ Placed /\ StoredOnce
  BY DEF RequestInv
<1>2. Quiet(r)
  BY <1>1, Quieting DEF Tables
<1>3. /\ Moves(r) /\ Busy(r) /\ event' \in [EventIds -> Payloads \union {None}]
      /\ OnlyChanges(req'[r], req[r], {"pc", "at", "todo", "created", "lost", "said"})
  BY <1>1, <1>2 DEF Quiet, Stays, TypeOK
<1>4. /\ req[r].at \in Nat \ {0} /\ req[r].todo \subseteq EventIds
      /\ req[r].created \in BOOLEAN /\ req[r].lost \subseteq JobIds
  BY <1>1, RequestFacts
<1>5. faults' \in 0..MaxFaults
  <2>1. faults \in 0..MaxFaults /\ MaxFaults \in Nat
    BY <1>1, FaultsAssumption DEF TypeOK
  <2>2. faults' = faults \/ (faults' = faults + 1 /\ faults < MaxFaults)
    BY DEF Tables, Turns, Makes, Writes, Completes, Records, Sends, Fails
  <2> QED BY <2>1, <2>2
<1>6. JobsOK'
  <2>1. CASE job' = job
    BY <1>1, <2>1 DEF JobsOK, TypeOK
  <2>2. ASSUME NEW columns, Changes(Job(r), columns) PROVE JobsOK'
    BY <1>1, <2>2, ChangesTypes
  <2>3. CASE Makes(r)
    <3>1. /\ Job(r) \in JobIds /\ DOMAIN job' = DOMAIN job \union {Job(r)}
          /\ job' = [i \in DOMAIN job' |-> job'[i]]
          /\ \A i \in DOMAIN job : job'[i] = job[i]
          /\ IsJob(job'[Job(r)])
      BY <2>3, MadeIs
    <3>2. DOMAIN job \subseteq JobIds /\ \A i \in DOMAIN job : IsJob(job[i])
      BY <1>1 DEF TypeOK
    <3>3. ASSUME NEW i \in DOMAIN job' PROVE IsJob(job'[i])
      <4>1. CASE i = Job(r)
        BY <3>1, <4>1
      <4>2. CASE i \in DOMAIN job
        <5>1. job'[i] = job[i]
          BY <3>1, <4>2
        <5> QED BY <3>2, <4>2, <5>1
      <4> QED BY <3>1, <3>3, <4>1, <4>2
    <3> QED BY <3>1, <3>2, <3>3 DEF JobsOK
  <2> QED BY <2>1, <2>2, <2>3 DEF Tables, Turns, Writes, Completes, Records, Sends, Fails
<1>7. /\ req'[r].at \in Nat \ {0} /\ req'[r].todo \subseteq EventIds
      /\ req'[r].created \in BOOLEAN /\ req'[r].lost \subseteq JobIds
      /\ req'[r].pc = "done" => req'[r].said.job \in JobIds \union {None}
  <2>1. CASE Turns(r)
    <3>1. req[r].pc = "wait" => Job(r) \in JobIds
      BY <1>1 DEF Placed, Exists, TypeOK
    <3>2. req'[r].pc = "done" => req'[r].said.job \in JobIds \union {None}
      BY <2>1, <3>1 DEF Turns, Answers
    <3>3. /\ req'[r].todo \subseteq EventIds /\ req'[r].at = req[r].at
          /\ req'[r].created = req[r].created /\ req'[r].lost = req[r].lost
      BY <2>1 DEF Turns, OnlyChanges
    <3> QED BY <1>4, <3>2, <3>3
  <2>2. CASE Makes(r)
    <3>1. req'[r] = JobCreated(r, TRUE)
      BY <2>2 DEF Makes
    <3> DEFINE p == JobCreated(r, TRUE)
    <3>2. /\ OnlyChanges(p, req[r], {"pc", "created", "todo"}) /\ p.todo = Covers(r)
          /\ p.created /\ p.created \in BOOLEAN
          /\ p.pc \in {"rows", "complete"}
      BY <1>1, <1>3, CreatedIs
    <3>3. Covers(r) \subseteq EventIds
      <4>1. CASE Asker(r)
        BY <1>1, <4>1, CoversAreIds
      <4>2. CASE Owner(r)
        <5>1. Event(r) \in EventIds
          BY <1>1, <2>2, <4>2, OwnersComeFirst DEF Makes
        <5> QED BY <4>2, <5>1, CoversIs
      <4> QED BY <1>1, <1>3, <4>1, <4>2, RequestFacts
    <3> HIDE DEF p
    <3> QED BY <1>4, <3>1, <3>2, <3>3 DEF OnlyChanges, p
  <2>3. CASE \E e \in req[r].todo : Writes(r, e)
    <3>1. PICK e \in req[r].todo : Writes(r, e)
      BY <2>3
    <3>2. /\ req'[r].at = req[r].at /\ req'[r].todo \subseteq req[r].todo
          /\ req'[r].created = req[r].created /\ req'[r].lost = req[r].lost
          /\ req'[r].pc # "done"
      BY <3>1 DEF Writes, OnlyChanges
    <3> QED BY <1>4, <3>2
  <2>4. CASE Completes(r) \/ Records(r)
    <3>1. Job(r) \in JobIds
      BY <1>1, <2>4 DEF Completes, Records, Placed, Exists, TypeOK
    <3>2. Response(r).job \in JobIds \union {None}
      BY <3>1 DEF Response
    <3>3. /\ req'[r].at = req[r].at /\ req'[r].todo = req[r].todo
          /\ req'[r].created = req[r].created /\ req'[r].lost = req[r].lost
          /\ req'[r].pc = "done" => req'[r].said.job = Response(r).job
      BY <2>4 DEF Completes, Records, AnswersJob, OnlyChanges
    <3> QED BY <1>4, <3>2, <3>3
  <2>5. CASE Sends(r)
    <3>1. req'[r] = AfterSend(r) /\ req[r].pc = "send"
      BY <2>5 DEF Sends
    <3> DEFINE p == AfterSend(r)
    <3>2. /\ OnlyChanges(p, req[r], {"pc", "at", "todo", "said"}) /\ p.todo = {}
          /\ p.at \in {req[r].at, req[r].at + 1}
          /\ p.pc = "done" => p.said.job \in JobIds \union {None}
      BY <1>1, <3>1, AfterSendIs
    <3> HIDE DEF p
    <3>3. p.at \in Nat \ {0} /\ p.created = req[r].created /\ p.lost = req[r].lost
      BY <1>4, <3>2 DEF OnlyChanges
    <3> QED BY <1>4, <3>1, <3>2, <3>3 DEF p
  <2>6. CASE Fails(r)
    <3>1. req'[r].at \in {req[r].at, req[r].at + 1} /\ req'[r].todo \subseteq EventIds
      BY <2>6 DEF Fails
    <3>2. req'[r].created = req[r].created
      BY <2>6 DEF Fails, OnlyChanges
    <3>3. req'[r].lost = req[r].lost \union {Job(r)} /\ Job(r) \in JobIds
      BY <2>6 DEF Fails
    <3>4. req'[r].pc = "done" => req'[r].said.job \in JobIds \union {None}
      BY <2>6 DEF Fails
    <3> QED BY <1>4, <3>1, <3>2, <3>3, <3>4
  <2> QED BY <2>1, <2>2, <2>3, <2>4, <2>5, <2>6 DEF Tables
<1> QED BY <1>1, <1>2, <1>3, <1>5, <1>6, <1>7, QuietTypes, TypesFollow
LEMMA TypesKept ==
  ASSUME RequestInv, EventJobsAreTheirs, NEW r \in Requests, Acts(r)
  PROVE  TypeOK'
<1>1. TypeOK /\ InOrder /\ Placed
  BY DEF RequestInv
<1>2. /\ event \in [EventIds -> Payloads \union {None}] /\ faults \in 0..MaxFaults
      /\ job' = job => JobsOK'
  BY <1>1 DEF TypeOK, JobsOK
<1>3. CASE Begins(r)
  <2>1. /\ Moves(r) /\ event' = event /\ job' = job /\ faults' = faults
        /\ IsRequest(req'[r]) /\ req'[r].body \in Bodies /\ req'[r].at = 1
        /\ req'[r].results = << >> /\ req'[r].queued = {} /\ req'[r].todo = {}
        /\ ~req'[r].created /\ req'[r].lost = {} /\ req'[r].pc # "idle"
        /\ req'[r].pc = "done" => req'[r].said.job = None
        /\ req'[r].created \in BOOLEAN /\ req'[r].lost \subseteq JobIds
    BY <1>3 DEF Begins
  <2>2. RequestOK(req'[r])
    BY <2>1 DEF RequestOK
  <2> QED BY <1>1, <1>2, <2>1, <2>2, TypesFollow
<1>4. CASE \E v \in Verdicts : Hears(r, v)
  <2>1. PICK v \in Verdicts : Hears(r, v)
    BY <1>4
  <2>2. /\ req[r].pc \in {"find", "insert"} /\ Moves(r) /\ req'[r] = Verdict(r, v) /\ job' = job
        /\ faults' \in faults..MaxFaults /\ Tells(r, v)
    BY <2>1 DEF Hears
  <2> DEFINE p == Verdict(r, v)
  <2>3. /\ OnlyChanges(p, req[r], {"pc", "at", "results", "said"}) /\ p.pc # "idle"
        /\ p.at \in {req[r].at, req[r].at + 1}
        /\ p.pc = "done" => p.said.job \in JobIds \union {None}
    BY <1>1, <2>2, VerdictIs
  <2> HIDE DEF p
  <2>4. /\ IsRequest(p) /\ p.body = req[r].body /\ p.queued = req[r].queued /\ p.todo = req[r].todo
        /\ p.created = req[r].created /\ p.lost = req[r].lost
    BY <2>3 DEF OnlyChanges
  <2>5. /\ req[r].body \in Bodies /\ req[r].at \in Nat \ {0}
        /\ req[r].queued \subseteq EventIds /\ req[r].todo \subseteq EventIds
        /\ req[r].created \in BOOLEAN /\ req[r].lost \subseteq JobIds
    BY <1>1, <2>2, RequestFacts DEF Busy, Body
  <2>6. RequestOK(p)
    BY <2>3, <2>4, <2>5 DEF RequestOK
  <2>7. event' \in [EventIds -> Payloads \union {None}]
    <3>1. CASE event' = event
      BY <1>2, <3>1
    <3>2. CASE event' = [event EXCEPT ![Event(r)] = Item(r).hash]
      <4>1. Delivers(r) /\ req[r].at <= Len(Body(r).items)
        BY <1>1, <2>2 DEF InOrder
      <4>2. Len(Body(r).items) \in Nat
        BY <2>5, BodyFacts DEF Body
      <4>3. req[r].at \in 1..Len(Body(r).items)
        BY <2>5, <4>1, <4>2
      <4>4. Item(r).hash \in Payloads
        BY <1>1, <4>1, <4>3, NamesAreIds DEF Item
      <4> QED BY <1>2, <3>2, <4>4
    <3> QED BY <2>2, <3>1, <3>2 DEF Tells
  <2>8. faults' \in 0..MaxFaults
    BY <1>2, <2>2, FaultsAssumption
  <2> QED BY <1>1, <1>2, <2>2, <2>6, <2>7, <2>8, TypesFollow DEF p
<1>5. CASE Sorts(r)
  <2>1. /\ Moves(r) /\ event' = event /\ job' = job /\ faults' = faults /\ req[r].pc = "classify"
        /\ OnlyChanges(req'[r], req[r], {"pc", "results", "queued"}) /\ req'[r].pc = "findJob"
        /\ req'[r].queued \subseteq Body(r).wants
    BY <1>5 DEF Sorts
  <2>2. Body(r) \in Bodies /\ req[r].body = Body(r)
    BY <1>1, <2>1, RequestFacts DEF Busy, Body
  <2>3. req'[r].queued \subseteq EventIds
    BY <2>1, <2>2, BodyFacts
  <2>4. /\ req[r].at \in Nat \ {0} /\ req[r].todo \subseteq EventIds
        /\ req[r].created \in BOOLEAN /\ req[r].lost \subseteq JobIds
    BY <1>1, RequestFacts
  <2>5. RequestOK(req'[r])
    BY <2>1, <2>2, <2>3, <2>4 DEF OnlyChanges, RequestOK
  <2> QED BY <1>1, <1>2, <2>1, <2>5, TypesFollow
<1>6. CASE Tables(r)
  BY <1>6, TablesTypes
<1> QED BY <1>3, <1>4, <1>5, <1>6 DEF Acts

-----------------------------------------------------------------------------
(* Requests                                                                *)

\* What a step leaves the request that takes it, when it may go on.
InOrderAt(r) ==
  /\ Delivers(r) =>
       req[r].results \in Seq(Verdicts) /\ Len(req[r].results) <= Len(Body(r).items)
  /\ req[r].pc \in {"find", "insert"} =>
       Delivers(r) /\ req[r].at = Len(req[r].results) + 1 /\ req[r].at <= Len(Body(r).items)

LEMMA OrderElsewhere ==
  ASSUME TypeOK, InOrder, NEW r \in Requests, Moves(r), InOrderAt(r)'
  PROVE  InOrder'
<1>1. ASSUME NEW s \in Requests \ {r} PROVE InOrderAt(s)'
  <2>1. InOrderAt(s)
    BY DEF InOrder, InOrderAt
  <2>2. req'[s] = req[s] /\ Body(s)' = Body(s) /\ (Delivers(s)' <=> Delivers(s))
    BY <1>1, Elsewhere
  <2> QED BY <2>1, <2>2 DEF InOrderAt
<1>2. \A s \in Requests : InOrderAt(s)'
  BY <1>1
<1> QED BY <1>2 DEF InOrder, InOrderAt

LEMMA OrderKept ==
  ASSUME RequestInv, EventJobsAreTheirs, NEW r \in Requests, Acts(r)
  PROVE  InOrder'
<1>1. TypeOK /\ InOrder /\ Placed
  BY DEF RequestInv
<1>2. CASE Begins(r)
  <2>1. /\ Moves(r) /\ req'[r].results = << >> /\ req'[r].at = 1 /\ req'[r].body \in Bodies
        /\ \/ req'[r].pc = "find" /\ req'[r].body.via \in {"single", "direct", "memory", "webhook"}
           \/ req'[r].pc \in {"replay", "done"}
    BY <1>2 DEF Begins
  <2> DEFINE b == req'[r].body
  <2>2. /\ Len(b.items) \in Nat
        /\ b.via = "webhook" => Len(b.items) >= 1
        /\ b.via \in {"single", "direct", "memory"} => Len(b.items) = 1
    BY <2>1, BodyFacts
  <2>3. Body(r)' = b
    BY DEF Body
  <2>4. Len(<< >>) = 0 /\ << >> \in Seq(Verdicts)
    OBVIOUS
  <2>5. req'[r].pc = "find" => Delivers(r)'
    BY <2>1, <2>3 DEF Delivers, Busy
  <2>7. req'[r].pc \in {"find", "insert"} => req'[r].pc = "find" /\ 1 <= Len(b.items)
    <3> DEFINE n == Len(b.items)
               via == b.via
               pc == req'[r].pc
    <3>1. /\ n \in Nat
          /\ via = "webhook" => n >= 1
          /\ via \in {"single", "direct", "memory"} => n = 1
      BY <2>2
    <3>2. \/ pc = "find" /\ via \in {"single", "direct", "memory", "webhook"}
          \/ pc \in {"replay", "done"}
      BY <2>1
    <3> HIDE DEF n, via, pc
    <3>3. pc \in {"find", "insert"} => pc = "find" /\ 1 <= n
      BY <3>1, <3>2
    <3> QED BY <3>3 DEF n, pc
  <2>8. req'[r].results = << >> /\ req'[r].at = 1
    BY <2>1
  <2> HIDE DEF b
  <2>6. InOrderAt(r)'
    BY <2>2, <2>3, <2>4, <2>5, <2>7, <2>8 DEF InOrderAt
  <2> QED BY <1>1, <2>1, <2>6, OrderElsewhere
<1>3. CASE \E v \in Verdicts : Hears(r, v)
  <2>1. PICK v \in Verdicts : Hears(r, v)
    BY <1>3
  <2>2. req[r].pc \in {"find", "insert"} /\ Moves(r) /\ req'[r] = Verdict(r, v)
    BY <2>1 DEF Hears
  <2> DEFINE p == Verdict(r, v)
  <2>3. /\ OnlyChanges(p, req[r], {"pc", "at", "results", "said"})
        /\ p.results = Append(req[r].results, v) /\ p.pc # "idle"
        /\ \/ p.pc = "find" /\ p.at = req[r].at + 1 /\ p.at <= Len(Body(r).items)
           \/ p.pc \in {"findJob", "done"}
    BY <1>1, <2>2, VerdictIs
  <2> HIDE DEF p
  <2>4. Stays(r)
    BY <2>2, <2>3 DEF Stays, Busy, OnlyChanges, p
  <2>5. Body(r)' = Body(r) /\ (Delivers(r)' <=> Delivers(r))
    BY <1>1, <2>4, BodyStays
  <2>6. /\ Delivers(r) /\ req[r].results \in Seq(Verdicts)
        /\ req[r].at = Len(req[r].results) + 1 /\ req[r].at <= Len(Body(r).items)
    BY <1>1, <2>2 DEF InOrder
  <2>7. Len(Body(r).items) \in Nat
    BY <1>1, <2>6, RequestFacts, BodyFacts DEF Delivers
  <2>8. p.results \in Seq(Verdicts) /\ Len(p.results) = Len(req[r].results) + 1
    BY <2>3, <2>6
  <2>9. InOrderAt(r)'
    BY <2>2, <2>3, <2>5, <2>6, <2>7, <2>8 DEF InOrderAt, p
  <2> QED BY <1>1, <2>2, <2>9, OrderElsewhere
<1>4. CASE Sorts(r)
  <2>1. /\ Moves(r) /\ req[r].pc = "classify" /\ req'[r].pc = "findJob"
        /\ req'[r].body = req[r].body
    BY <1>4 DEF Sorts, OnlyChanges
  <2>2. Stays(r)
    BY <2>1 DEF Stays, Busy
  <2>3. ~Delivers(r)'
    BY <1>1, <2>1, <2>2, BodyStays DEF Placed, Delivers
  <2>4. InOrderAt(r)'
    BY <2>1, <2>3 DEF InOrderAt
  <2> QED BY <1>1, <2>1, <2>4, OrderElsewhere
<1>5. CASE Tables(r)
  <2>1. Quiet(r)
    BY <1>1, <1>5, Quieting DEF Tables
  <2>2. /\ Moves(r) /\ req'[r].results = req[r].results
        /\ Body(r)' = Body(r) /\ (Delivers(r)' <=> Delivers(r))
    BY <1>1, <2>1, QuietKeeps DEF Quiet, Stays
  <2>3. Delivers(r) => req[r].results \in Seq(Verdicts) /\ Len(req[r].results) <= Len(Body(r).items)
    BY <1>1 DEF InOrder
  <2>4. req'[r].pc \in {"find", "insert"} =>
          Delivers(r) /\ req'[r].at = Len(req[r].results) + 1 /\ req'[r].at <= Len(Body(r).items)
    <3>1. CASE Turns(r)
      <4>1. /\ Busy(r) /\ req'[r].at = req[r].at
            /\ req'[r].pc \in {"find", "insert"} =>
                 \/ req[r].pc = "replay" /\ Body(r).via = "batch"
                 \/ req[r].pc = "find"
        BY <3>1 DEF Turns, OnlyChanges, Answers
      <4>2. CASE req[r].pc = "replay" /\ Body(r).via = "batch"
        <5>1. req[r].at = 1 /\ req[r].results = << >>
          BY <1>1, <4>2 DEF Placed
        <5>2. Len(Body(r).items) \in Nat /\ Len(Body(r).items) >= 1
          BY <1>1, <4>1, <4>2, RequestFacts, BodyFacts
        <5>3. Len(<< >>) = 0
          OBVIOUS
        <5> QED BY <4>1, <4>2, <5>1, <5>2, <5>3 DEF Delivers
      <4>3. CASE req[r].pc = "find"
        BY <1>1, <4>1, <4>3 DEF InOrder
      <4> QED BY <4>1, <4>2, <4>3
    <3>2. CASE Sends(r) \/ Fails(r)
      <4>1. req'[r].pc \in {"find", "insert"} =>
              /\ Owner(r) /\ req[r].pc \in {"findJob", "insertJob", "rows", "send"}
              /\ req'[r].at = req[r].at + 1 /\ req'[r].at <= Len(Body(r).items)
        <5>1. CASE Sends(r)
          <6>1. req[r].pc = "send" /\ req'[r] = AfterSend(r)
            BY <5>1 DEF Sends
          <6> DEFINE p == AfterSend(r)
          <6>2. \/ p.pc = "find" /\ Owner(r) /\ p.at = req[r].at + 1 /\ p.at <= Len(Body(r).items)
                \/ p.pc \in {"wait", "done"}
            BY <1>1, <6>1, AfterSendIs
          <6> HIDE DEF p
          <6> QED BY <6>1, <6>2 DEF p
        <5>2. CASE Fails(r)
          BY <5>2 DEF Fails
        <5> QED BY <3>2, <5>1, <5>2
      <4>2. Owner(r) /\ req[r].pc \in {"findJob", "insertJob", "rows", "send"} =>
              Delivers(r) /\ req[r].at = Len(req[r].results)
        BY <1>1, RequestFacts DEF Placed
      <4> QED BY <4>1, <4>2
    <3>3. CASE Makes(r)
      <4>1. req'[r] = JobCreated(r, TRUE) /\ Busy(r)
        BY <3>3 DEF Makes, Busy
      <4> DEFINE p == JobCreated(r, TRUE)
      <4>2. p.pc \in {"rows", "complete"}
        BY <1>1, <4>1, CreatedIs
      <4> HIDE DEF p
      <4> QED BY <4>1, <4>2 DEF p
    <3>4. CASE (\E e \in req[r].todo : Writes(r, e)) \/ Completes(r) \/ Records(r)
      BY <3>4 DEF Writes, Completes, Records, AnswersJob
    <3> QED BY <1>5, <3>1, <3>2, <3>3, <3>4 DEF Tables
  <2>5. InOrderAt(r)'
    BY <2>2, <2>3, <2>4 DEF InOrderAt
  <2> QED BY <1>1, <2>2, <2>5, OrderElsewhere
<1> QED BY <1>2, <1>3, <1>4, <1>5 DEF Acts
\* A delivery that hears its verdict, and what is stored then.
LEMMA HearsIs ==
  ASSUME RequestInv, NEW r \in Requests, NEW v \in Verdicts, Hears(r, v)
  PROVE  LET k == req[r].at IN
         /\ Stays(r) /\ Delivers(r) /\ Delivers(r)' /\ Body(r)' = Body(r)
         /\ req[r].results \in Seq(Verdicts) /\ k = Len(req[r].results) + 1
         /\ k \in 1..Len(Body(r).items) /\ k \in 1..MaxItems
         /\ Event(r) = Named(r, k) /\ Event(r) \in EventIds
         /\ Item(r).hash \in Payloads /\ Item(r) = Body(r).items[k]
         /\ req'[r].results = Append(req[r].results, v)
         /\ req'[r].queued = req[r].queued
         /\ \A n : Named(r, n)' = Named(r, n)
         /\ \A n : Stored(r, n)' <=> Stored(r, n) \/ (n = k /\ v = "accepted")
         /\ ~Stored(r, k)
         /\ v = "accepted" =>
              event[Event(r)] = None /\ event' = [event EXCEPT ![Event(r)] = Item(r).hash]
         /\ v # "accepted" => event' = event
         /\ v \in {"duplicate", "conflict"} => event[Event(r)] # None /\ v = ResolveReplay(r)
<1> DEFINE k == req[r].at
           p == Verdict(r, v)
<1>1. TypeOK /\ InOrder /\ Placed
  BY DEF RequestInv
<1>2. /\ req[r].pc \in {"find", "insert"} /\ Moves(r) /\ req'[r] = p /\ Tells(r, v)
  BY DEF Hears
<1>3. /\ OnlyChanges(p, req[r], {"pc", "at", "results", "said"}) /\ p.pc # "idle"
      /\ p.results = Append(req[r].results, v)
  BY <1>1, <1>2, VerdictIs
<1> HIDE DEF p
<1>4. Stays(r) /\ req'[r].results = Append(req[r].results, v) /\ req'[r].queued = req[r].queued
  BY <1>2, <1>3 DEF Stays, Busy, OnlyChanges
<1>5. Body(r)' = Body(r) /\ (Delivers(r)' <=> Delivers(r)) /\ \A n : Named(r, n)' = Named(r, n)
  BY <1>1, <1>4, BodyStays
<1>6. /\ Delivers(r) /\ req[r].results \in Seq(Verdicts) /\ k = Len(req[r].results) + 1
      /\ k <= Len(Body(r).items)
  BY <1>1, <1>2 DEF InOrder
<1>7. Len(Body(r).items) \in Nat /\ Len(req[r].results) \in Nat
  BY <1>1, <1>6, RequestFacts, BodyFacts DEF Delivers
<1>8. k \in 1..Len(Body(r).items)
  BY <1>6, <1>7
<1>9. k \in 1..MaxItems /\ Named(r, k) \in EventIds /\ Body(r).items[k].hash \in Payloads
  BY <1>1, <1>6, <1>8, NamesAreIds
<1>10. Event(r) = Named(r, k) /\ Item(r) = Body(r).items[k]
  BY DEF Event, Item, Named
<1>11. /\ DOMAIN req'[r].results = DOMAIN req[r].results \union {k}
       /\ req'[r].results[k] = v /\ k \notin DOMAIN req[r].results
       /\ \A n \in DOMAIN req[r].results : req'[r].results[n] = req[r].results[n]
  <2> DEFINE seq == req[r].results
  <2>1. seq \in Seq(Verdicts) /\ k = Len(seq) + 1
    BY <1>6
  <2> HIDE DEF seq, k
  <2>2. /\ DOMAIN Append(seq, v) = DOMAIN seq \union {k} /\ Append(seq, v)[k] = v
        /\ k \notin DOMAIN seq /\ \A n \in DOMAIN seq : Append(seq, v)[n] = seq[n]
    BY <2>1
  <2> QED BY <1>4, <2>2 DEF seq
<1> HIDE DEF k
<1>12. ~Stored(r, k)
  BY <1>11 DEF Stored
<1>13. ASSUME NEW n PROVE Stored(r, n)' <=> Stored(r, n) \/ (n = k /\ v = "accepted")
  <2>1. Stored(r, n)' <=> n \in DOMAIN req'[r].results /\ req'[r].results[n] = "accepted"
    BY <1>5, <1>6 DEF Stored
  <2>2. Stored(r, n) <=> n \in DOMAIN req[r].results /\ req[r].results[n] = "accepted"
    BY <1>6 DEF Stored
  <2> QED BY <1>11, <2>1, <2>2
<1>14. v = "accepted" =>
         event[Event(r)] = None /\ event' = [event EXCEPT ![Event(r)] = Item(r).hash]
  BY <1>2 DEF Tells, ResolveReplay
<1>15. v # "accepted" => event' = event
  BY <1>2 DEF Tells
<1>16. v \in {"duplicate", "conflict"} => event[Event(r)] # None /\ v = ResolveReplay(r)
  BY <1>2 DEF Tells
<1> QED BY <1>4, <1>5, <1>6, <1>8, <1>9, <1>10, <1>12, <1>13, <1>14, <1>15, <1>16 DEF k

LEMMA StoredNames ==
  ASSUME TypeOK, InOrder, NEW r \in Requests, NEW n, Stored(r, n)
  PROVE  /\ n \in 1..MaxItems /\ n \in 1..Len(Body(r).items) /\ n \in 1..Len(req[r].results)
         /\ Named(r, n) \in EventIds /\ Body(r).items[n].hash \in Payloads /\ Delivers(r)
         /\ Named(r, n) \in Accepted(r)
<1>1. /\ Delivers(r) /\ req[r].results \in Seq(Verdicts) /\ n \in DOMAIN req[r].results
      /\ req[r].results[n] = "accepted" /\ Len(req[r].results) <= Len(Body(r).items)
  BY DEF Stored, InOrder
<1>2. Len(Body(r).items) \in Nat
  BY <1>1, RequestFacts, BodyFacts DEF Delivers
<1>3. n \in 1..Len(req[r].results) /\ n \in 1..Len(Body(r).items)
  BY <1>1, <1>2
<1>4. Named(r, n) \in Accepted(r)
  BY <1>1 DEF Named, Accepted
<1> QED BY <1>1, <1>3, <1>4, NamesAreIds

LEMMA StoredKept ==
  ASSUME RequestInv, EventJobsAreTheirs, NEW r \in Requests, Acts(r)
  PROVE  StoredIsThere' /\ StoredOnce'
<1>1. TypeOK /\ InOrder /\ Placed /\ StoredIsThere /\ StoredOnce
  BY DEF RequestInv
<1>2. Moves(r)
  BY <1>1, Quieting DEF Acts, Begins, Hears, Sorts, Quiet, Stays, Tables
<1>3. \A s \in Requests \ {r} :
        /\ req'[s].queued = req[s].queued
        /\ \A n : Named(s, n)' = Named(s, n) /\ (Stored(s, n)' <=> Stored(s, n))
  BY <1>1, <1>2, Elsewhere
<1>4. CASE Begins(r)
  <2>1. event' = event /\ req'[r].results = << >> /\ req'[r].queued = {}
    BY <1>4 DEF Begins
  <2>2. \A n : ~Stored(r, n)'
    BY <2>1 DEF Stored
  <2>3. StoredIsThere'
    BY <1>1, <1>3, <2>1, <2>2 DEF StoredIsThere
  <2>4. StoredOnce'
    BY <1>1, <1>3, <2>2 DEF StoredOnce
  <2> QED BY <2>3, <2>4
<1>5. CASE \E v \in Verdicts : Hears(r, v)
  <2>1. PICK v \in Verdicts : Hears(r, v)
    BY <1>5
  <2> DEFINE k == req[r].at
             e == Event(r)
  <2>2. /\ k \in 1..MaxItems /\ e = Named(r, k) /\ e \in EventIds /\ Item(r).hash \in Payloads
        /\ req'[r].queued = req[r].queued
        /\ \A n : Named(r, n)' = Named(r, n)
        /\ \A n : Stored(r, n)' <=> Stored(r, n) \/ (n = k /\ v = "accepted")
        /\ ~Stored(r, k)
        /\ v = "accepted" => event[e] = None /\ event' = [event EXCEPT ![e] = Item(r).hash]
        /\ v # "accepted" => event' = event
    BY <2>1, HearsIs
  <2> HIDE DEF k, e
  <2>3. \A i \in EventIds : event[i] # None => event'[i] # None
    BY <1>1, <2>2, NoneAssumption DEF TypeOK
  <2>4. v = "accepted" => event'[e] # None
    BY <1>1, <2>2, NoneAssumption DEF TypeOK
  <2>8. \A s \in Requests : \A n \in 1..MaxItems : Stored(s, n) => Named(s, n) \in EventIds
    BY <1>1, StoredNames
  <2>9. \A s \in Requests : req[s].queued \subseteq EventIds
    BY <1>1, RequestFacts
  <2>5. StoredIsThere'
    <3>1. ASSUME NEW s \in Requests, NEW n \in 1..MaxItems, Stored(s, n)'
          PROVE  event'[Named(s, n)'] # None
      <4>1. Named(s, n)' = Named(s, n)
        BY <1>3, <2>2
      <4>2. CASE Stored(s, n)
        BY <1>1, <2>3, <2>8, <4>1, <4>2 DEF StoredIsThere
      <4>3. CASE s = r /\ n = k /\ v = "accepted"
        BY <2>2, <2>4, <4>1, <4>3
      <4> QED BY <1>3, <2>2, <3>1, <4>2, <4>3
    <3>2. \A s \in Requests : \A i \in req'[s].queued : event'[i] # None
      <4>1. \A s \in Requests : req'[s].queued = req[s].queued
        BY <1>3, <2>2
      <4> QED BY <1>1, <2>3, <2>9, <4>1 DEF StoredIsThere
    <3> QED BY <3>1, <3>2 DEF StoredIsThere
  <2>6. v = "accepted" =>
          \A s \in Requests : \A m \in 1..MaxItems : Stored(s, m) => Named(s, m) # Named(r, k)
    BY <1>1, <2>2 DEF StoredIsThere
  <2>7. StoredOnce'
    <3> SUFFICES ASSUME NEW s \in Requests, NEW t \in Requests, NEW n \in 1..MaxItems,
                        NEW m \in 1..MaxItems, Stored(s, n)', Stored(t, m)',
                        Named(s, n)' = Named(t, m)'
                 PROVE  s = t /\ n = m
      BY DEF StoredOnce
    <3>1. Named(s, n)' = Named(s, n) /\ Named(t, m)' = Named(t, m)
      BY <1>3, <2>2
    <3>2. Stored(s, n) \/ (s = r /\ n = k /\ v = "accepted")
      BY <1>3, <2>2
    <3>3. Stored(t, m) \/ (t = r /\ m = k /\ v = "accepted")
      BY <1>3, <2>2
    <3>4. CASE Stored(s, n) /\ Stored(t, m)
      BY <1>1, <3>1, <3>4 DEF StoredOnce
    <3> QED BY <2>6, <3>1, <3>2, <3>3, <3>4
  <2> QED BY <2>5, <2>7
<1>6. CASE Sorts(r)
  <2>1. /\ event' = event /\ req[r].pc = "classify" /\ req'[r].pc = "findJob"
        /\ req'[r].body = req[r].body /\ \A e \in req'[r].queued : event[e] # None
    BY <1>6 DEF Sorts, OnlyChanges
  <2>2. Stays(r) /\ Body(r).via = "compilation"
    BY <1>1, <1>2, <2>1 DEF Stays, Busy, Placed
  <2>3. ~Delivers(r)'
    BY <1>1, <2>2, BodyStays DEF Delivers
  <2>4. \A n : ~Stored(r, n)'
    BY <2>3 DEF Stored
  <2>5. StoredIsThere'
    BY <1>1, <1>3, <2>1, <2>4 DEF StoredIsThere
  <2>6. StoredOnce'
    BY <1>1, <1>3, <2>4 DEF StoredOnce
  <2> QED BY <2>5, <2>6
<1>7. CASE Tables(r)
  BY <1>1, <1>7, Quieting, QuietKeepsStored DEF Tables
<1> QED BY <1>4, <1>5, <1>6, <1>7 DEF Acts
\* Where a request is, and with what.
PlacedAt(r) ==
  /\ req[r].pc \in {"replay", "classify"} =>
       /\ Asker(r) /\ ~req[r].created /\ req[r].at = 1
       /\ req[r].queued = {} /\ req[r].results = << >>
  /\ req[r].pc = "classify" => Body(r).via = "compilation"
  /\ req[r].pc = "snapshot" => Body(r).via = "batch"
  /\ req[r].pc = "wait" => Owner(r)
  /\ req[r].pc = "complete" => Asker(r)
  /\ Asker(r) /\ req[r].pc \in {"find", "insert", "findJob", "insertJob"} => ~req[r].created
  /\ Asker(r) /\ Body(r).via = "batch" /\ req[r].pc \in {"rows", "complete", "snapshot", "send"} =>
       req[r].created
  /\ Owner(r) /\ req[r].pc \in {"findJob", "insertJob", "rows", "send", "wait"} =>
       /\ Body(r).compile
       /\ req[r].at = Len(req[r].results) /\ Stored(r, req[r].at)
  /\ Owner(r) /\ req[r].pc \in {"rows", "send"} => req[r].created
  /\ Owner(r) /\ req[r].pc = "rows" => req[r].todo = {Event(r)}
  /\ req[r].pc = "rows" => req[r].todo \subseteq Covers(r)
  /\ req[r].pc \in {"rows", "complete", "snapshot", "send", "wait"} => Exists(Job(r))

\* No step drops a job.
LEMMA JobsStay ==
  ASSUME RequestInv, EventJobsAreTheirs, NEW r \in Requests, Acts(r)
  PROVE  DOMAIN job \subseteq DOMAIN job'
<1>1. CASE Makes(r)
  BY <1>1, MadeIs
<1>2. ASSUME NEW columns, Changes(Job(r), columns) PROVE DOMAIN job \subseteq DOMAIN job'
  BY <1>2 DEF Changes
<1> QED BY <1>1, <1>2
     DEF Acts, Begins, Hears, Sorts, Tables, Turns, Writes, Completes, Records, Sends, Fails

LEMMA PlacedElsewhere ==
  ASSUME TypeOK, Placed, NEW r \in Requests, Moves(r), PlacedAt(r)', DOMAIN job \subseteq DOMAIN job'
  PROVE  Placed'
<1>1. ASSUME NEW s \in Requests \ {r} PROVE PlacedAt(s)'
  <2>1. PlacedAt(s)
    BY DEF Placed, PlacedAt
  <2>2. /\ req'[s] = req[s] /\ Body(s)' = Body(s) /\ Event(s)' = Event(s)
        /\ Owner(s)' <=> Owner(s)
        /\ Asker(s)' <=> Asker(s)
        /\ \A n : Stored(s, n)' <=> Stored(s, n)
        /\ Busy(s) => Job(s)' = Job(s) /\ Covers(s)' = Covers(s)
    BY <1>1, Elsewhere
  <2>3. req[s].pc \in {"rows", "complete", "snapshot", "send", "wait"} => Busy(s)
    BY DEF Busy
  <2>4. /\ Busy(s) /\ Exists(Job(s)) => Exists(Job(s))'
    BY <2>2 DEF Exists
  <2>5. req[s].pc \in {"rows", "complete", "snapshot", "send", "wait"} => Exists(Job(s))'
    BY <2>1, <2>3, <2>4 DEF PlacedAt
  <2>6. req[s].pc = "rows" => req[s].todo \subseteq Covers(s)'
    BY <2>1, <2>2, <2>3 DEF PlacedAt
  <2> QED BY <2>1, <2>2, <2>5, <2>6 DEF PlacedAt
<1>2. \A s \in Requests : PlacedAt(s)'
  BY <1>1
<1> QED BY <1>2 DEF Placed, PlacedAt

LEMMA PlacedAtFirst ==
  ASSUME RequestInv, EventJobsAreTheirs, NEW r \in Requests,
         Begins(r) \/ (\E v \in Verdicts : Hears(r, v)) \/ Sorts(r)
  PROVE  PlacedAt(r)'
<1>1. TypeOK /\ InOrder /\ Placed
  BY DEF RequestInv
<1>2. CASE Begins(r)
  <2>1. /\ req'[r].results = << >> /\ req'[r].at = 1 /\ req'[r].queued = {} /\ ~req'[r].created
        /\ \/ req'[r].pc = "find" /\ req'[r].body.via \in {"single", "direct", "memory", "webhook"}
           \/ req'[r].pc = "replay" /\ req'[r].body.via \in {"batch", "compilation"}
           \/ req'[r].pc = "done"
    BY <1>2 DEF Begins
  <2>2. req'[r].pc = "replay" => Asker(r)'
    BY <2>1 DEF Asker, Busy, OwnsEvents, Body
  <2>3. req'[r].pc \in {"find", "replay", "done"}
    BY <2>1
  <2> QED BY <2>1, <2>2, <2>3 DEF PlacedAt
<1>3. CASE \E v \in Verdicts : Hears(r, v)
  <2>1. PICK v \in Verdicts : Hears(r, v)
    BY <1>3
  <2> DEFINE k == req[r].at
             p == Verdict(r, v)
  <2>2. /\ Stays(r) /\ Body(r)' = Body(r)
        /\ req[r].results \in Seq(Verdicts) /\ k = Len(req[r].results) + 1
        /\ req'[r].results = Append(req[r].results, v)
        /\ \A n : Stored(r, n)' <=> Stored(r, n) \/ (n = k /\ v = "accepted")
    BY <2>1, HearsIs
  <2>3. (Owner(r)' <=> Owner(r)) /\ (Asker(r)' <=> Asker(r))
    BY <1>1, <2>2, BodyStays
  <2>4. /\ OnlyChanges(p, req[r], {"pc", "at", "results", "said"}) /\ req'[r] = p
        /\ \/ p.pc \in {"find", "done"}
           \/ /\ p.pc = "findJob" /\ p.at = k
              /\ Owner(r) => v = "accepted" /\ Body(r).compile
    <3>1. req[r].pc \in {"find", "insert"} /\ req'[r] = p
      BY <2>1 DEF Hears
    <3> QED BY <1>1, <3>1, VerdictIs
  <2> HIDE DEF p
  <2>5. req'[r].created = req[r].created
    BY <2>4 DEF OnlyChanges
  <2>6. Asker(r) => ~req[r].created
    BY <1>1, <2>1 DEF Hears, Placed
  <2>7. Len(Append(req[r].results, v)) = k
    BY <2>2
  <2>8. req'[r].pc \in {"find", "done", "findJob"}
    BY <2>4
  <2>9. Owner(r) /\ req'[r].pc = "findJob" =>
          /\ Body(r).compile
          /\ req'[r].at = Len(req'[r].results) /\ req'[r].at = k /\ v = "accepted"
    BY <2>2, <2>4, <2>7
  <2>10. Owner(r) /\ req'[r].pc = "findJob" => Stored(r, req[r].at)'
    BY <2>2, <2>9
  <2> HIDE DEF k
  <2>11. Owner(r)' /\ req'[r].pc \in {"findJob", "insertJob", "rows", "send", "wait"} =>
           /\ Body(r)'.compile
           /\ req'[r].at = Len(req'[r].results) /\ Stored(r, req[r].at)'
    BY <2>2, <2>3, <2>8, <2>9, <2>10
  <2> QED BY <2>3, <2>5, <2>6, <2>8, <2>11 DEF PlacedAt
<1>4. CASE Sorts(r)
  <2>1. /\ Moves(r) /\ req[r].pc = "classify" /\ req'[r].pc = "findJob"
        /\ req'[r].body = req[r].body /\ req'[r].created = req[r].created
    BY <1>4 DEF Sorts, OnlyChanges
  <2>2. Stays(r) /\ Asker(r) /\ ~req[r].created
    BY <1>1, <2>1 DEF Stays, Busy, Placed
  <2>3. Asker(r)' /\ ~Owner(r)'
    BY <1>1, <2>2, BodyStays, RequestFacts DEF Asker, Owner
  <2> QED BY <2>1, <2>2, <2>3 DEF PlacedAt
<1> QED BY <1>2, <1>3, <1>4
LEMMA PlacedAtTables ==
  ASSUME RequestInv, EventJobsAreTheirs, NEW r \in Requests, Tables(r)
  PROVE  PlacedAt(r)'
<1>1. TypeOK /\ InOrder /\ Placed /\ Quiet(r) /\ Stays(r) /\ Busy(r)
  BY Quieting DEF RequestInv, Tables, Quiet, Stays
<1>2. /\ Body(r)' = Body(r) /\ req'[r].results = req[r].results /\ req'[r].queued = req[r].queued
      /\ Owner(r)' <=> Owner(r)
      /\ Asker(r)' <=> Asker(r)
      /\ \A n : Stored(r, n)' <=> Stored(r, n)
      /\ Asker(r) => Job(r)' = Job(r) /\ Covers(r)' = Covers(r)
  BY <1>1, QuietKeeps
<1>3. req'[r].at = req[r].at => Event(r)' = Event(r) /\ Job(r)' = Job(r)
  BY <1>1, BodyStays
<1>4. Owner(r) <=> ~Asker(r)
  BY <1>1, RequestFacts
<1>5. req'[r].at = req[r].at => Covers(r)' = Covers(r)
  <2>1. Owner(r) => Covers(r) = {Event(r)}
    BY CoversIs
  <2>2. Owner(r)' => Covers(r)' = {Event(r)'}
    BY CoversIsNext
  <2> QED BY <1>2, <1>3, <1>4, <2>1, <2>2
<1>6. PlacedAt(r)
  BY <1>1 DEF Placed, PlacedAt
<1>7. DOMAIN job \subseteq DOMAIN job'
  BY JobsStay DEF Acts
<1>8. Exists(Job(r)) /\ Job(r)' = Job(r) => Exists(Job(r))'
  BY <1>7 DEF Exists
<1>9. CASE Turns(r)
  <2>1. /\ req'[r].at = req[r].at /\ req'[r].created = req[r].created
    BY <1>9 DEF Turns, OnlyChanges
  <2>2. \/ req[r].pc = "replay" /\ Body(r).via = "batch" /\ req'[r].pc = "find"
        \/ req[r].pc = "replay" /\ Body(r).via = "compilation" /\ req'[r].pc = "classify"
        \/ req[r].pc = "find" /\ req'[r].pc = "insert"
        \/ req[r].pc = "findJob" /\ req'[r].pc = "insertJob"
        \/ /\ req[r].pc = "findJob" /\ Body(r).via = "compilation" /\ req'[r].pc = "rows"
           /\ Exists(Job(r)) /\ req'[r].todo = Covers(r)
        \/ req'[r].pc \in {"done", "crashed"}
    BY <1>9 DEF Turns, Answers
  <2>3. CASE req'[r].pc \in {"done", "crashed"}
    BY <2>3 DEF PlacedAt
  <2>4. CASE req[r].pc = "replay" /\ Body(r).via = "batch" /\ req'[r].pc = "find"
    BY <1>2, <1>4, <1>6, <2>1, <2>4 DEF PlacedAt
  <2>5. CASE req[r].pc = "replay" /\ Body(r).via = "compilation" /\ req'[r].pc = "classify"
    BY <1>2, <1>4, <1>6, <2>1, <2>5 DEF PlacedAt
  <2>6. CASE \/ req[r].pc = "find" /\ req'[r].pc = "insert"
             \/ req[r].pc = "findJob" /\ req'[r].pc = "insertJob"
    <3>1. Asker(r)' => ~req'[r].created
      BY <1>2, <1>6, <2>1, <2>6 DEF PlacedAt
    <3>2. Owner(r)' /\ req'[r].pc \in {"findJob", "insertJob", "rows", "send", "wait"} =>
            /\ Body(r)'.compile
            /\ req'[r].at = Len(req'[r].results) /\ Stored(r, req[r].at)'
      BY <1>2, <1>6, <2>1, <2>6 DEF PlacedAt
    <3> QED BY <2>6, <3>1, <3>2 DEF PlacedAt
  <2>7. CASE /\ req[r].pc = "findJob" /\ Body(r).via = "compilation" /\ req'[r].pc = "rows"
             /\ Exists(Job(r)) /\ req'[r].todo = Covers(r)
    <3>1. Asker(r) /\ ~Owner(r)
      BY <1>1, <1>4, <2>7 DEF Asker, OwnsEvents
    <3> QED BY <1>2, <1>8, <2>7, <3>1 DEF PlacedAt
  <2> QED BY <2>2, <2>3, <2>4, <2>5, <2>6, <2>7
<1>10. CASE Makes(r)
  <2>1. req[r].pc = "insertJob" /\ req'[r] = JobCreated(r, TRUE)
    BY <1>10 DEF Makes
  <2> DEFINE p == JobCreated(r, TRUE)
  <2>2. /\ OnlyChanges(p, req[r], {"pc", "created", "todo"}) /\ p.todo = Covers(r) /\ p.created
        /\ \/ p.pc = "rows"
           \/ p.pc = "complete" /\ Asker(r)
    BY <1>1, CreatedIs
  <2> HIDE DEF p
  <2>3. req'[r].at = req[r].at /\ req'[r].created /\ req'[r].todo = Covers(r)
    BY <2>1, <2>2 DEF OnlyChanges, p
  <2>4. Exists(Job(r))'
    BY <1>3, <1>10, <2>3, MadeIs DEF Exists
  <2>5. Owner(r) => /\ Body(r).compile /\ req[r].at = Len(req[r].results) /\ Stored(r, req[r].at)
                    /\ Covers(r) = {Event(r)}
    BY <1>6, <2>1, CoversIs DEF PlacedAt
  <2>6. req'[r].pc = "rows" \/ (req'[r].pc = "complete" /\ Asker(r))
    BY <2>1, <2>2 DEF p
  <2>7. Owner(r)' /\ req'[r].pc \in {"findJob", "insertJob", "rows", "send", "wait"} =>
          /\ Body(r)'.compile
          /\ req'[r].at = Len(req'[r].results) /\ Stored(r, req[r].at)'
    BY <1>2, <2>3, <2>5
  <2>8. /\ Owner(r)' => req'[r].todo = {Event(r)'}
        /\ req'[r].todo \subseteq Covers(r)'
    BY <1>2, <1>3, <1>5, <2>3, <2>5
  <2> QED BY <1>2, <2>3, <2>4, <2>6, <2>7, <2>8 DEF PlacedAt
<1>11. CASE \E e \in req[r].todo : Writes(r, e)
  <2>1. PICK e \in req[r].todo : Writes(r, e)
    BY <1>11
  <2>2. /\ req[r].pc = "rows" /\ req'[r].at = req[r].at /\ req'[r].created = req[r].created
        /\ \/ req'[r].todo = req[r].todo \ {e} /\ req'[r].pc = "rows" /\ req[r].todo # {e}
           \/ req'[r].pc = "snapshot" /\ Body(r).via = "batch"
           \/ req'[r].pc = "send"
    BY <2>1 DEF Writes, OnlyChanges
  <2>3. Exists(Job(r))'
    BY <1>3, <1>6, <1>8, <2>2 DEF PlacedAt
  <2>4. /\ Asker(r) /\ Body(r).via = "batch" => req[r].created
        /\ Owner(r) => /\ Body(r).compile /\ req[r].at = Len(req[r].results)
                       /\ Stored(r, req[r].at) /\ req[r].created /\ req[r].todo = {Event(r)}
        /\ req[r].todo \subseteq Covers(r)
    BY <1>6, <2>2 DEF PlacedAt
  <2>5. req'[r].pc \in {"rows", "snapshot", "send"} /\ (req'[r].pc = "snapshot" => Body(r).via = "batch")
    BY <2>2
  <2>6. req'[r].pc = "rows" => ~Owner(r) /\ req'[r].todo \subseteq Covers(r)'
    BY <1>5, <2>1, <2>2, <2>4
  <2>7. Owner(r)' /\ req'[r].pc \in {"findJob", "insertJob", "rows", "send", "wait"} =>
          /\ Body(r)'.compile
          /\ req'[r].at = Len(req'[r].results) /\ Stored(r, req[r].at)'
    BY <1>2, <2>2, <2>4
  <2>8. /\ Asker(r)' /\ Body(r)'.via = "batch" => req'[r].created
        /\ Owner(r)' => req'[r].created
    BY <1>2, <2>2, <2>4
  <2> QED BY <1>2, <2>3, <2>5, <2>6, <2>7, <2>8 DEF PlacedAt
<1>12. CASE Completes(r) \/ Records(r)
  <2>1. /\ req'[r].at = req[r].at /\ req'[r].created = req[r].created
        /\ \/ req[r].pc = "complete" /\ req'[r].pc = "snapshot" /\ Body(r).via = "batch"
           \/ req[r].pc = "snapshot" /\ req'[r].pc = "send"
           \/ req'[r].pc = "done"
    BY <1>12 DEF Completes, Records, AnswersJob, OnlyChanges
  <2>2. CASE req'[r].pc = "done"
    BY <2>2 DEF PlacedAt
  <2>3. CASE req'[r].pc # "done"
    <3>1. req[r].pc \in {"complete", "snapshot"} /\ req'[r].pc \in {"snapshot", "send"}
      BY <2>1, <2>3
    <3>2. Body(r).via = "batch"
      BY <1>6, <2>1, <2>3 DEF PlacedAt
    <3>3. Asker(r) /\ ~Owner(r) /\ req[r].created /\ Exists(Job(r))
      BY <1>1, <1>4, <1>6, <3>1, <3>2 DEF PlacedAt, Asker, OwnsEvents
    <3> QED BY <1>2, <1>3, <1>8, <2>1, <3>1, <3>2, <3>3 DEF PlacedAt
  <2> QED BY <2>2, <2>3
<1>13. CASE Sends(r) \/ Fails(r)
  <2>1. \/ req'[r].pc \in {"find", "done"} /\ (req'[r].pc = "find" => Owner(r))
        \/ /\ req'[r].pc = "wait" /\ Owner(r) /\ req'[r].at = req[r].at
           /\ req[r].pc = "send"
    <3>1. CASE Sends(r)
      <4>1. req[r].pc = "send" /\ req'[r] = AfterSend(r)
        BY <3>1 DEF Sends
      <4> DEFINE p == AfterSend(r)
      <4>2. \/ p.pc = "find" /\ Owner(r)
            \/ p.pc = "wait" /\ Owner(r) /\ p.at = req[r].at
            \/ p.pc = "done"
        BY <1>1, <4>1, AfterSendIs
      <4> HIDE DEF p
      <4> QED BY <4>1, <4>2 DEF p
    <3>2. CASE Fails(r)
      BY <3>2 DEF Fails
    <3> QED BY <1>13, <3>1, <3>2
  <2>2. CASE req'[r].pc = "done"
    BY <2>2 DEF PlacedAt
  <2>3. CASE req'[r].pc = "find" /\ Owner(r)
    BY <1>2, <1>4, <2>3 DEF PlacedAt
  <2>4. CASE req'[r].pc = "wait" /\ Owner(r) /\ req'[r].at = req[r].at /\ req[r].pc = "send"
    <3>1. /\ Body(r).compile /\ req[r].at = Len(req[r].results) /\ Stored(r, req[r].at)
          /\ Exists(Job(r))
      BY <1>6, <2>1, <2>4 DEF PlacedAt
    <3>2. /\ Body(r)'.compile
          /\ req'[r].at = Len(req'[r].results) /\ Stored(r, req[r].at)'
      BY <1>2, <2>4, <3>1
    <3> QED BY <1>2, <1>3, <1>4, <1>8, <2>4, <3>1, <3>2 DEF PlacedAt
  <2> QED BY <2>1, <2>2, <2>3, <2>4
<1> QED BY <1>9, <1>10, <1>11, <1>12, <1>13 DEF Tables

LEMMA RequestsKept ==
  ASSUME RequestInv, EventJobsAreTheirs, NEW r \in Requests, Acts(r)
  PROVE  RequestInv' /\ Moves(r)
<1>1. TypeOK /\ InOrder /\ Placed
  BY DEF RequestInv
<1>2. Moves(r)
  BY <1>1, Quieting DEF Acts, Begins, Hears, Sorts, Quiet, Stays, Tables
<1>3. PlacedAt(r)'
  BY PlacedAtFirst, PlacedAtTables DEF Acts
<1>4. Placed'
  BY <1>1, <1>2, <1>3, JobsStay, PlacedElsewhere
<1> QED BY <1>2, <1>4, TypesKept, OrderKept, StoredKept DEF RequestInv

-----------------------------------------------------------------------------
(* What a step never undoes                                                *)

\* What a request has accepted is what it has stored.
LEMMA AcceptedIs ==
  ASSUME TypeOK, InOrder, NEW r \in Requests, Delivers(r), NEW e
  PROVE  e \in Accepted(r) <=> \E n \in 1..MaxItems : Stored(r, n) /\ Named(r, n) = e
<1>1. ASSUME NEW n, Stored(r, n), Named(r, n) = e PROVE e \in Accepted(r)
  BY <1>1, StoredNames
<1>2. ASSUME e \in Accepted(r)
      PROVE  \E n \in 1..MaxItems : Stored(r, n) /\ Named(r, n) = e
  <2>1. PICK n \in DOMAIN req[r].results :
          req[r].results[n] = "accepted" /\ e = <<Body(r).channel, Delivery(r), Body(r).items[n].item>>
    BY <1>2 DEF Accepted
  <2>2. Stored(r, n) /\ Named(r, n) = e
    BY <2>1 DEF Stored, Named
  <2> QED BY <2>2, StoredNames
<1> QED BY <1>1, <1>2

LEMMA Lasts ==
  ASSUME RequestInv, EventJobsAreTheirs, NEW r \in Requests, Acts(r), NEW s \in Requests, Busy(s)
  PROVE  /\ Busy(s)' /\ Body(s)' = Body(s)
         /\ Delivers(s)' <=> Delivers(s)
         /\ Owner(s)' <=> Owner(s)
         /\ Asker(s)' <=> Asker(s)
         /\ \A n : Named(s, n)' = Named(s, n) /\ (Stored(s, n) => Stored(s, n)')
         /\ req[s].queued \subseteq req'[s].queued
         /\ Asker(s) => Job(s)' = Job(s)
<1>1. TypeOK /\ InOrder /\ Placed /\ Moves(r)
  BY RequestsKept DEF RequestInv
<1>2. CASE s # r
  <2>1. s \in Requests \ {r}
    BY <1>2
  <2> QED BY <1>1, <2>1, Elsewhere
<1>3. CASE s = r /\ Tables(r)
  <2>1. Quiet(r)
    BY <1>1, <1>3, Quieting DEF Tables
  <2> QED BY <1>1, <1>3, <2>1, QuietKeeps
<1>4. CASE s = r /\ \E v \in Verdicts : Hears(r, v)
  <2>1. PICK v \in Verdicts : Hears(r, v)
    BY <1>4
  <2>2. /\ Stays(r) /\ req'[r].queued = req[r].queued
        /\ \A n : Stored(r, n)' <=> Stored(r, n) \/ (n = req[r].at /\ v = "accepted")
    BY <2>1, HearsIs
  <2> QED BY <1>1, <1>4, <2>2, BodyStays DEF Stays
<1>5. CASE s = r /\ Sorts(r)
  <2>1. /\ req[r].pc = "classify" /\ req'[r].pc = "findJob" /\ req'[r].body = req[r].body
    BY <1>5 DEF Sorts, OnlyChanges
  <2>2. Stays(r) /\ req[r].queued = {} /\ ~Delivers(r)
    BY <1>1, <2>1 DEF Stays, Busy, Placed, Delivers
  <2>3. \A n : ~Stored(r, n)
    BY <2>2 DEF Stored
  <2> QED BY <1>1, <1>5, <2>2, <2>3, BodyStays DEF Stays
<1>6. CASE s = r /\ Begins(r)
  BY <1>6 DEF Begins
<1> QED BY <1>2, <1>3, <1>4, <1>5, <1>6 DEF Acts

LEMMA AskedLasts ==
  ASSUME RequestInv, EventJobsAreTheirs, NEW r \in Requests, Acts(r), NEW s \in Requests, NEW e,
         Asked(s, e)
  PROVE  Asked(s, e)'
<1>1. Busy(s) /\ TypeOK /\ InOrder /\ TypeOK' /\ InOrder'
  BY RequestsKept DEF Asked, RequestInv
<1>2. /\ Busy(s)' /\ Body(s)' = Body(s)
      /\ Delivers(s)' <=> Delivers(s)
      /\ \A n : Named(s, n)' = Named(s, n) /\ (Stored(s, n) => Stored(s, n)')
      /\ req[s].queued \subseteq req'[s].queued
  BY <1>1, Lasts
<1>3. CASE Body(s).via = "compilation"
  BY <1>2, <1>3 DEF Asked
<1>4. CASE Body(s).via # "compilation"
  <2>1. Delivers(s) /\ Delivers(s)' /\ Body(s).compile /\ e \in Accepted(s)
    BY <1>1, <1>2, <1>4 DEF Delivers, Asked
  <2>2. PICK n \in 1..MaxItems : Stored(s, n) /\ Named(s, n) = e
    BY <1>1, <2>1, AcceptedIs
  <2>3. Stored(s, n)' /\ Named(s, n)' = e
    BY <1>2, <2>2
  <2>4. (e \in Accepted(s))'
    BY <2>3 DEF Stored, Named, Accepted
  <2> QED BY <1>2, <1>4, <2>1, <2>4 DEF Asked
<1> QED BY <1>3, <1>4
\* A job keeps its rows, its message and its end.
Grows(j) ==
  /\ j \in DOMAIN job'
  /\ DOMAIN job[j].row \subseteq DOMAIN job'[j].row
  /\ job[j].announced => job'[j].announced
  /\ Over(j) => job'[j].status \in {"completed", "failed"}

LEMMA JobsGrow ==
  ASSUME RequestInv, EventJobsAreTheirs,
         (\E r \in Requests : Acts(r)) \/ (\E j \in DOMAIN job : Works(j)),
         NEW i \in DOMAIN job
  PROVE  /\ Grows(i) /\ (Over(i) => Over(i)')
         /\ \A e : HasRow(i, e) => HasRow(i, e)'
<1>1. Grows(i)
  <2>1. ASSUME job'[i] = job[i], i \in DOMAIN job' PROVE Grows(i)
    BY <2>1 DEF Grows, Over
  <2>2. ASSUME NEW j, NEW columns, Changes(j, columns), i # j \/ Grows(j) PROVE Grows(i)
    <3>1. CASE i # j
      <4>1. job'[i] = job[i] /\ i \in DOMAIN job'
        BY <2>2, <3>1 DEF Changes
      <4> QED BY <2>1, <4>1
    <3> QED BY <2>2, <3>1
  <2>3. ASSUME NEW j \in DOMAIN job, Works(j) PROVE Grows(i)
    <3>1. /\ Changes(j, {"status", "row", "snapshot"}) /\ DOMAIN job'[j].row = DOMAIN job[j].row
          /\ job'[j].status \in {"completed", "failed"}
      BY <2>3 DEF Works, Over
    <3>2. Grows(j)
      BY <3>1 DEF Changes, OnlySets, Grows
    <3> QED BY <2>2, <3>1, <3>2
  <2>4. ASSUME NEW r \in Requests, Acts(r) PROVE Grows(i)
    <3>1. CASE job' = job
      BY <2>1, <3>1
    <3>2. CASE Makes(r)
      <4>1. DOMAIN job' = DOMAIN job \union {Job(r)} /\ job'[i] = job[i]
        BY <3>2, MadeIs
      <4> QED BY <2>1, <4>1
    <3>3. ASSUME NEW e \in req[r].todo, Writes(r, e) PROVE Grows(i)
      <4>1. Changes(Job(r), {"row"}) /\ DOMAIN job'[Job(r)].row = DOMAIN job[Job(r)].row \union {e}
        BY <3>3 DEF Writes
      <4>2. Grows(Job(r))
        BY <4>1 DEF Changes, OnlySets, Grows, Over
      <4> QED BY <2>2, <4>1, <4>2
    <3>4. CASE Completes(r)
      <4>1. Changes(Job(r), {"status"}) /\ job'[Job(r)].status = "completed"
        BY <3>4 DEF Completes
      <4>2. Grows(Job(r))
        BY <4>1 DEF Changes, OnlySets, Grows, Over
      <4> QED BY <2>2, <4>1, <4>2
    <3>5. CASE Records(r)
      <4>1. Changes(Job(r), {"snapshot"})
        BY <3>5 DEF Records
      <4>2. Grows(Job(r))
        BY <4>1 DEF Changes, OnlySets, Grows, Over
      <4> QED BY <2>2, <4>1, <4>2
    <3>6. CASE Sends(r)
      <4>1. Changes(Job(r), {"announced"}) /\ job'[Job(r)].announced
        BY <3>6 DEF Sends
      <4>2. Grows(Job(r))
        BY <4>1 DEF Changes, OnlySets, Grows, Over
      <4> QED BY <2>2, <4>1, <4>2
    <3> QED BY <2>4, <3>1, <3>2, <3>3, <3>4, <3>5, <3>6
         DEF Acts, Tables, Begins, Hears, Sorts, Turns, Fails
  <2> QED BY <2>3, <2>4
<1>2. \A e : HasRow(i, e) => HasRow(i, e)'
  BY <1>1 DEF Grows, HasRow, Exists
<1> QED BY <1>1, <1>2 DEF Grows, Over

\* What is stored with a job already, or never to be, stays so.
LEMMA MadeLasts ==
  ASSUME RequestInv, EventJobsAreTheirs, NEW r \in Requests, Acts(r), NEW s \in Requests, NEW n,
         Owner(s), Stored(s, n), ~MakesJob(s, n)
  PROVE  ~MakesJob(s, n)'
<1>1. TypeOK /\ InOrder /\ Placed /\ Moves(r) /\ Busy(s)
  BY RequestsKept DEF RequestInv, Owner
<1>2. CASE s # r
  <2>1. req'[s] = req[s]
    BY <1>1, <1>2 DEF Moves
  <2> QED BY <2>1 DEF MakesJob
<1>3. CASE s = r
  <2>1. ASSUME NEW v \in Verdicts, Hears(r, v) PROVE ~MakesJob(r, n)'
    <3>1. ~Stored(r, req[r].at) /\ req[r].pc \in {"find", "insert"} /\ req'[r] = Verdict(r, v)
      BY <2>1, HearsIs DEF Hears
    <3> DEFINE p == Verdict(r, v)
    <3>2. p.pc \in {"find", "done"} \/ p.at = req[r].at
      BY <1>1, <3>1, VerdictIs
    <3>3. p.pc \in {"findJob", "insertJob"} => p.at = req[r].at
      BY <3>2
    <3> HIDE DEF p
    <3>4. req'[r].pc \in {"findJob", "insertJob"} => req'[r].at = req[r].at
      BY <3>1, <3>3 DEF p
    <3> QED BY <1>3, <3>1, <3>4 DEF MakesJob
  <2>2. CASE Sorts(r)
    BY <1>1, <1>3, <2>2 DEF Sorts, Placed, Asker, Owner
  <2>3. CASE Tables(r)
    <3>1. req'[r].pc \in {"findJob", "insertJob"} =>
            req[r].pc = "findJob" /\ req'[r].at = req[r].at
      <4>1. CASE Turns(r)
        BY <4>1 DEF Turns, OnlyChanges, Answers
      <4>2. CASE Makes(r)
        <5>1. req'[r] = JobCreated(r, TRUE)
          BY <4>2 DEF Makes
        <5> DEFINE p == JobCreated(r, TRUE)
        <5>2. p.pc \in {"rows", "complete"}
          BY <1>1, <1>3, CreatedIs
        <5> HIDE DEF p
        <5> QED BY <5>1, <5>2 DEF p
      <4>3. CASE Sends(r)
        <5>1. req[r].pc = "send" /\ req'[r] = AfterSend(r)
          BY <4>3 DEF Sends
        <5> DEFINE p == AfterSend(r)
        <5>2. p.pc \in {"find", "wait", "done"}
          BY <1>1, <5>1, AfterSendIs
        <5> HIDE DEF p
        <5> QED BY <5>1, <5>2 DEF p
      <4>4. CASE (\E e \in req[r].todo : Writes(r, e)) \/ Completes(r) \/ Records(r) \/ Fails(r)
        BY <4>4 DEF Writes, Completes, Records, Fails, AnswersJob
      <4> QED BY <2>3, <4>1, <4>2, <4>3, <4>4 DEF Tables
    <3> QED BY <1>3, <3>1 DEF MakesJob
  <2>4. CASE Begins(r)
    BY <1>1, <1>3, <2>4 DEF Begins
  <2> QED BY <1>3, <2>1, <2>2, <2>3, <2>4 DEF Acts
<1> QED BY <1>2, <1>3

LEMMA EventJobsKept ==
  ASSUME RequestInv, EventJobsAreTheirs, NEW r \in Requests, Acts(r)
  PROVE  EventJobsAreTheirs'
<1> DEFINE Made(s, n, e) == Owner(s) /\ Stored(s, n) /\ Named(s, n) = e /\ ~MakesJob(s, n)
<1>1. TypeOK /\ InOrder /\ Placed /\ StoredOnce
  BY DEF RequestInv
<1>2. ASSUME NEW e \in EventIds, Exists(<<"ingest_event", e>>)
      PROVE  \E s \in Requests : \E n \in 1..MaxItems : Made(s, n, e)'
  <2>1. PICK s \in Requests : \E n \in 1..MaxItems : Made(s, n, e)
    BY <1>2 DEF EventJobsAreTheirs
  <2>2. PICK n \in 1..MaxItems : Made(s, n, e)
    BY <2>1
  <2>3. Busy(s)
    BY <2>2 DEF Owner
  <2>4. Owner(s)' /\ Stored(s, n)' /\ Named(s, n)' = e
    BY <2>2, <2>3, Lasts
  <2>5. ~MakesJob(s, n)'
    BY <2>2, MadeLasts
  <2> QED BY <2>4, <2>5
<1>3. CASE ~Makes(r)
  <2>1. DOMAIN job' = DOMAIN job
    BY <1>3 DEF Acts, Tables, Begins, Hears, Sorts, Turns, Writes, Completes, Records, Sends, Fails, Changes
  <2> QED BY <1>2, <2>1 DEF EventJobsAreTheirs, Exists
<1>4. CASE Makes(r)
  <2>1. DOMAIN job' = DOMAIN job \union {Job(r)} /\ Busy(r) /\ req[r].pc = "insertJob"
    BY <1>4, MadeIs DEF Makes
  <2>2. ASSUME NEW e \in EventIds, Job(r) = <<"ingest_event", e>>
        PROVE  \E s \in Requests : \E n \in 1..MaxItems : Made(s, n, e)'
    <3>1. Owner(r)
      <4>1. CASE Asker(r)
        <5>1. Body(r).via \in {"batch", "compilation"} /\ ~OwnsEvents(r)
          BY <1>1, <4>1, RequestFacts DEF Asker
        <5>2. Job(r)[1] \in {"ingest_batch", "compilation"}
          BY <5>1 DEF Job
        <5> QED BY <2>2, <5>2
      <4> QED BY <1>1, <2>1, <4>1, RequestFacts
    <3>2. Job(r) = <<"ingest_event", Event(r)>>
      BY <1>1, <2>1, <3>1, OwnersComeFirst
    <3>3. e = Event(r)
      BY <2>2, <3>2
    <3>4. Stored(r, req[r].at)
      BY <1>1, <2>1, <3>1 DEF Placed
    <3>5. PICK n : n = req[r].at
      OBVIOUS
    <3>6. n \in 1..MaxItems /\ Named(r, n) = e
      BY <1>1, <3>3, <3>4, <3>5, StoredNames DEF Named, Event, Item
    <3>7. Owner(r)' /\ Stored(r, n)' /\ Named(r, n)' = e
      BY <2>1, <3>1, <3>4, <3>5, <3>6, Lasts
    <3>8. req'[r].pc \in {"rows", "complete"}
      <4>1. req'[r] = JobCreated(r, TRUE)
        BY <1>4 DEF Makes
      <4> DEFINE p == JobCreated(r, TRUE)
      <4>2. p.pc \in {"rows", "complete"}
        BY <1>1, <2>1, CreatedIs
      <4> HIDE DEF p
      <4> QED BY <4>1, <4>2 DEF p
    <3>9. ~MakesJob(r, n)'
      BY <3>8 DEF MakesJob
    <3> QED BY <3>6, <3>7, <3>9
  <2> QED BY <1>2, <2>1, <2>2 DEF EventJobsAreTheirs, Exists
<1> QED BY <1>3, <1>4

-----------------------------------------------------------------------------
(* The worker                                                              *)

LEMMA WorksIs ==
  ASSUME NEW j, Works(j)
  PROVE  /\ req' = req /\ event' = event /\ faults' = faults /\ DOMAIN job' = DOMAIN job
         /\ j \in DOMAIN job
         /\ \A s : /\ Body(s)' = Body(s) /\ (Busy(s)' <=> Busy(s))
                   /\ Owner(s)' = Owner(s) /\ Asker(s)' = Asker(s)
                   /\ Event(s)' = Event(s) /\ Job(s)' = Job(s) /\ Covers(s)' = Covers(s)
                   /\ Response(s)' = Response(s)
                   /\ Duplicate(s)' = Duplicate(s)
                   /\ (Exists(Job(s))' <=> Exists(Job(s)))
         /\ \A s : \A n : Named(s, n)' = Named(s, n) /\ Stored(s, n)' = Stored(s, n)
         /\ \A s : \A e : Asked(s, e)' <=> Asked(s, e)
<1>1. req' = req /\ event' = event /\ faults' = faults /\ DOMAIN job' = DOMAIN job /\ j \in DOMAIN job
  BY DEF Works, Changes
<1>2. \A s : /\ Body(s)' = Body(s) /\ (Busy(s)' <=> Busy(s)) /\ Delivery(s)' = Delivery(s)
             /\ Item(s)' = Item(s)
  BY <1>1 DEF Body, Busy, Delivery, Item
<1>3. \A s : OwnsEvents(s)' = OwnsEvents(s) /\ Event(s)' = Event(s) /\ Accepted(s)' = Accepted(s)
  BY <1>1, <1>2 DEF OwnsEvents, Event, Accepted
<1>4. \A s : Job(s)' = Job(s) /\ Owner(s)' = Owner(s) /\ Asker(s)' = Asker(s)
  BY <1>2, <1>3 DEF Job, Owner, Asker
<1>5. \A s : Covers(s)' = Covers(s) /\ Response(s)' = Response(s)
  BY <1>1, <1>2, <1>3, <1>4 DEF Covers, Response
<1>6. \A s : Duplicate(s)' = Duplicate(s)
  BY <1>1 DEF Duplicate
<1>7. \A s : Exists(Job(s))' <=> Exists(Job(s))
  BY <1>1, <1>4 DEF Exists
<1>8. \A s : \A n : Named(s, n)' = Named(s, n) /\ Stored(s, n)' = Stored(s, n)
  BY <1>1, <1>2 DEF Named, Stored, Delivers
<1>9. \A s : \A e : Asked(s, e)' <=> Asked(s, e)
  BY <1>1, <1>2, <1>3 DEF Asked
<1> QED BY <1>1, <1>2, <1>3, <1>4, <1>5, <1>6, <1>7, <1>8, <1>9

LEMMA WorksKeeps ==
  ASSUME RequestInv, EventJobsAreTheirs, NEW j \in DOMAIN job, Works(j)
  PROVE  RequestInv' /\ EventJobsAreTheirs'
<1>1. TypeOK /\ InOrder /\ Placed /\ StoredIsThere /\ StoredOnce
  BY DEF RequestInv
<1>2. /\ req' = req /\ event' = event /\ faults' = faults /\ DOMAIN job' = DOMAIN job
      /\ \A s : /\ Body(s)' = Body(s) /\ (Busy(s)' <=> Busy(s))
                /\ Owner(s)' = Owner(s) /\ Asker(s)' = Asker(s)
                /\ Event(s)' = Event(s) /\ Covers(s)' = Covers(s)
                /\ (Exists(Job(s))' <=> Exists(Job(s)))
      /\ \A s : \A n : Named(s, n)' = Named(s, n) /\ Stored(s, n)' = Stored(s, n)
  BY WorksIs
<1>3. TypeOK'
  <2>1. JobsOK'
    BY <1>1, ChangesTypes DEF Works
  <2> QED BY <1>1, <1>2, <2>1 DEF TypeOK, JobsOK
<1>4. InOrder'
  BY <1>1, <1>2 DEF InOrder, Delivers
<1>5. \A r \in Requests : Stored(r, req[r].at)' <=> Stored(r, req[r].at)
  <2> TAKE r \in Requests
  <2>1. PICK n : n = req[r].at
    OBVIOUS
  <2>2. Stored(r, n)' <=> Stored(r, n)
    BY <1>2
  <2> QED BY <1>2, <2>1, <2>2 DEF Stored, Delivers
<1>6. Placed'
  BY <1>1, <1>2, <1>5 DEF Placed
<1>7. StoredIsThere'
  BY <1>1, <1>2 DEF StoredIsThere
<1>8. StoredOnce'
  BY <1>1, <1>2 DEF StoredOnce
<1>9. EventJobsAreTheirs'
  BY <1>2 DEF EventJobsAreTheirs, Exists, MakesJob
<1> QED BY <1>3, <1>4, <1>6, <1>7, <1>8, <1>9 DEF RequestInv

-----------------------------------------------------------------------------
(* Rows                                                                    *)

LEMMA RowsKept ==
  ASSUME RequestInv, EventJobsAreTheirs, RowsWereAsked,
         (\E r \in Requests : Acts(r)) \/ (\E j \in DOMAIN job : Works(j))
  PROVE  RowsWereAsked'
<1>1. TypeOK /\ InOrder /\ Placed
  BY DEF RequestInv
<1>2. ASSUME NEW j \in DOMAIN job, NEW e \in DOMAIN job[j].row
      PROVE  \E s \in Requests : Asked(s, e)'
  <2>1. PICK s \in Requests : Asked(s, e)
    BY <1>2 DEF RowsWereAsked
  <2> QED BY <2>1, AskedLasts, WorksIs
<1>3. CASE \E j \in DOMAIN job : Works(j)
  <2>1. PICK j \in DOMAIN job : Works(j)
    BY <1>3
  <2>2. DOMAIN job' = DOMAIN job /\ \A i \in DOMAIN job : DOMAIN job'[i].row = DOMAIN job[i].row
    BY <2>1 DEF Works, Changes
  <2> QED BY <1>2, <2>2 DEF RowsWereAsked
<1>4. ASSUME NEW r \in Requests, Acts(r) PROVE RowsWereAsked'
  <2>1. CASE ~Makes(r) /\ ~\E e \in req[r].todo : Writes(r, e)
    <3>1. DOMAIN job' = DOMAIN job /\ \A i \in DOMAIN job : DOMAIN job'[i].row = DOMAIN job[i].row
      BY <1>4, <2>1 DEF Acts, Tables, Begins, Hears, Sorts, Turns, Completes, Records, Sends, Fails,
                        Changes, OnlySets
    <3> QED BY <1>2, <3>1 DEF RowsWereAsked
  <2>2. CASE Makes(r)
    <3>1. /\ DOMAIN job' = DOMAIN job \union {Job(r)} /\ \A i \in DOMAIN job : job'[i] = job[i]
          /\ job'[Job(r)].row = << >>
      BY <2>2, MadeIs
    <3>2. DOMAIN job'[Job(r)].row = {}
      BY <3>1
    <3> QED BY <1>2, <3>1, <3>2 DEF RowsWereAsked
  <2>3. ASSUME NEW e \in req[r].todo, Writes(r, e) PROVE RowsWereAsked'
    <3>1. /\ DOMAIN job' = DOMAIN job
          /\ \A i \in DOMAIN job : DOMAIN job'[i].row \subseteq DOMAIN job[i].row \union {e}
      BY <2>3 DEF Writes, Changes, OnlySets
    <3>2. Asked(r, e)'
      <4>1. req[r].pc = "rows" /\ Busy(r) /\ e \in Covers(r)
        BY <1>1, <2>3 DEF Writes, Busy, Placed
      <4>2. Asked(r, e)
        <5>1. CASE Owner(r)
          <6>1. PICK n : n = req[r].at
            OBVIOUS
          <6>2. Stored(r, n) /\ Body(r).compile /\ e = Event(r) /\ Delivers(r)
            BY <1>1, <2>3, <4>1, <5>1, <6>1 DEF Placed, Stored
          <6>3. Event(r) = Named(r, n)
            BY <6>1 DEF Event, Item, Named
          <6>4. n \in 1..MaxItems
            BY <1>1, <6>2, StoredNames
          <6>5. e \in Accepted(r)
            BY <1>1, <6>2, <6>3, <6>4, AcceptedIs
          <6> QED BY <6>2, <6>5 DEF Asked, Delivers
        <5>2. CASE Asker(r)
          <6>1. Body(r).via \in {"batch", "compilation"} /\ Busy(r) /\ Body(r).compile \in BOOLEAN
            BY <1>1, <5>2, RequestFacts, BodyFacts DEF Asker
          <6>2. CASE Body(r).via = "batch"
            BY <4>1, <5>2, <6>1, <6>2, CoversIs DEF Asked
          <6>3. CASE Body(r).via = "compilation"
            BY <4>1, <5>2, <6>1, <6>3, CoversIs DEF Asked
          <6> QED BY <6>1, <6>2, <6>3
        <5> QED BY <4>1, <5>1, <5>2 DEF Owner, Asker
      <4> QED BY <1>4, <4>2, AskedLasts
    <3> QED BY <1>2, <3>1, <3>2 DEF RowsWereAsked
  <2> QED BY <2>1, <2>2, <2>3
<1> QED BY <1>3, <1>4

-----------------------------------------------------------------------------
(* Creators                                                                *)

\* A statement of a request that has made its job.
LEMMA TablesCreate ==
  ASSUME RequestInv, EventJobsAreTheirs, NEW r \in Requests, Tables(r)
  PROVE  IF Makes(r) THEN req'[r].created ELSE req'[r].created = req[r].created
<1>1. TypeOK /\ InOrder /\ Placed
  BY DEF RequestInv
<1>2. CASE Makes(r)
  <2>1. Busy(r) /\ req'[r] = JobCreated(r, TRUE)
    BY <1>2, MadeIs DEF Makes
  <2> DEFINE p == JobCreated(r, TRUE)
  <2>2. p.created
    BY <1>1, <2>1, CreatedIs
  <2> HIDE DEF p
  <2> QED BY <1>2, <2>1, <2>2 DEF p
<1>3. CASE Sends(r)
  <2>1. req'[r] = AfterSend(r) /\ req[r].pc = "send" /\ ~Makes(r)
    BY <1>3 DEF Sends, Makes
  <2> DEFINE p == AfterSend(r)
  <2>2. OnlyChanges(p, req[r], {"pc", "at", "todo", "said"})
    BY <1>1, <2>1, AfterSendIs
  <2> HIDE DEF p
  <2> QED BY <2>1, <2>2 DEF p, OnlyChanges
<1>4. CASE ~Makes(r) /\ ~Sends(r)
  BY <1>4 DEF Tables, Turns, Writes, Completes, Records, Fails, AnswersJob, OnlyChanges
<1> QED BY <1>2, <1>3, <1>4

LEMMA CreatorsStay ==
  ASSUME RequestInv, EventJobsAreTheirs, NEW r \in Requests, Acts(r),
         NEW s \in Requests, Asker(s)', req'[s].created
  PROVE  /\ Asker(s) /\ Busy(s) /\ Job(s)' = Job(s) /\ Covers(s)' = Covers(s) /\ Body(s)' = Body(s)
         /\ Response(s)' = Response(s) /\ req'[s].results = req[s].results
         /\ req[s].created \/ (s = r /\ Makes(r))
         /\ s = r => Tables(r) /\ Quiet(r)
<1>1. TypeOK /\ InOrder /\ Placed /\ Moves(r)
  BY RequestsKept DEF RequestInv
<1>2. CASE s # r
  <2>1. s \in Requests \ {r}
    BY <1>2
  <2>2. /\ req'[s] = req[s] /\ Asker(s) /\ Busy(s) /\ Body(s)' = Body(s)
        /\ Job(s)' = Job(s) /\ Covers(s)' = Covers(s)
    BY <1>1, <2>1, Elsewhere DEF Asker
  <2> QED BY <1>2, <2>2 DEF Response
<1>3. CASE s = r /\ Tables(r)
  <2>1. Quiet(r)
    BY <1>1, <1>3, Quieting DEF Tables
  <2>2. /\ Asker(s) /\ Job(s)' = Job(s) /\ Covers(s)' = Covers(s) /\ Body(s)' = Body(s)
        /\ req'[s].results = req[s].results
    BY <1>1, <2>1, QuietKeeps
  <2>3. Response(s)' = Response(s)
    BY <2>2 DEF Response
  <2> QED BY <1>3, <2>1, <2>2, <2>3, TablesCreate DEF Asker
<1>4. CASE s = r /\ ~Tables(r)
  <2>1. CASE Begins(r)
    BY <1>4, <2>1 DEF Begins
  <2>2. ASSUME NEW v \in Verdicts, Hears(r, v) PROVE FALSE
    <3>1. Stays(r) /\ req[r].pc \in {"find", "insert"} /\ req'[r] = Verdict(r, v)
      BY <2>2, HearsIs DEF Hears
    <3> DEFINE p == Verdict(r, v)
    <3>2. p.created = req[r].created
      BY <1>1, <3>1, VerdictIs DEF OnlyChanges
    <3> HIDE DEF p
    <3>3. Asker(r)
      BY <1>1, <1>4, <3>1, BodyStays
    <3>4. req[r].created
      BY <1>4, <3>1, <3>2 DEF p
    <3> QED BY <1>1, <3>1, <3>3, <3>4 DEF Placed
  <2>3. CASE Sorts(r)
    BY <1>1, <1>4, <2>3 DEF Sorts, OnlyChanges, Placed
  <2> QED BY <1>4, <2>1, <2>2, <2>3 DEF Acts
<1> QED BY <1>2, <1>3, <1>4

LEMMA OneCreatorKept ==
  ASSUME RequestInv, EventJobsAreTheirs, OneCreator, CreatorsSettle, NEW r \in Requests, Acts(r)
  PROVE  OneCreator'
<1> SUFFICES ASSUME NEW s \in Requests, NEW t \in Requests, Asker(s)', Asker(t)',
                    req'[s].created, req'[t].created, Job(s)' = Job(t)'
             PROVE  s = t
  BY DEF OneCreator
<1>1. /\ Asker(s) /\ Asker(t) /\ Job(s) = Job(t)
      /\ req[s].created \/ (s = r /\ Makes(r))
      /\ req[t].created \/ (t = r /\ Makes(r))
  BY CreatorsStay
<1>2. CASE req[s].created /\ req[t].created
  BY <1>1, <1>2 DEF OneCreator
<1>3. CASE Makes(r) /\ s = r /\ req[t].created
  BY <1>1, <1>3 DEF Makes, CreatorsSettle, MadeItsJob
<1>4. CASE Makes(r) /\ t = r /\ req[s].created
  BY <1>1, <1>4 DEF Makes, CreatorsSettle, MadeItsJob
<1> QED BY <1>1, <1>2, <1>3, <1>4

\* A job that has grown holds what its creator has done, whatever its creator does not do.
LEMMA MadeByOther ==
  ASSUME RequestInv, EventJobsAreTheirs,
         (\E r \in Requests : Acts(r)) \/ (\E j \in DOMAIN job : Works(j)),
         NEW s \in Requests, MadeItsJob(s), req'[s] = req[s],
         Job(s)' = Job(s), Covers(s)' = Covers(s), Body(s)' = Body(s)
  PROVE  MadeItsJob(s)'
<1>1. PICK j : j = Job(s)
  OBVIOUS
<1>2. j \in DOMAIN job
  BY <1>1 DEF MadeItsJob, Exists
<1>3. /\ Grows(j) /\ (Over(j) => Over(j)')
      /\ \A e : HasRow(j, e) => HasRow(j, e)'
  BY <1>2, JobsGrow
<1>4. Exists(j)' /\ (OnItsWay(j) => OnItsWay(j)')
  BY <1>3 DEF Grows, Exists, OnItsWay
<1>5. Job(s)' = j
  BY <1>1
<1>6. Failed(s, Job(s))' <=> Failed(s, Job(s))
  BY <1>5, <1>1 DEF Failed
<1> QED BY <1>1, <1>3, <1>4, <1>5, <1>6 DEF MadeItsJob

\* What a creator's own statements do.
LEMMA MadeByItself ==
  ASSUME RequestInv, EventJobsAreTheirs, CreatorsSettle, NEW r \in Requests, Tables(r),
         Asker(r)', req'[r].created
  PROVE  MadeItsJob(r)'
<1> PICK j : j = Job(r)
  OBVIOUS
<1> PICK rows : rows = Covers(r)
  OBVIOUS
<1>1. /\ TypeOK /\ InOrder /\ Placed /\ Acts(r) /\ Asker(r) /\ Busy(r)
      /\ Job(r)' = j /\ Covers(r)' = rows /\ Body(r)' = Body(r)
      /\ req[r].created \/ Makes(r)
      /\ Body(r).via \in {"batch", "compilation"} /\ Body(r).compile \in BOOLEAN
  <2>1. Acts(r) /\ TypeOK /\ InOrder /\ Placed
    BY DEF Acts, RequestInv
  <2>2. Asker(r) /\ Busy(r) /\ Job(r)' = Job(r) /\ Covers(r)' = Covers(r) /\ Body(r)' = Body(r)
        /\ (req[r].created \/ Makes(r))
    BY <2>1, CreatorsStay
  <2> QED BY <2>1, <2>2, RequestFacts, BodyFacts
<1>2. /\ Asker(r) /\ Body(r).via = "batch" /\ ~Body(r).compile => rows = {}
      /\ Asker(r) /\ Body(r).via = "compilation" => rows = req[r].queued
  BY CoversIs
<1>3. ASSUME j \in DOMAIN job
      PROVE  /\ j \in DOMAIN job' /\ Exists(j)'
             /\ (Over(j) => Over(j)') /\ (job[j].announced => job'[j].announced)
             /\ \A e : HasRow(j, e) => HasRow(j, e)'
  BY <1>1, <1>3, JobsGrow DEF Grows, Exists
<1>4. CASE Makes(r)
  <2>1. req'[r] = JobCreated(r, TRUE) /\ Exists(j)'
    BY <1>1, <1>4, MadeIs DEF Makes, Exists
  <2> DEFINE p == JobCreated(r, TRUE)
  <2>2. /\ p.todo = rows
        /\ \/ p.pc = "rows"
           \/ /\ p.pc = "complete" /\ rows = {}
              /\ Body(r).via = "batch" => ~Body(r).compile
    BY <1>1, <1>2, CreatedIs
  <2> HIDE DEF p
  <2>3. /\ req'[r].todo = rows
        /\ \/ req'[r].pc = "rows"
           \/ /\ req'[r].pc = "complete" /\ rows = {}
              /\ Body(r).via = "batch" => ~Body(r).compile
    BY <2>1, <2>2 DEF p
  <2> QED BY <1>1, <2>1, <2>3 DEF MadeItsJob
<1>5. CASE ~Makes(r)
  <2>0. MadeItsJob(r)
    BY <1>1, <1>5 DEF CreatorsSettle
  <2>1. j \in DOMAIN job /\ Exists(j)'
    BY <1>3, <2>0 DEF MadeItsJob, Exists
  <2>2. CASE Turns(r)
    <3>1. req'[r].pc = "crashed"
      BY <1>1, <1>5, <2>0, <2>2 DEF Turns, MadeItsJob, Placed, Owner, Asker
    <3> QED BY <1>1, <2>1, <3>1 DEF MadeItsJob
  <2>3. ASSUME NEW e \in req[r].todo, Writes(r, e) PROVE MadeItsJob(r)'
    <3>1. HasRow(j, e)'
      BY <2>1, <2>3 DEF Writes, HasRow, Exists
    <3>2. req[r].pc = "rows" /\ \A f \in rows \ req[r].todo : HasRow(j, f)'
      BY <1>3, <2>0, <2>1, <2>3 DEF MadeItsJob, Writes
    <3>3. CASE req'[r].pc = "rows" /\ req'[r].todo = req[r].todo \ {e}
      BY <1>1, <2>1, <3>1, <3>2, <3>3 DEF MadeItsJob
    <3>4. CASE /\ req[r].todo = {e}
               /\ req'[r].pc = IF Body(r).via = "batch" THEN "snapshot" ELSE "send"
      <4>1. \A f \in rows : HasRow(j, f)'
        BY <3>1, <3>2, <3>4
      <4>2. e \in rows
        BY <1>1, <2>3, <3>2 DEF Placed
      <4>3. Body(r).via = "batch" => Body(r).compile
        BY <1>1, <1>2, <4>2
      <4> QED BY <1>1, <2>1, <3>4, <4>1, <4>3 DEF MadeItsJob
    <3> QED BY <2>3, <3>3, <3>4 DEF Writes
  <2>4. CASE Completes(r)
    <3>1. Over(j)' /\ rows = {} /\ (Body(r).via = "batch" => ~Body(r).compile)
      BY <2>0, <2>4 DEF Completes, Over, MadeItsJob
    <3>2. (req'[r].pc = "snapshot" /\ Body(r).via = "batch") \/ req'[r].pc = "done"
      BY <2>4 DEF Completes, AnswersJob
    <3> QED BY <1>1, <2>1, <3>1, <3>2 DEF MadeItsJob, OnItsWay
  <2>5. CASE Records(r)
    <3>1. /\ \A e \in rows : HasRow(j, e)'
          /\ ~Body(r).compile => Over(j)'
      BY <1>3, <2>0, <2>1, <2>5 DEF Records, MadeItsJob
    <3>2. \/ req'[r].pc = "send" /\ Body(r).compile
          \/ req'[r].pc = "done" /\ ~Body(r).compile
      BY <2>5 DEF Records, AnswersJob
    <3> QED BY <1>1, <2>1, <3>1, <3>2 DEF MadeItsJob
  <2>6. CASE Sends(r)
    <3>1. job'[j].announced /\ \A e \in rows : HasRow(j, e)'
      BY <1>3, <2>0, <2>1, <2>6 DEF Sends, MadeItsJob
    <3>2. req'[r].pc = "done"
      <4>1. req'[r] = AfterSend(r) /\ req[r].pc = "send" /\ ~Owner(r)
        BY <1>1, <2>6, RequestFacts DEF Sends
      <4> DEFINE p == AfterSend(r)
      <4>2. p.pc = "done"
        BY <1>1, <4>1, AfterSendIs
      <4> HIDE DEF p
      <4> QED BY <4>1, <4>2 DEF p
    <3> QED BY <1>1, <2>1, <3>1, <3>2 DEF MadeItsJob, OnItsWay
  <2>7. CASE Fails(r)
    <3>1. req'[r].pc = "done" /\ Job(r) \in req'[r].lost
      BY <1>1, <2>7, RequestFacts DEF Fails
    <3> QED BY <1>1, <2>1, <3>1 DEF MadeItsJob, Failed
  <2> QED BY <1>5, <2>2, <2>3, <2>4, <2>5, <2>6, <2>7 DEF Tables
<1> QED BY <1>4, <1>5

LEMMA CreatorsKept ==
  ASSUME RequestInv, EventJobsAreTheirs, CreatorsSettle,
         (\E r \in Requests : Acts(r)) \/ (\E j \in DOMAIN job : Works(j))
  PROVE  CreatorsSettle'
<1>1. ASSUME NEW r \in Requests, Acts(r), NEW s \in Requests, Asker(s)', req'[s].created
      PROVE  MadeItsJob(s)'
  <2>1. /\ Asker(s) /\ Job(s)' = Job(s) /\ Covers(s)' = Covers(s) /\ Body(s)' = Body(s)
        /\ req[s].created \/ (s = r /\ Makes(r))
        /\ s = r => Tables(r)
    BY <1>1, CreatorsStay
  <2>2. CASE s = r
    BY <1>1, <2>1, <2>2, MadeByItself
  <2>3. CASE s # r
    <3>1. req'[s] = req[s]
      BY <1>1, <2>3, RequestsKept DEF Moves
    <3> QED BY <1>1, <2>1, <2>3, <3>1, MadeByOther DEF CreatorsSettle
  <2> QED BY <2>2, <2>3
<1>2. ASSUME NEW j \in DOMAIN job, Works(j), NEW s \in Requests, Asker(s)', req'[s].created
      PROVE  MadeItsJob(s)'
  <2>1. /\ Asker(s) /\ Job(s)' = Job(s) /\ Covers(s)' = Covers(s) /\ Body(s)' = Body(s)
        /\ req' = req
    BY <1>2, WorksIs
  <2> QED BY <1>2, <2>1, MadeByOther DEF CreatorsSettle
<1> QED BY <1>1, <1>2 DEF CreatorsSettle

-----------------------------------------------------------------------------
(* Owners                                                                  *)

LEMMA LandedLasts ==
  ASSUME RequestInv, EventJobsAreTheirs,
         (\E r \in Requests : Acts(r)) \/ (\E j \in DOMAIN job : Works(j)),
         NEW e, Landed(e)
  PROVE  Landed(e)'
<1>1. PICK j : j = <<"ingest_event", e>>
  OBVIOUS
<1>2. j \in DOMAIN job /\ OnItsWay(j) /\ HasRow(j, e)
  BY <1>1 DEF Landed, HasRow, Exists
<1>3. Grows(j) /\ (Over(j) => Over(j)') /\ (HasRow(j, e) => HasRow(j, e)')
  BY <1>2, JobsGrow
<1>4. OnItsWay(j)' /\ HasRow(j, e)'
  BY <1>2, <1>3 DEF Grows, OnItsWay
<1> QED BY <1>1, <1>4 DEF Landed

\* A request that has failed a job has failed it for good.
LEMMA FailedLasts ==
  ASSUME RequestInv, EventJobsAreTheirs, NEW r \in Requests, Tables(r), NEW j, Failed(r, j)
  PROVE  Failed(r, j)'
<1>1. TypeOK /\ InOrder /\ Placed
  BY DEF RequestInv
<1>2. CASE Makes(r)
  <2>1. Busy(r) /\ req'[r] = JobCreated(r, TRUE) /\ j \in req[r].lost
    BY <1>2, MadeIs DEF Makes, Failed
  <2> DEFINE p == JobCreated(r, TRUE)
  <2>2. p.lost = req[r].lost
    BY <1>1, <2>1, CreatedIs DEF OnlyChanges
  <2> HIDE DEF p
  <2> QED BY <2>1, <2>2 DEF p, Failed
<1>3. CASE Sends(r)
  <2>1. req'[r] = AfterSend(r) /\ req[r].pc = "send" /\ j \in req[r].lost
    BY <1>3 DEF Sends, Failed
  <2> DEFINE p == AfterSend(r)
  <2>2. p.lost = req[r].lost
    BY <1>1, <2>1, AfterSendIs DEF OnlyChanges
  <2> HIDE DEF p
  <2> QED BY <2>1, <2>2 DEF p, Failed
<1>4. CASE Turns(r)
  BY <1>4 DEF Turns, Failed, OnlyChanges
<1>5. CASE ~Makes(r) /\ ~Sends(r) /\ ~Turns(r)
  BY <1>5 DEF Tables, Writes, Completes, Records, Fails, AnswersJob, OnlyChanges, Failed
<1> QED BY <1>2, <1>3, <1>4, <1>5

\* The message of an owner follows its row.
LEMMA RowBeforeMessage ==
  ASSUME RequestInv, EventJobsAreTheirs, OwnersSettle, NEW r \in Requests, Acts(r),
         Owner(r)', req'[r].pc = "send"
  PROVE  HasRow(Job(r), Event(r))'
<1>1. TypeOK /\ InOrder /\ Placed
  BY DEF RequestInv
<1>2. ASSUME NEW e \in req[r].todo, Writes(r, e) PROVE HasRow(Job(r), Event(r))'
  <2>1. Quiet(r) /\ Stays(r) /\ req'[r].at = req[r].at
    <3>1. Quiet(r)
      BY <1>1, <1>2, Quieting
    <3> QED BY <1>2, <3>1 DEF Writes, OnlyChanges, Quiet
  <2>2. Owner(r) /\ Job(r)' = Job(r) /\ Event(r)' = Event(r)
    BY <1>1, <2>1, BodyStays
  <2>3. e = Event(r)
    BY <1>1, <1>2, <2>2 DEF Writes, Placed
  <2>4. PICK j : j = Job(r)
    OBVIOUS
  <2>5. HasRow(j, e)'
    BY <1>2, <2>4 DEF Writes, Changes, HasRow, Exists
  <2> QED BY <2>2, <2>3, <2>4, <2>5
<1>3. ASSUME \A e \in req[r].todo : ~Writes(r, e) PROVE FALSE
  <2>1. CASE Begins(r)
    BY <2>1 DEF Begins
  <2>2. ASSUME NEW v \in Verdicts, Hears(r, v) PROVE FALSE
    <3>1. req'[r] = Verdict(r, v) /\ req[r].pc \in {"find", "insert"}
      BY <2>2 DEF Hears
    <3> DEFINE p == Verdict(r, v)
    <3>2. p.pc # "send"
      BY <1>1, <3>1, VerdictIs
    <3> HIDE DEF p
    <3> QED BY <3>1, <3>2 DEF p
  <2>3. CASE Sorts(r)
    BY <2>3 DEF Sorts
  <2>4. CASE Makes(r)
    <3>1. req'[r] = JobCreated(r, TRUE) /\ Busy(r)
      BY <2>4, MadeIs DEF Makes
    <3> DEFINE p == JobCreated(r, TRUE)
    <3>2. p.pc # "send"
      BY <1>1, <3>1, CreatedIs
    <3> HIDE DEF p
    <3> QED BY <3>1, <3>2 DEF p
  <2>5. CASE Sends(r)
    <3>1. req'[r] = AfterSend(r) /\ req[r].pc = "send"
      BY <2>5 DEF Sends
    <3> DEFINE p == AfterSend(r)
    <3>2. p.pc # "send"
      BY <1>1, <3>1, AfterSendIs
    <3> HIDE DEF p
    <3> QED BY <3>1, <3>2 DEF p
  <2>6. CASE Records(r)
    <3>1. Quiet(r) /\ req[r].pc = "snapshot"
      BY <1>1, <2>6, Quieting DEF Records
    <3>2. Owner(r) /\ Body(r).via = "batch"
      BY <1>1, <3>1, QuietKeeps DEF Placed
    <3> QED BY <3>2 DEF Owner, OwnsEvents
  <2>7. CASE Turns(r) \/ Completes(r) \/ Fails(r)
    BY <2>7 DEF Turns, Answers, Completes, Fails, AnswersJob
  <2> QED BY <1>3, <2>1, <2>2, <2>3, <2>4, <2>5, <2>6, <2>7 DEF Acts, Tables
<1> QED BY <1>2, <1>3

\* What an owner stores lands, or it is at it.
LEMMA OwnerSettles ==
  ASSUME RequestInv, EventJobsAreTheirs, OwnersSettle, NEW r \in Requests, Acts(r),
         NEW n \in 1..MaxItems, Owner(r)', Body(r)'.compile, Stored(r, n)', ~Failed(r, JobOf(r, n))'
  PROVE  AtIt(r, n)' \/ Landed(Named(r, n))'
<1>1. TypeOK /\ InOrder /\ Placed
  BY DEF RequestInv
<1> PICK e : e = Named(r, n)
  OBVIOUS
<1>2. ASSUME Named(r, n)' = e, Landed(e) PROVE Landed(Named(r, n))'
  <2>1. Landed(e)'
    BY <1>2, LandedLasts
  <2> QED BY <1>2, <2>1 DEF Landed
<1>3. CASE Begins(r)
  BY <1>3 DEF Begins, Stored
<1>4. ASSUME NEW v \in Verdicts, Hears(r, v) PROVE AtIt(r, n)' \/ Landed(Named(r, n))'
  <2>1. /\ Stays(r) /\ req[r].pc \in {"find", "insert"} /\ req'[r] = Verdict(r, v)
        /\ Named(r, n)' = e /\ (Stored(r, n) \/ (n = req[r].at /\ v = "accepted"))
    BY <1>4, HearsIs DEF Hears
  <2>2. Owner(r) /\ Body(r)' = Body(r) /\ Body(r).compile
    BY <1>1, <2>1, BodyStays
  <2> DEFINE p == Verdict(r, v)
  <2>3. /\ p.lost = req[r].lost
        /\ \/ p.pc = "find" /\ (Owner(r) => v # "accepted")
           \/ p.pc = "findJob" /\ p.at = req[r].at
           \/ p.pc = "done" /\ (v = "accepted" => ~Body(r).compile)
    BY <1>1, <2>1, VerdictIs DEF OnlyChanges
  <2> HIDE DEF p
  <2>4. CASE Stored(r, n)
    <3>1. ~Failed(r, JobOf(r, n))
      BY <2>1, <2>3 DEF Failed, JobOf, p
    <3>2. Landed(e)
      BY <2>1, <2>2, <2>4, <3>1 DEF OwnersSettle, AtIt
    <3> QED BY <1>2, <2>1, <3>2
  <2>5. CASE n = req[r].at /\ v = "accepted"
    BY <2>1, <2>2, <2>3, <2>5 DEF AtIt, p
  <2> QED BY <2>1, <2>4, <2>5
<1>5. CASE Sorts(r)
  <2>1. req'[r].body = req[r].body /\ Body(r).via = "compilation"
    BY <1>1, <1>5 DEF Sorts, OnlyChanges, Placed
  <2> QED BY <2>1 DEF Owner, OwnsEvents, Body
<1>6. CASE Tables(r)
  <2>1. Quiet(r)
    BY <1>1, <1>6, Quieting DEF Tables
  <2>2. Owner(r) /\ Body(r).compile /\ Stored(r, n) /\ Named(r, n)' = e
    BY <1>1, <2>1, QuietKeeps
  <2>3. ~Failed(r, JobOf(r, n))
    <3>1. PICK j : j = JobOf(r, n)
      OBVIOUS
    <3>2. ~Failed(r, j)'
      BY <2>2, <3>1 DEF JobOf, Failed
    <3> QED BY <1>6, <3>1, <3>2, FailedLasts
  <2>4. CASE Landed(e)
    BY <1>2, <2>2, <2>4
  <2>5. CASE AtIt(r, n)
    <3>1. ~Asker(r) /\ Busy(r) /\ n = req[r].at /\ Delivers(r)
      BY <1>1, <2>2, <2>5, RequestFacts DEF Owner, AtIt
    <3>2. CASE Turns(r)
      <4>1. req'[r].at = req[r].at /\ req'[r].pc = "insertJob"
        BY <2>2, <2>5, <3>1, <3>2 DEF Turns, OnlyChanges, AtIt, Failed, Owner, OwnsEvents
      <4> QED BY <3>1, <4>1 DEF AtIt
    <3>3. CASE Makes(r)
      <4>1. req'[r] = JobCreated(r, TRUE)
        BY <3>3 DEF Makes
      <4> DEFINE p == JobCreated(r, TRUE)
      <4>2. p.pc = "rows" /\ p.at = req[r].at
        BY <1>1, <3>1, CreatedIs DEF OnlyChanges
      <4> HIDE DEF p
      <4> QED BY <3>1, <4>1, <4>2 DEF AtIt, p
    <3>4. ASSUME NEW f \in req[r].todo, Writes(r, f) PROVE AtIt(r, n)'
      BY <2>2, <3>1, <3>4 DEF Writes, OnlyChanges, AtIt, Owner, OwnsEvents
    <3>5. CASE Completes(r) \/ Records(r)
      BY <2>5, <3>5 DEF Completes, Records, AtIt
    <3>6. CASE Sends(r)
      <4>1. Event(r) = e /\ req[r].pc = "send"
        BY <3>1, <2>2, <3>6 DEF Event, Item, Named, Sends
      <4>2. PICK j : j = Job(r)
        OBVIOUS
      <4>3. j = <<"ingest_event", e>>
        <5>1. Job(r) = <<"ingest_event", Event(r)>>
          BY <2>2 DEF Owner, OwnsEvents, Job
        <5> QED BY <4>1, <4>2, <5>1
      <4>4. HasRow(j, e) /\ job'[j].announced
        BY <2>2, <3>6, <4>1, <4>2 DEF OwnersSettle, Sends
      <4>5. HasRow(j, e)'
        BY <4>4, <4>2, <1>6, JobsGrow DEF Acts, HasRow, Exists
      <4>6. Landed(e)'
        BY <4>3, <4>4, <4>5 DEF Landed, OnItsWay
      <4> QED BY <2>2, <4>6 DEF Landed
    <3>7. CASE Fails(r)
      <4>1. Job(r) = JobOf(r, n)
        BY <2>2, <3>1 DEF Owner, OwnsEvents, Job, JobOf, Event, Item, Named
      <4>2. JobOf(r, n)' = JobOf(r, n)
        BY <2>2 DEF JobOf
      <4> QED BY <3>7, <4>1, <4>2 DEF Fails, Failed
    <3> QED BY <1>6, <3>2, <3>3, <3>4, <3>5, <3>6, <3>7 DEF Tables
  <2> QED BY <2>2, <2>3, <2>4, <2>5 DEF OwnersSettle
<1> QED BY <1>3, <1>4, <1>5, <1>6 DEF Acts

LEMMA OwnersKept ==
  ASSUME RequestInv, EventJobsAreTheirs, OwnersSettle,
         (\E r \in Requests : Acts(r)) \/ (\E j \in DOMAIN job : Works(j))
  PROVE  OwnersSettle'
<1>1. ASSUME NEW s \in Requests, req'[s] = req[s], Owner(s) => Job(s)' = Job(s),
             Owner(s)' <=> Owner(s), Event(s)' = Event(s), Body(s)' = Body(s),
             \A n : Named(s, n)' = Named(s, n) /\ (Stored(s, n)' <=> Stored(s, n))
      PROVE  /\ Owner(s)' /\ req'[s].pc = "send" => HasRow(Job(s), Event(s))'
             /\ \A n \in 1..MaxItems :
                  Owner(s)' /\ Body(s)'.compile /\ Stored(s, n)' /\ ~Failed(s, JobOf(s, n))' =>
                    AtIt(s, n)' \/ Landed(Named(s, n))'
  <2>1. ASSUME Owner(s)', req'[s].pc = "send" PROVE HasRow(Job(s), Event(s))'
    <3>1. PICK j : j = Job(s)
      OBVIOUS
    <3>2. PICK e : e = Event(s)
      OBVIOUS
    <3>3. HasRow(j, e) /\ j \in DOMAIN job
      BY <1>1, <2>1, <3>1, <3>2 DEF OwnersSettle, HasRow, Exists
    <3>4. HasRow(j, e)'
      BY <3>3, JobsGrow
    <3> QED BY <1>1, <2>1, <3>1, <3>2, <3>4
  <2>2. ASSUME NEW n \in 1..MaxItems, Owner(s)', Body(s)'.compile, Stored(s, n)', ~Failed(s, JobOf(s, n))'
        PROVE  AtIt(s, n)' \/ Landed(Named(s, n))'
    <3>1. PICK e : e = Named(s, n)
      OBVIOUS
    <3>2. AtIt(s, n) \/ Landed(e)
      BY <1>1, <2>2, <3>1 DEF OwnersSettle, Failed, JobOf
    <3>3. AtIt(s, n) => AtIt(s, n)'
      BY <1>1 DEF AtIt
    <3>4. Landed(e) => Landed(e)'
      BY LandedLasts
    <3>5. Named(s, n)' = e
      BY <1>1, <3>1
    <3> QED BY <3>2, <3>3, <3>4, <3>5 DEF Landed
  <2> QED BY <2>1, <2>2
<1>2. ASSUME NEW j \in DOMAIN job, Works(j) PROVE OwnersSettle'
  <2>1. \A s : /\ req'[s] = req[s] /\ Job(s)' = Job(s) /\ (Owner(s)' <=> Owner(s))
               /\ Event(s)' = Event(s) /\ Body(s)' = Body(s)
               /\ \A n : Named(s, n)' = Named(s, n) /\ (Stored(s, n)' <=> Stored(s, n))
    BY <1>2, WorksIs
  <2> QED BY <1>1, <2>1 DEF OwnersSettle
<1>3. ASSUME NEW r \in Requests, Acts(r), NEW s \in Requests
      PROVE  /\ Owner(s)' /\ req'[s].pc = "send" => HasRow(Job(s), Event(s))'
             /\ \A n \in 1..MaxItems :
                  Owner(s)' /\ Body(s)'.compile /\ Stored(s, n)' /\ ~Failed(s, JobOf(s, n))' =>
                    AtIt(s, n)' \/ Landed(Named(s, n))'
  <2>1. CASE s = r
    BY <1>3, <2>1, OwnerSettles, RowBeforeMessage
  <2>2. CASE s # r
    <3>1. TypeOK /\ Moves(r) /\ s \in Requests \ {r}
      BY <1>3, <2>2, RequestsKept DEF RequestInv
    <3>2. /\ req'[s] = req[s] /\ (Owner(s) => Job(s)' = Job(s)) /\ (Owner(s)' <=> Owner(s))
          /\ Event(s)' = Event(s) /\ Body(s)' = Body(s)
          /\ \A n : Named(s, n)' = Named(s, n) /\ (Stored(s, n)' <=> Stored(s, n))
      BY <1>3, <3>1, Elsewhere DEF Owner
    <3> QED BY <1>1, <3>2
  <2> QED BY <2>1, <2>2
<1> QED BY <1>2, <1>3 DEF OwnersSettle

-----------------------------------------------------------------------------
(* Snapshots                                                               *)

\* The kind of a job tells the path it was asked by.
LEMMA JobKinds ==
  ASSUME TypeOK, NEW r \in Requests, Busy(r)
  PROVE  /\ Owner(r) => Job(r)[1] = "ingest_event"
         /\ Asker(r) /\ Body(r).via = "batch" => Job(r)[1] = "ingest_batch"
         /\ Asker(r) /\ Body(r).via = "compilation" => Job(r)[1] = "compilation"
         /\ Owner(r) \/ Asker(r)
<1>1. Owner(r) => Job(r)[1] = "ingest_event"
  BY DEF Owner, OwnsEvents, Job
<1>2. Asker(r) /\ Body(r).via = "batch" => Job(r)[1] = "ingest_batch"
  BY DEF Asker, Job
<1>3. Asker(r) /\ Body(r).via = "compilation" => Job(r)[1] = "compilation"
  BY DEF Asker, Job
<1> QED BY <1>1, <1>2, <1>3 DEF Owner, Asker

LEMMA SameKind ==
  ASSUME TypeOK, NEW r \in Requests, NEW s \in Requests, Busy(r), Asker(s), Job(r) = Job(s)
  PROVE  Asker(r) /\ Body(r).via = Body(s).via
  BY JobKinds, RequestFacts DEF Asker

LEMMA SortedKept ==
  ASSUME RequestInv, EventJobsAreTheirs, HasSorted, NEW r \in Requests, Acts(r)
  PROVE  HasSorted'
<1> SUFFICES ASSUME NEW s \in Requests, Asker(s)', Body(s)'.via = "compilation",
                    req'[s].pc \in {"findJob", "insertJob"}
             PROVE  req'[s].results \in [Body(s)'.wants -> Classes]
  BY DEF HasSorted
<1>1. TypeOK /\ InOrder /\ Placed /\ Moves(r)
  BY RequestsKept DEF RequestInv
<1>2. CASE s # r
  <2>1. req'[s] = req[s] /\ Body(s)' = Body(s) /\ (Asker(s)' <=> Asker(s))
    BY <1>1, <1>2, Elsewhere
  <2> QED BY <2>1 DEF HasSorted
<1>3. CASE s = r
  <2>1. CASE Begins(r)
    BY <1>3, <2>1 DEF Begins
  <2>2. ASSUME NEW v \in Verdicts, Hears(r, v) PROVE FALSE
    <3>1. Delivers(r)'
      BY <2>2, HearsIs
    <3> QED BY <1>3, <3>1 DEF Delivers
  <2>3. CASE Sorts(r)
    <3>1. Body(r)' = Body(r)
      BY <2>3 DEF Sorts, OnlyChanges, Body
    <3> QED BY <1>3, <2>3, <3>1 DEF Sorts
  <2>4. CASE Tables(r)
    <3>1. Quiet(r)
      BY <1>1, <2>4, Quieting DEF Tables
    <3>2. Asker(r) /\ Body(r)' = Body(r) /\ req'[r].results = req[r].results
      BY <1>1, <1>3, <3>1, QuietKeeps
    <3>3. req[r].pc = "findJob"
      <4>1. CASE Turns(r)
        BY <1>3, <2>4, <3>2, <4>1 DEF Turns, Answers
      <4>2. CASE Makes(r)
        <5>1. req'[r] = JobCreated(r, TRUE) /\ Busy(r)
          BY <4>2, MadeIs DEF Makes
        <5> DEFINE p == JobCreated(r, TRUE)
        <5>2. p.pc \in {"rows", "complete"}
          BY <1>1, <5>1, CreatedIs
        <5> HIDE DEF p
        <5> QED BY <1>3, <5>1, <5>2 DEF p
      <4>3. CASE Sends(r)
        <5>1. req'[r] = AfterSend(r) /\ req[r].pc = "send"
          BY <4>3 DEF Sends
        <5> DEFINE p == AfterSend(r)
        <5>2. p.pc \in {"find", "wait", "done"}
          BY <1>1, <5>1, AfterSendIs
        <5> HIDE DEF p
        <5> QED BY <1>3, <5>1, <5>2 DEF p
      <4>4. CASE (\E e \in req[r].todo : Writes(r, e)) \/ Completes(r) \/ Records(r) \/ Fails(r)
        BY <1>3, <4>4 DEF Writes, Completes, Records, Fails, AnswersJob
      <4> QED BY <2>4, <4>1, <4>2, <4>3, <4>4 DEF Tables
    <3> QED BY <1>3, <3>2, <3>3 DEF HasSorted
  <2> QED BY <2>1, <2>2, <2>3, <2>4 DEF Acts
<1> QED BY <1>2, <1>3

\* The snapshot a compilation stores with its job is something.
LEMMA SnapshotIsSome ==
  ASSUME RequestInv, HasSorted, NEW r \in Requests, Asker(r), Body(r).via = "compilation",
         req[r].pc = "insertJob"
  PROVE  LET x == [job |-> Job(r), results |-> req[r].results] IN x # None /\ x # Counts
<1>1. TypeOK /\ InOrder /\ Placed /\ Body(r) \in Bodies /\ Job(r) \in JobIds
  BY RequestFacts, JobIsId DEF RequestInv, Asker
<1>2. req[r].results \in Results
  BY <1>1 DEF HasSorted, Results
<1>3. [job |-> Job(r), results |-> req[r].results] \in Snapshots
  BY <1>1, <1>2 DEF Snapshots
<1> QED BY <1>3, NoneAssumption

\* Who changes the snapshot of a job, and announces it.
LEMMA SnapshotsChange ==
  ASSUME RequestInv, EventJobsAreTheirs, NEW r \in Requests, Acts(r), NEW i \in DOMAIN job
  PROVE  /\ i \in DOMAIN job'
         /\ \/ job'[i].snapshot = job[i].snapshot
            \/ Records(r) /\ i = Job(r) /\ job'[i].snapshot = Response(r)
         /\ \/ job'[i].announced = job[i].announced
            \/ Sends(r) /\ i = Job(r)
<1>1. CASE job' = job
  BY <1>1
<1>2. CASE Makes(r)
  BY <1>2, MadeIs
<1>3. ASSUME NEW e \in req[r].todo, Writes(r, e)
      PROVE  i \in DOMAIN job' /\ job'[i].snapshot = job[i].snapshot /\ job'[i].announced = job[i].announced
  BY <1>3 DEF Writes, Changes, OnlySets
<1>4. CASE Completes(r)
  BY <1>4 DEF Completes, Changes, OnlySets
<1>5. CASE Records(r)
  BY <1>5 DEF Records, Changes, OnlySets
<1>6. CASE Sends(r)
  BY <1>6 DEF Sends, Changes, OnlySets
<1> QED BY <1>1, <1>2, <1>3, <1>4, <1>5, <1>6 DEF Acts, Tables, Begins, Hears, Sorts, Turns, Fails

LEMMA PrivateKept ==
  ASSUME RequestInv, EventJobsAreTheirs, OneCreator, CreatorsSettle, BatchesArePrivate,
         (\E r \in Requests : Acts(r)) \/ (\E j \in DOMAIN job : Works(j))
  PROVE  BatchesArePrivate'
<1> DEFINE open == {"rows", "complete", "snapshot", "send"}
<1>1. TypeOK /\ InOrder /\ Placed
  BY DEF RequestInv
<1>2. ASSUME NEW j \in DOMAIN job, Works(j) PROVE BatchesArePrivate'
  <2> SUFFICES ASSUME NEW s \in Requests, Asker(s)', Body(s)'.via = "batch", req'[s].pc \in open
               PROVE  ~job'[Job(s)'].announced /\ (req'[s].pc # "send" => job'[Job(s)'].snapshot = None)
    BY DEF BatchesArePrivate
  <2>1. Asker(s) /\ Body(s).via = "batch" /\ req'[s] = req[s] /\ Job(s)' = Job(s)
    BY <1>2, WorksIs
  <2>2. Exists(Job(s)) /\ ~job[Job(s)].announced /\ (req[s].pc # "send" => job[Job(s)].snapshot = None)
    BY <1>1, <2>1 DEF BatchesArePrivate, Placed
  <2>3. job'[Job(s)] = job[Job(s)]
    BY <1>2, <2>2 DEF Works, Changes, Exists
  <2> QED BY <2>1, <2>2, <2>3
<1>3. ASSUME NEW r \in Requests, Acts(r) PROVE BatchesArePrivate'
  <2> SUFFICES ASSUME NEW s \in Requests, Asker(s)', Body(s)'.via = "batch", req'[s].pc \in open
               PROVE  ~job'[Job(s)'].announced /\ (req'[s].pc # "send" => job'[Job(s)'].snapshot = None)
    BY DEF BatchesArePrivate
  <2>1. req'[s].created
    <3>1. Placed'
      BY <1>3, RequestsKept DEF RequestInv
    <3> QED BY <3>1 DEF Placed
  <2>2. /\ Asker(s) /\ Busy(s) /\ Job(s)' = Job(s) /\ Body(s)' = Body(s)
        /\ req[s].created \/ (s = r /\ Makes(r))
        /\ s = r => Tables(r)
    BY <1>3, <2>1, CreatorsStay
  <2>3. Moves(r)
    BY <1>3, RequestsKept
  <2>4. CASE s = r /\ Makes(r)
    <3>1. ~job'[Job(r)].announced /\ (Body(r).via # "compilation" => job'[Job(r)].snapshot = None)
      BY <2>4, MadeIs
    <3> QED BY <2>2, <2>4, <3>1
  <2>5. CASE req[s].created
    <3> PICK i : i = Job(s)
      OBVIOUS
    <3>1. i \in DOMAIN job
      BY <2>2, <2>5 DEF CreatorsSettle, MadeItsJob, Exists
    <3>2. /\ job'[i].snapshot = job[i].snapshot \/ (Records(r) /\ i = Job(r))
          /\ job'[i].announced = job[i].announced \/ (Sends(r) /\ i = Job(r))
      BY <1>3, <3>1, SnapshotsChange
    <3>3. i = Job(r) /\ (Records(r) \/ Sends(r)) => s = r
      <4> SUFFICES ASSUME i = Job(r), Records(r) \/ Sends(r) PROVE s = r
        OBVIOUS
      <4>1. Busy(r) /\ req[r].pc \in {"snapshot", "send"}
        BY DEF Records, Sends, Busy
      <4>2. Asker(r) /\ Body(r).via = "batch"
        BY <1>1, <2>2, <4>1, SameKind
      <4>3. req[r].created
        BY <1>1, <4>1, <4>2 DEF Placed
      <4> QED BY <2>2, <2>5, <4>2, <4>3 DEF OneCreator
    <3>4. CASE s # r
      <4>1. req'[s] = req[s]
        BY <2>3, <3>4 DEF Moves
      <4>2. ~job[i].announced /\ (req[s].pc # "send" => job[i].snapshot = None)
        BY <2>2, <4>1 DEF BatchesArePrivate
      <4> QED BY <2>2, <3>2, <3>3, <3>4, <4>1, <4>2
    <3>5. CASE s = r
      <4>1. req[r].pc \in open /\ ~Sends(r) /\ (Records(r) => req'[r].pc = "send")
            /\ (req[r].pc = "send" => req'[r].pc = "send")
        <5>1. CASE Turns(r)
          BY <1>1, <2>2, <2>5, <3>5, <5>1 DEF Turns, Answers, CreatorsSettle, MadeItsJob
        <5>2. CASE Makes(r)
          BY <1>1, <2>2, <2>5, <3>5, <5>2 DEF Makes, Placed
        <5>3. CASE Sends(r)
          <6>1. req'[r] = AfterSend(r) /\ req[r].pc = "send"
            BY <5>3 DEF Sends
          <6> DEFINE p == AfterSend(r)
          <6>2. p.pc \in {"find", "wait", "done"}
            BY <1>1, <6>1, AfterSendIs
          <6> HIDE DEF p
          <6> QED BY <3>5, <6>1, <6>2 DEF p
        <5>4. CASE (\E e \in req[r].todo : Writes(r, e)) \/ Completes(r) \/ Records(r) \/ Fails(r)
          BY <3>5, <5>4 DEF Writes, Completes, Records, Fails, AnswersJob, Sends
        <5> QED BY <2>2, <3>5, <5>1, <5>2, <5>3, <5>4 DEF Tables
      <4>2. ~job[i].announced /\ (req[r].pc # "send" => job[i].snapshot = None)
        BY <2>2, <3>5, <4>1 DEF BatchesArePrivate
      <4> QED BY <2>2, <3>2, <3>5, <4>1, <4>2
    <3> QED BY <3>4, <3>5
  <2> QED BY <2>2, <2>4, <2>5
<1> QED BY <1>2, <1>3

LEMMA CompilationsKept ==
  ASSUME RequestInv, EventJobsAreTheirs, CompilationsHaveAnswers, HasSorted,
         (\E r \in Requests : Acts(r)) \/ (\E j \in DOMAIN job : Works(j))
  PROVE  CompilationsHaveAnswers'
<1>1. TypeOK /\ InOrder /\ Placed
  BY DEF RequestInv
<1>2. ASSUME NEW j \in DOMAIN job, Works(j) PROVE CompilationsHaveAnswers'
  <2>1. /\ DOMAIN job' = DOMAIN job /\ job'[j].snapshot = Counts
        /\ \A i \in DOMAIN job \ {j} : job'[i] = job[i]
    BY <1>2 DEF Works, Changes
  <2> QED BY <2>1, NoneAssumption DEF CompilationsHaveAnswers
<1>3. ASSUME NEW r \in Requests, Acts(r), NEW j \in DOMAIN job', j[1] = "compilation"
      PROVE  job'[j].snapshot # None /\ (job'[j].snapshot # Counts => job'[j].snapshot.job = j)
  <2>1. CASE j \in DOMAIN job
    <3>1. ~(Records(r) /\ j = Job(r))
      <4> SUFFICES ASSUME Records(r), j = Job(r) PROVE FALSE
        OBVIOUS
      <4>1. Busy(r) /\ Asker(r) /\ Body(r).via = "batch"
        BY <1>1 DEF Records, Busy, Placed, Asker, OwnsEvents
      <4> QED BY <1>1, <1>3, <4>1, JobKinds
    <3>2. job'[j].snapshot = job[j].snapshot
      BY <1>3, <2>1, <3>1, SnapshotsChange
    <3> QED BY <1>3, <2>1, <3>2 DEF CompilationsHaveAnswers
  <2>2. CASE j \notin DOMAIN job
    <3>1. Makes(r)
      BY <1>3, <2>2 DEF Acts, Tables, Begins, Hears, Sorts, Turns, Writes, Completes, Records, Sends,
                        Fails, Changes
    <3>2. j = Job(r) /\ Busy(r) /\ req[r].pc = "insertJob"
      BY <1>3, <2>2, <3>1, MadeIs, ZenonT(60) DEF Makes
    <3>3. Asker(r) /\ Body(r).via = "compilation"
      BY <1>1, <1>3, <3>2, JobKinds, RequestFacts
    <3> DEFINE x == [job |-> Job(r), results |-> req[r].results]
    <3>4. x # None /\ x # Counts
      BY <3>2, <3>3, SnapshotIsSome
    <3>5. job'[Job(r)].snapshot = x
      BY <3>1, <3>3, MadeIs
    <3>6. x.job = Job(r)
      OBVIOUS
    <3> HIDE DEF x
    <3> QED BY <3>2, <3>4, <3>5, <3>6
  <2> QED BY <2>1, <2>2
<1> QED BY <1>2, <1>3 DEF CompilationsHaveAnswers

\* What a request that has made its job answers, and keeps with the job.
LEMMA KeepsAnswerStays ==
  ASSUME RequestInv, EventJobsAreTheirs, OneCreator, CreatorsSettle, SnapshotsAreAnswers,
         BatchesArePrivate,
         NEW r \in Requests, Acts(r), NEW s \in Requests, Asker(s)', req'[s].created
  PROVE  KeepsAnswer(s)'
<1> PICK x : x = Response(s)
  OBVIOUS
<1> PICK i : i = Job(s)
  OBVIOUS
<1>1. TypeOK /\ InOrder /\ Placed /\ Moves(r)
  BY RequestsKept DEF RequestInv
<1>2. /\ Asker(s) /\ Busy(s) /\ Job(s)' = i /\ Response(s)' = x /\ Body(s)' = Body(s)
      /\ req[s].created \/ (s = r /\ Makes(r))
      /\ s = r => Tables(r)
      /\ Body(s).via \in {"batch", "compilation"}
  BY <1>1, CreatorsStay, RequestFacts
<1>3. job'[i].snapshot \in {None, Counts} \/ job'[i].snapshot = x
  <2>1. CASE s = r /\ Makes(r)
    BY <1>2, <2>1, MadeIs DEF Response
  <2>2. CASE req[s].created
    <3>1. i \in DOMAIN job /\ KeepsAnswer(s)
      BY <1>2, <2>2 DEF CreatorsSettle, MadeItsJob, Exists, SnapshotsAreAnswers
    <3>2. CASE job'[i].snapshot = job[i].snapshot
      BY <3>1, <3>2 DEF KeepsAnswer
    <3>3. CASE Records(r) /\ i = Job(r) /\ job'[i].snapshot = Response(r)
      <4>1. Busy(r) /\ req[r].pc = "snapshot"
        BY <3>3 DEF Records, Busy
      <4>2. Asker(r) /\ Body(r).via = "batch"
        BY <1>1, <1>2, <3>3, <4>1, SameKind DEF Placed
      <4>3. s = r
        BY <1>1, <1>2, <2>2, <3>3, <4>1, <4>2 DEF Placed, OneCreator
      <4> QED BY <3>3, <4>3
    <3> QED BY <3>1, <3>2, <3>3, SnapshotsChange
  <2> QED BY <1>2, <2>1, <2>2
<1>4. ASSUME req'[s].pc = "done", req'[s].said.code = "ok", job'[i].snapshot \notin {None, Counts}
      PROVE  req'[s].said.job = x.job /\ req'[s].said.results = x.results
  <2>1. CASE s # r
    <3>1. req'[s] = req[s] /\ req[s].created
      BY <1>1, <1>2, <2>1 DEF Moves
    <3>2. i \in DOMAIN job /\ KeepsAnswer(s)
      BY <1>2, <3>1 DEF CreatorsSettle, MadeItsJob, Exists, SnapshotsAreAnswers
    <3>3. ~(Records(r) /\ i = Job(r))
      <4> SUFFICES ASSUME Records(r), i = Job(r) PROVE FALSE
        OBVIOUS
      <4>1. Busy(r) /\ req[r].pc = "snapshot"
        BY DEF Records, Busy
      <4>2. Asker(r) /\ req[r].created
        BY <1>1, <1>2, <4>1, SameKind DEF Placed
      <4> QED BY <1>2, <2>1, <3>1, <4>2 DEF OneCreator
    <3>4. job'[i].snapshot = job[i].snapshot
      BY <3>2, <3>3, SnapshotsChange
    <3> QED BY <1>2, <1>4, <3>1, <3>2, <3>4 DEF KeepsAnswer
  <2>2. CASE s = r
    <3>1. CASE Makes(r)
      <4>1. req'[r] = JobCreated(r, TRUE)
        BY <3>1 DEF Makes
      <4> DEFINE p == JobCreated(r, TRUE)
      <4>2. p.pc \in {"rows", "complete"}
        BY <1>1, <1>2, <2>2, CreatedIs
      <4> HIDE DEF p
      <4> QED BY <1>4, <2>2, <4>1, <4>2 DEF p
    <3>2. CASE ~Makes(r)
      <4>0. MadeItsJob(r) /\ ~Owner(r)
        BY <1>1, <1>2, <2>2, <3>2, RequestFacts DEF CreatorsSettle
      <4>s. req[r].pc = "send" => x.job = Job(r) /\ x.results = req[r].results
        BY <2>2, <4>0 DEF MadeItsJob, Response
      <4>1. CASE Turns(r)
        BY <1>4, <2>2, <4>0, <4>1 DEF Turns, MadeItsJob
      <4>2. CASE \E e \in req[r].todo : Writes(r, e)
        BY <1>4, <2>2, <4>2 DEF Writes
      <4>3. CASE Completes(r) \/ Records(r)
        BY <1>4, <2>2, <4>3 DEF Completes, Records, AnswersJob
      <4>4. CASE Sends(r)
        <5>1. req'[r] = AfterSend(r) /\ req[r].pc = "send"
          BY <4>4 DEF Sends
        <5> DEFINE p == AfterSend(r)
        <5>2. p.pc = "done" => p.said.job = Job(r) /\ p.said.results = req[r].results
          BY <1>1, <1>2, <2>2, <4>0, <5>1, AfterSendIs
        <5> HIDE DEF p
        <5> QED BY <1>4, <2>2, <4>s, <5>1, <5>2 DEF p
      <4>5. CASE Fails(r)
        <5>1. job' = job /\ Asker(r) /\ i = Job(r)
          BY <1>2, <2>2, <4>5 DEF Fails
        <5>2. CASE req[r].pc = "send"
          BY <1>4, <2>2, <4>s, <4>5, <5>1, <5>2 DEF Fails
        <5>3. CASE req[r].pc # "send" /\ Body(r).via = "batch"
          <6>1. req[r].pc \in {"rows", "complete", "snapshot"}
            BY <4>0, <4>5, <5>3 DEF Fails, MadeItsJob
          <6>2. job[i].snapshot = None
            BY <5>1, <5>3, <6>1 DEF BatchesArePrivate
          <6> QED BY <1>4, <5>1, <6>2
        <5>4. CASE req[r].pc # "send" /\ Body(r).via # "batch"
          <6>1. x.job = Job(r) /\ x.results = req[r].results
            BY <2>2, <5>4 DEF Response
          <6> QED BY <1>4, <2>2, <4>5, <5>1, <5>4, <6>1 DEF Fails
        <5> QED BY <5>2, <5>3, <5>4
      <4> QED BY <1>2, <2>2, <3>2, <4>1, <4>2, <4>3, <4>4, <4>5 DEF Tables
    <3> QED BY <3>1, <3>2
  <2> QED BY <2>1, <2>2
<1>5. /\ \/ job'[Job(s)'].snapshot \in {None, Counts}
         \/ job'[Job(s)'].snapshot = Response(s)'
      /\ (req'[s].pc = "done" /\ req'[s].said.code = "ok" /\ job'[Job(s)'].snapshot \notin {None, Counts}) =>
           req'[s].said.job = Response(s)'.job /\ req'[s].said.results = Response(s)'.results
  BY <1>2, <1>3, <1>4
<1> QED BY <1>5 DEF KeepsAnswer

\* What a replay reads is what the job keeps.
LEMMA RepeatsIs ==
  ASSUME CompilationsHaveAnswers, NEW r \in Requests, Asker(r),
         Body(r).via \in {"batch", "compilation"}, NEW said, Repeats(r, said)
  PROVE  LET j == Job(r) IN
         /\ j \in DOMAIN job /\ job[j].snapshot # None
         /\ job[j].snapshot # Counts =>
              said.job = job[j].snapshot.job /\ said.results = job[j].snapshot.results
<1> DEFINE j == Job(r)
<1>1. j \in DOMAIN job /\ said.results = SnapshotResults(j)
  BY DEF Repeats, Exists
<1>2. job[j].snapshot # None /\ (job[j].snapshot # Counts => said.job = job[j].snapshot.job)
  <2>1. CASE Body(r).via = "batch"
    BY <2>1 DEF Repeats, SnapshotJob
  <2>2. CASE Body(r).via = "compilation"
    <3>1. j[1] = "compilation"
      BY <2>2 DEF Asker, Job
    <3>2. said.job = j
      BY <2>2 DEF Repeats
    <3> HIDE DEF j
    <3> QED BY <1>1, <3>1, <3>2 DEF CompilationsHaveAnswers
  <2> QED BY <2>1, <2>2
<1> HIDE DEF j
<1>3. job[j].snapshot # Counts => said.results = job[j].snapshot.results
  BY <1>1, <1>2 DEF SnapshotResults
<1> QED BY <1>1, <1>2, <1>3 DEF j

\* An answer marked as a duplicate is one already given, or is given by looking the job up.
LEMMA DuplicatesAre ==
  ASSUME RequestInv, EventJobsAreTheirs, NEW r \in Requests, Acts(r), NEW s \in Requests,
         Asker(s)', Duplicate(s)'
  PROVE  /\ Asker(s) /\ Busy(s) /\ Job(s)' = Job(s)
         /\ \/ s # r /\ Duplicate(s) /\ req'[s] = req[s]
            \/ s = r /\ Turns(r) /\ Answers(r, req'[r])
<1>1. TypeOK /\ InOrder /\ Placed /\ Moves(r)
  BY RequestsKept DEF RequestInv
<1>2. CASE s # r
  <2>1. req'[s] = req[s] /\ Asker(s) /\ Busy(s)
    BY <1>1, <1>2, Elsewhere DEF Asker
  <2>2. Job(s)' = Job(s)
    BY <1>1, <1>2, <2>1, Elsewhere
  <2> QED BY <1>2, <2>1, <2>2 DEF Duplicate
<1>3. CASE s = r
  <2>0. req'[r].pc = "done" /\ req'[r].said.duplicate
    BY <1>3 DEF Duplicate
  <2>1. CASE Begins(r)
    BY <2>0, <2>1 DEF Begins
  <2>2. ASSUME NEW v \in Verdicts, Hears(r, v) PROVE FALSE
    <3>1. Stays(r) /\ req[r].pc \in {"find", "insert"} /\ req'[r] = Verdict(r, v)
      BY <2>2, HearsIs DEF Hears
    <3> DEFINE p == Verdict(r, v)
    <3>2. p.pc = "done" => Owner(r)
      BY <1>1, <3>1, VerdictIs
    <3> HIDE DEF p
    <3>3. Asker(r) /\ Busy(r)
      BY <1>1, <1>3, <3>1, BodyStays DEF Asker
    <3> QED BY <1>1, <2>0, <3>1, <3>2, <3>3, RequestFacts DEF p
  <2>3. CASE Sorts(r)
    BY <2>0, <2>3 DEF Sorts
  <2>4. CASE Tables(r)
    <3>1. Quiet(r)
      BY <1>1, <2>4, Quieting DEF Tables
    <3>2. Asker(r) /\ Busy(r) /\ Job(r)' = Job(r) /\ ~Owner(r)
      BY <1>1, <1>3, <3>1, QuietKeeps, RequestFacts DEF Asker
    <3>3. CASE Turns(r)
      BY <1>1, <1>3, <2>0, <3>2, <3>3 DEF Turns, Placed
    <3>4. CASE Makes(r)
      <4>1. req'[r] = JobCreated(r, TRUE)
        BY <3>4 DEF Makes
      <4> DEFINE p == JobCreated(r, TRUE)
      <4>2. p.pc \in {"rows", "complete"}
        BY <1>1, <3>2, CreatedIs
      <4> HIDE DEF p
      <4> QED BY <2>0, <4>1, <4>2 DEF p
    <3>5. CASE Sends(r)
      <4>1. req'[r] = AfterSend(r) /\ req[r].pc = "send"
        BY <3>5 DEF Sends
      <4> DEFINE p == AfterSend(r)
      <4>2. ~(p.pc = "done" /\ p.said.duplicate)
        BY <1>1, <3>2, <4>1, AfterSendIs
      <4> HIDE DEF p
      <4> QED BY <2>0, <4>1, <4>2 DEF p
    <3>6. CASE (\E e \in req[r].todo : Writes(r, e)) \/ Completes(r) \/ Records(r) \/ Fails(r)
      BY <2>0, <3>2, <3>6 DEF Writes, Completes, Records, Fails, AnswersJob
    <3> QED BY <2>4, <3>3, <3>4, <3>5, <3>6 DEF Tables
  <2> QED BY <2>1, <2>2, <2>3, <2>4 DEF Acts
<1> QED BY <1>2, <1>3

LEMMA RepeatsAnswerStays ==
  ASSUME RequestInv, EventJobsAreTheirs, CreatorsSettle, SnapshotsAreAnswers,
         CompilationsHaveAnswers, BatchesArePrivate,
         NEW r \in Requests, Acts(r), NEW s \in Requests, Asker(s)', Duplicate(s)'
  PROVE  RepeatsAnswer(s)'
<1> PICK i : i = Job(s)
  OBVIOUS
<1>1. TypeOK /\ InOrder /\ Placed /\ Moves(r)
  BY RequestsKept DEF RequestInv
<1>2. /\ Asker(s) /\ Busy(s) /\ Job(s)' = i /\ Body(s).via \in {"batch", "compilation"}
      /\ \/ s # r /\ Duplicate(s) /\ req'[s] = req[s]
         \/ s = r /\ Turns(r) /\ Answers(r, req'[r])
  BY <1>1, DuplicatesAre, RequestFacts
<1>3. CASE s # r /\ Duplicate(s) /\ req'[s] = req[s]
  <2>1. /\ i \in DOMAIN job /\ job[i].snapshot # None
        /\ job[i].snapshot # Counts =>
             req[s].said.job = job[i].snapshot.job /\ req[s].said.results = job[i].snapshot.results
    BY <1>2, <1>3 DEF SnapshotsAreAnswers, RepeatsAnswer, Exists
  <2>2. ~(Records(r) /\ i = Job(r))
    <3> SUFFICES ASSUME Records(r), i = Job(r) PROVE FALSE
      OBVIOUS
    <3>1. req[r].pc = "snapshot" /\ Asker(r) /\ Body(r).via = "batch"
      BY <1>1 DEF Records, Placed, Asker, Busy, OwnsEvents
    <3> QED BY <2>1, <3>1 DEF BatchesArePrivate
  <2>3. i \in DOMAIN job' /\ job'[i].snapshot = job[i].snapshot
    BY <2>1, <2>2, SnapshotsChange
  <2> QED BY <1>2, <1>3, <2>1, <2>3 DEF RepeatsAnswer, Exists
<1>4. CASE s = r /\ Turns(r) /\ Answers(r, req'[r])
  <2>1. job' = job /\ Repeats(r, req'[r].said)
    BY <1>4 DEF Turns, Answers, Duplicate
  <2>2. /\ i \in DOMAIN job /\ job[i].snapshot # None
        /\ job[i].snapshot # Counts =>
             req'[r].said.job = job[i].snapshot.job /\ req'[r].said.results = job[i].snapshot.results
    BY <1>2, <1>4, <2>1, RepeatsIs
  <2> QED BY <1>2, <1>4, <2>1, <2>2 DEF RepeatsAnswer, Exists
<1> QED BY <1>2, <1>3, <1>4

LEMMA SnapshotsKept ==
  ASSUME RequestInv, EventJobsAreTheirs, OneCreator, CreatorsSettle, SnapshotsAreAnswers,
         CompilationsHaveAnswers, BatchesArePrivate,
         (\E r \in Requests : Acts(r)) \/ (\E j \in DOMAIN job : Works(j))
  PROVE  SnapshotsAreAnswers'
<1>1. CASE \E r \in Requests : Acts(r)
  BY <1>1, KeepsAnswerStays, RepeatsAnswerStays DEF SnapshotsAreAnswers
<1>2. ASSUME NEW j \in DOMAIN job, Works(j) PROVE SnapshotsAreAnswers'
  <2>1. /\ DOMAIN job' = DOMAIN job /\ job'[j].snapshot = Counts
        /\ \A i \in DOMAIN job \ {j} : job'[i] = job[i]
    BY <1>2 DEF Works, Changes
  <2>2. \A s : /\ req'[s] = req[s] /\ Job(s)' = Job(s) /\ (Asker(s)' <=> Asker(s))
               /\ Response(s)' = Response(s) /\ (Duplicate(s)' <=> Duplicate(s))
    BY <1>2, WorksIs
  <2>3. ASSUME NEW s \in Requests, Asker(s), req[s].created PROVE KeepsAnswer(s)'
    <3>1. KeepsAnswer(s) /\ Exists(Job(s))
      BY <2>3 DEF SnapshotsAreAnswers, CreatorsSettle, MadeItsJob
    <3>2. job'[Job(s)] = job[Job(s)] \/ job'[Job(s)].snapshot = Counts
      BY <2>1, <3>1 DEF Exists
    <3> QED BY <2>2, <3>1, <3>2 DEF KeepsAnswer
  <2>4. ASSUME NEW s \in Requests, Asker(s), Duplicate(s) PROVE RepeatsAnswer(s)'
    <3>1. RepeatsAnswer(s)
      BY <2>4 DEF SnapshotsAreAnswers
    <3>2. job'[Job(s)] = job[Job(s)] \/ job'[Job(s)].snapshot = Counts
      BY <2>1, <3>1 DEF Exists, RepeatsAnswer
    <3> QED BY <2>1, <2>2, <3>1, <3>2, NoneAssumption DEF RepeatsAnswer, Exists
  <2> QED BY <2>2, <2>3, <2>4 DEF SnapshotsAreAnswers
<1> QED BY <1>1, <1>2

-----------------------------------------------------------------------------
(* The invariant                                                           *)

LEMMA InvHolds ==
  ASSUME Init
  PROVE  Inv
<1>1. /\ event = [e \in EventIds |-> None] /\ job = << >> /\ DOMAIN job = {}
      /\ req = [r \in Requests |-> Idle] /\ faults = 0
      /\ \A r \in Requests : req[r] = Idle
  BY DEF Init
<1>2. \A r \in Requests : /\ ~Busy(r) /\ ~Delivers(r) /\ ~Owner(r) /\ ~Asker(r)
                          /\ \A n : ~Stored(r, n)
  BY <1>1 DEF Idle, Busy, Delivers, Owner, Asker, Stored
<1>3. TypeOK
  <2>1. RequestOK(Idle)
    <3>1. IsRequest(Idle)
      BY DEF IsRequest, Idle
    <3> QED BY <3>1 DEF RequestOK, Idle
  <2>2. \A r \in Requests : RequestOK(req[r])
    BY <1>1, <2>1
  <2>3. /\ event \in [EventIds -> Payloads \union {None}]
        /\ DOMAIN req = Requests /\ req = [r \in Requests |-> req[r]]
        /\ faults \in 0..MaxFaults
    BY <1>1, FaultsAssumption
  <2>4. job = [j \in DOMAIN job |-> job[j]]
    BY <1>1
  <2> QED BY <1>1, <2>2, <2>3, <2>4 DEF TypeOK
<1>4. \A r \in Requests : /\ req[r].pc = "idle" /\ req[r].queued = {}
  BY <1>1 DEF Idle
<1>5. InOrder /\ Placed /\ StoredIsThere /\ StoredOnce
  BY <1>2, <1>4 DEF InOrder, Placed, StoredIsThere, StoredOnce
<1>6. EventJobsAreTheirs /\ OwnersSettle /\ OneCreator /\ CreatorsSettle
  BY <1>1, <1>2 DEF EventJobsAreTheirs, OwnersSettle, OneCreator, CreatorsSettle, Exists
<1>7. /\ SnapshotsAreAnswers /\ CompilationsHaveAnswers /\ BatchesArePrivate /\ HasSorted
      /\ RowsWereAsked
  BY <1>1, <1>2
     DEF SnapshotsAreAnswers, CompilationsHaveAnswers, BatchesArePrivate, HasSorted, RowsWereAsked
<1> QED BY <1>3, <1>5, <1>6, <1>7 DEF Inv, RequestInv, JobInv

\* Every step is one of these.
LEMMA NextIs ==
  ASSUME Inv, Next
  PROVE  (\E r \in Requests : Acts(r)) \/ (\E j \in DOMAIN job : Works(j))
<1>1. RequestInv /\ EventJobsAreTheirs
  BY DEF Inv, JobInv
<1> QED BY <1>1, Steps DEF Acts, Tables

LEMMA InvKept ==
  ASSUME Inv, Next
  PROVE  Inv'
<1>0. /\ RequestInv /\ EventJobsAreTheirs /\ OwnersSettle /\ OneCreator /\ CreatorsSettle
      /\ SnapshotsAreAnswers /\ CompilationsHaveAnswers /\ BatchesArePrivate /\ HasSorted
      /\ RowsWereAsked
  BY DEF Inv, JobInv
<1>1. (\E r \in Requests : Acts(r)) \/ (\E j \in DOMAIN job : Works(j))
  BY NextIs
<1>2. RequestInv' /\ EventJobsAreTheirs'
  BY <1>0, <1>1, RequestsKept, EventJobsKept, WorksKeeps
<1>3. OwnersSettle' /\ CreatorsSettle' /\ RowsWereAsked'
  BY <1>0, <1>1, OwnersKept, CreatorsKept, RowsKept
<1>4. BatchesArePrivate'
  BY <1>0, <1>1, PrivateKept
<1>5. CompilationsHaveAnswers'
  BY <1>0, <1>1, CompilationsKept
<1>6. SnapshotsAreAnswers'
  BY <1>0, <1>1, SnapshotsKept
<1>7. ASSUME NEW j \in DOMAIN job, Works(j) PROVE OneCreator' /\ HasSorted'
  <2>1. \A s : /\ req'[s] = req[s] /\ Job(s)' = Job(s) /\ (Asker(s)' <=> Asker(s))
               /\ Body(s)' = Body(s)
    BY <1>7, WorksIs
  <2> QED BY <1>0, <2>1 DEF OneCreator, HasSorted
<1>8. OneCreator' /\ HasSorted'
  BY <1>0, <1>1, <1>7, OneCreatorKept, SortedKept
<1> QED BY <1>2, <1>3, <1>4, <1>5, <1>6, <1>8 DEF Inv, JobInv

LEMMA InvStutters ==
  ASSUME Inv, UNCHANGED vars
  PROVE  Inv'
<1>1. req' = req /\ event' = event /\ job' = job /\ faults' = faults
  BY DEF vars
<1>2. \A s : /\ Body(s)' = Body(s) /\ (Busy(s)' <=> Busy(s)) /\ Delivery(s)' = Delivery(s)
             /\ Item(s)' = Item(s)
  BY <1>1 DEF Body, Busy, Delivery, Item
<1>3. \A s : OwnsEvents(s)' = OwnsEvents(s) /\ Event(s)' = Event(s) /\ Accepted(s)' = Accepted(s)
  BY <1>1, <1>2 DEF OwnsEvents, Event, Accepted
<1>4. \A s : Job(s)' = Job(s) /\ Owner(s)' = Owner(s) /\ Asker(s)' = Asker(s)
  BY <1>2, <1>3 DEF Job, Owner, Asker
<1>5. \A s : Covers(s)' = Covers(s) /\ Response(s)' = Response(s)
  BY <1>1, <1>2, <1>3, <1>4 DEF Covers, Response
<1>6. \A s : (\A j : Failed(s, j)' <=> Failed(s, j)) /\ (Duplicate(s)' <=> Duplicate(s))
  BY <1>1 DEF Failed, Duplicate
<1>7. \A s : Exists(Job(s))' <=> Exists(Job(s))
  BY <1>1, <1>4 DEF Exists
<1>8. \A s : \A n : Named(s, n)' = Named(s, n) /\ Stored(s, n)' = Stored(s, n)
  BY <1>1, <1>2 DEF Named, Stored, Delivers
<1>9. \A s : \A e : Asked(s, e)' <=> Asked(s, e)
  BY <1>1, <1>2, <1>3 DEF Asked
<1>10. TypeOK' /\ InOrder'
  BY <1>1, <1>2 DEF Inv, RequestInv, TypeOK, InOrder, Delivers
<1>11. Placed'
  <2>1. \A r \in Requests : Stored(r, req[r].at)' <=> Stored(r, req[r].at)
    <3> TAKE r \in Requests
    <3>1. PICK n : n = req[r].at
      OBVIOUS
    <3>2. Stored(r, n)' <=> Stored(r, n)
      BY <1>8
    <3> QED BY <1>1, <1>2, <3>1, <3>2 DEF Stored, Delivers
  <2> QED BY <1>1, <1>2, <1>3, <1>4, <1>5, <1>7, <2>1 DEF Inv, RequestInv, Placed
<1>12. StoredIsThere' /\ StoredOnce'
  BY <1>1, <1>8 DEF Inv, RequestInv, StoredIsThere, StoredOnce
<1>13. EventJobsAreTheirs'
  BY <1>1, <1>4, <1>8 DEF Inv, JobInv, EventJobsAreTheirs, Exists, MakesJob
<1>14. \A j : /\ (\A e : HasRow(j, e)' <=> HasRow(j, e)) /\ (OnItsWay(j)' <=> OnItsWay(j))
              /\ (Over(j)' <=> Over(j))
  BY <1>1 DEF HasRow, Exists, OnItsWay, Over
<1>15. OwnersSettle'
  <2>1. \A e : Landed(e)' <=> Landed(e)
    BY <1>14 DEF Landed
  <2>2. \A r \in Requests : HasRow(Job(r), Event(r))' <=> HasRow(Job(r), Event(r))
    BY <1>1, <1>3, <1>4 DEF HasRow, Exists
  <2>3. \A r \in Requests : \A n : Landed(Named(r, n))' <=> Landed(Named(r, n))
    BY <1>8, <2>1 DEF Landed
  <2>4. \A r \in Requests : \A n : AtIt(r, n)' <=> AtIt(r, n)
    BY <1>1 DEF AtIt
  <2>5. \A r \in Requests : \A n : Failed(r, JobOf(r, n))' <=> Failed(r, JobOf(r, n))
    BY <1>1, <1>8 DEF Failed, JobOf
  <2> QED BY <1>1, <1>2, <1>4, <1>8, <2>2, <2>3, <2>4, <2>5 DEF Inv, JobInv, OwnersSettle
<1>16. OneCreator' /\ CreatorsSettle'
  <2>1. \A r \in Requests : MadeItsJob(r)' <=> MadeItsJob(r)
    BY <1>1, <1>2, <1>4, <1>5, <1>6 DEF MadeItsJob, HasRow, Exists, OnItsWay, Over
  <2> QED BY <1>1, <1>4, <2>1 DEF Inv, JobInv, OneCreator, CreatorsSettle
<1>17. SnapshotsAreAnswers'
  <2>1. \A r \in Requests : (KeepsAnswer(r)' <=> KeepsAnswer(r)) /\ (RepeatsAnswer(r)' <=> RepeatsAnswer(r))
    BY <1>1, <1>4, <1>5 DEF KeepsAnswer, RepeatsAnswer, Exists
  <2> QED BY <1>1, <1>4, <1>6, <2>1 DEF Inv, JobInv, SnapshotsAreAnswers
<1>18. CompilationsHaveAnswers' /\ BatchesArePrivate' /\ HasSorted' /\ RowsWereAsked'
  BY <1>1, <1>2, <1>4, <1>9
     DEF Inv, JobInv, CompilationsHaveAnswers, BatchesArePrivate, HasSorted, RowsWereAsked
<1> QED BY <1>10, <1>11, <1>12, <1>13, <1>15, <1>16, <1>17, <1>18 DEF Inv, RequestInv, JobInv

\* The invariant holds: requests, events and jobs are related as its parts say.
THEOREM Invariant == Spec => []Inv
<1>1. Inv /\ [Next]_vars => Inv'
  BY InvKept, InvStutters
<1> QED BY <1>1, InvHolds, PTL DEF Spec

\* The tables and the requests stay within their types (Ingest.TypeOK).
THEOREM TypeCorrect == Spec => []TypeOK
<1>1. Inv => TypeOK
  BY DEF Inv, RequestInv
<1> QED BY <1>1, Invariant, PTL

\* What is answered is on its way: whatever a request has answered, every event it
\* stored, accepted or queued has a row in a job that is announced or over, but for
\* the jobs whose own statements or message have failed: a swallowed failure takes no
\* other job with it (ingest-one.ts, ingest-batch.ts, connector-webhook.ts,
\* enqueue-compilation.ts).
THEOREM AnswersAreKept == Spec => []AnsweredIsOnItsWay
<1>1. ASSUME Inv PROVE AnsweredIsOnItsWay
  <2> SUFFICES ASSUME NEW r \in Requests, req[r].pc = "done", Body(r).compile,
                      NEW j \in Promised(r) \ req[r].lost
               PROVE  /\ Exists(j) /\ (job[j].announced \/ Over(j))
                      /\ \A e \in Promises(r, j) : HasRow(j, e)
    BY DEF AnsweredIsOnItsWay
  <2>1. TypeOK /\ InOrder /\ OwnersSettle /\ CreatorsSettle /\ Busy(r) /\ ~Failed(r, j)
    BY <1>1 DEF Inv, RequestInv, JobInv, Busy, Failed
  <2>2. CASE OwnsEvents(r)
    <3>1. Owner(r) /\ Delivers(r)
      BY <2>1, <2>2, RequestFacts DEF Owner
    <3>2. PICK e \in Accepted(r) : j = <<"ingest_event", e>>
      BY <2>2 DEF Promised
    <3>3. PICK n \in 1..MaxItems : Stored(r, n) /\ Named(r, n) = e
      BY <2>1, <3>1, AcceptedIs
    <3>4. Landed(e)
      BY <2>1, <3>1, <3>2, <3>3 DEF OwnersSettle, AtIt, JobOf
    <3>5. Promises(r, j) = {e}
      BY <2>2, <3>2 DEF Promises
    <3> QED BY <3>2, <3>4, <3>5 DEF Landed, HasRow, OnItsWay
  <2>3. CASE ~OwnsEvents(r)
    <3>1. Asker(r) /\ req[r].created /\ j = Job(r) /\ Promises(r, j) = Covers(r)
      BY <2>1, <2>3 DEF Asker, Promised, Promises
    <3>2. MadeItsJob(r)
      BY <2>1, <3>1 DEF CreatorsSettle
    <3> QED BY <2>1, <3>1, <3>2 DEF MadeItsJob, OnItsWay
  <2> QED BY <2>2, <2>3
<1> QED BY <1>1, Invariant, PTL

\* A replayed batch or compilation is answered with the first request's results and
\* job, unless a worker has finished the job since (ingest-batch.ts, compilations.ts).
THEOREM ReplaysRepeat == Spec => []ReplayRepeats
<1>1. ASSUME Inv PROVE ReplayRepeats
  <2> SUFFICES ASSUME NEW r \in Requests, NEW s \in Requests, Duplicate(r), ~OwnsEvents(r),
                      req[s].pc = "done", req[s].created, Job(s) = Job(r),
                      req[s].said.code = "ok", job[Job(r)].snapshot # Counts
               PROVE  /\ req[r].said.results = req[s].said.results
                      /\ req[r].said.job = req[s].said.job
    BY DEF ReplayRepeats
  <2>1. TypeOK /\ SnapshotsAreAnswers /\ Busy(r) /\ Busy(s)
    BY <1>1 DEF Inv, RequestInv, JobInv, Busy, Duplicate
  <2>2. Asker(r) /\ Asker(s)
    BY <2>1, SameKind DEF Asker
  <2>3. KeepsAnswer(s) /\ RepeatsAnswer(r)
    BY <2>1, <2>2 DEF SnapshotsAreAnswers
  <2> QED BY <2>3 DEF KeepsAnswer, RepeatsAnswer
<1> QED BY <1>1, Invariant, PTL

\* Without faults, a queued job nobody has announced keeps its request.
LEMMA QueuedKept ==
  ASSUME Inv, QueuedHasItsRequest, Next
  PROVE  QueuedHasItsRequest'
<1> DEFINE open == {"rows", "complete", "snapshot", "send"}
<1>0. /\ RequestInv /\ EventJobsAreTheirs /\ CreatorsSettle
      /\ TypeOK /\ InOrder /\ Placed /\ faults \in Nat
  BY FaultsAssumption DEF Inv, JobInv, RequestInv, TypeOK
<1> SUFFICES ASSUME NEW j \in DOMAIN job', faults' = 0, job'[j].status = "queued",
                    ~job'[j].announced
             PROVE  \E s \in Requests : req'[s].pc \in open /\ Job(s)' = j /\ req'[s].created
  BY DEF QueuedHasItsRequest
<1>1. ASSUME j \in DOMAIN job, faults = 0
      PROVE  /\ job[j].status = "queued" /\ ~job[j].announced /\ ~Over(j)
             /\ \E s \in Requests : req[s].pc \in open /\ Job(s) = j /\ req[s].created
  <2>1. Grows(j)
    BY <1>0, <1>1, NextIs, JobsGrow
  <2>2. ~Over(j) /\ ~job[j].announced
    BY <2>1 DEF Grows
  <2>3. job[j].status = "queued"
    BY <1>0, <1>1, <2>2 DEF TypeOK, IsJob, Over
  <2> QED BY <1>1, <2>2, <2>3 DEF QueuedHasItsRequest
<1>2. ASSUME NEW i \in DOMAIN job, Works(i)
      PROVE  \E s \in Requests : req'[s].pc \in open /\ Job(s)' = j /\ req'[s].created
  <2>1. j \in DOMAIN job /\ faults = 0 /\ req' = req /\ \A s : Job(s)' = Job(s)
    BY <1>2, WorksIs
  <2> QED BY <1>1, <2>1
<1>3. ASSUME NEW r \in Requests, Acts(r)
      PROVE  \E s \in Requests : req'[s].pc \in open /\ Job(s)' = j /\ req'[s].created
  <2>1. CASE Makes(r) /\ j = Job(r)
    <3>1. req'[r] = JobCreated(r, TRUE) /\ Busy(r) /\ Quiet(r)
      BY <1>0, <2>1, MadeIs, Quieting DEF Makes
    <3> DEFINE p == JobCreated(r, TRUE)
    <3>2. p.pc \in {"rows", "complete"} /\ p.created /\ p.at = req[r].at
      BY <1>0, <3>1, CreatedIs DEF OnlyChanges
    <3> HIDE DEF p
    <3>3. req'[r].pc \in open /\ req'[r].created /\ req'[r].at = req[r].at
      BY <3>1, <3>2 DEF p
    <3>4. Job(r)' = Job(r)
      BY <1>0, <3>1, <3>3, BodyStays DEF Quiet
    <3> QED BY <2>1, <3>3, <3>4
  <2>2. CASE ~(Makes(r) /\ j = Job(r))
    <3>1. j \in DOMAIN job
      BY <1>0, <1>3, <2>2, MadeIs
         DEF Acts, Tables, Begins, Hears, Sorts, Turns, Writes, Completes, Records, Sends, Fails, Changes
    <3>2. faults = 0
      <4>1. faults' = faults \/ faults' = faults + 1 \/ faults' \in faults..MaxFaults
        BY <1>3
           DEF Acts, Tables, Begins, Hears, Sorts, Turns, Makes, Writes, Completes, Records, Sends, Fails
      <4> QED BY <1>0, <4>1, FaultsAssumption
    <3>3. PICK s \in Requests : req[s].pc \in open /\ Job(s) = j /\ req[s].created
      BY <1>1, <3>1, <3>2
    <3>4. Moves(r) /\ Busy(s)
      BY <1>0, <1>3, <3>3, RequestsKept DEF Busy
    <3>5. CASE s # r
      <4>1. s \in Requests \ {r}
        BY <3>5
      <4>2. req'[s] = req[s] /\ Job(s)' = Job(s)
        BY <1>0, <3>4, <4>1, Elsewhere
      <4> QED BY <3>3, <4>2
    <3>6. CASE s = r
      <4>1. Records(r) \/ \E e \in req[r].todo : Writes(r, e)
        <5>1. ~Turns(r)
          BY <1>0, <3>2, <3>3, <3>6 DEF Turns
        <5>2. ~Makes(r) /\ ~Begins(r) /\ ~Sorts(r) /\ (\A v \in Verdicts : ~Hears(r, v))
          BY <3>3, <3>4, <3>6 DEF Makes, Begins, Sorts, Hears
        <5>3. ~Completes(r) /\ ~Sends(r)
          BY <3>3, <3>6 DEF Completes, Sends
        <5>4. ~Fails(r)
          BY <3>2 DEF Fails
        <5> QED BY <1>3, <5>1, <5>2, <5>3, <5>4 DEF Acts, Tables
      <4>5. CASE Records(r)
        <5>1. Asker(r) /\ Body(r).via = "batch" /\ req[r].pc = "snapshot"
          BY <1>0, <3>4, <3>6, <4>5 DEF Records, Placed, Asker, OwnsEvents
        <5>2. MadeItsJob(r)
          BY <1>0, <3>3, <3>6, <5>1 DEF CreatorsSettle
        <5>3. Body(r).compile
          BY <1>1, <3>1, <3>2, <3>3, <3>6, <5>1, <5>2 DEF MadeItsJob
        <5>4. Quiet(r) /\ req'[r].pc = "send" /\ req'[r].created
          BY <1>0, <3>3, <3>6, <4>5, <5>3, Quieting DEF Records, OnlyChanges
        <5>5. Job(r)' = Job(r)
          BY <1>0, <5>1, <5>4, QuietKeeps
        <5> QED BY <3>3, <3>6, <5>4, <5>5
      <4>6. ASSUME NEW e \in req[r].todo, Writes(r, e)
            PROVE  \E t \in Requests : req'[t].pc \in open /\ Job(t)' = j /\ req'[t].created
        <5>1. Quiet(r) /\ req'[r].at = req[r].at /\ req'[r].created /\ req'[r].pc \in open
          BY <1>0, <3>3, <3>6, <4>6, Quieting DEF Writes, OnlyChanges
        <5>2. Job(r)' = Job(r)
          BY <1>0, <5>1, BodyStays DEF Quiet
        <5> QED BY <3>3, <3>6, <5>1, <5>2
      <4> QED BY <4>1, <4>5, <4>6
    <3> QED BY <3>5, <3>6
  <2> QED BY <2>1, <2>2
<1> QED BY <1>0, <1>2, <1>3, NextIs

\* Nobody queues a job for ever: without faults, a queued job nobody has announced
\* is one its request is still working on (ingest-batch.ts, enqueue-compilation.ts).
THEOREM QueuedAreHeld == Spec => []QueuedHasItsRequest
<1>1. Init => QueuedHasItsRequest
  BY DEF Init, QueuedHasItsRequest
<1>2. ASSUME QueuedHasItsRequest, UNCHANGED vars PROVE QueuedHasItsRequest'
  <2>1. req' = req /\ job' = job /\ faults' = faults
    BY <1>2 DEF vars
  <2>2. \A s : Body(s)' = Body(s) /\ Event(s)' = Event(s) /\ (OwnsEvents(s)' <=> OwnsEvents(s))
    BY <2>1 DEF Body, Event, Item, Delivery, OwnsEvents
  <2>3. \A s : Job(s)' = Job(s)
    BY <2>2 DEF Job
  <2> QED BY <1>2, <2>1, <2>3 DEF QueuedHasItsRequest
<1>3. Inv /\ QueuedHasItsRequest /\ [Next]_vars => QueuedHasItsRequest'
  BY <1>2, QueuedKept
<1> QED BY <1>1, <1>3, Invariant, PTL DEF Spec

\* A compilation refuses an event as active or compiled only when someone asked for
\* its compilation: an event stored without `compile` stays eligible
\* (enqueue-compilation.ts and getEventCompilationStatus).
THEOREM RefusalsWereRequested == Spec => []RefusedWasRequested
<1>1. ASSUME Init PROVE RefusedWasRequested
  <2>1. \A r \in Requests : req[r].pc = "idle"
    BY <1>1 DEF Init, Idle
  <2> QED BY <2>1 DEF RefusedWasRequested
<1>2. RefusedWasRequested <=>
        \A r \in Requests :
          (Busy(r) /\ Body(r).via = "compilation" /\ req[r].results # << >>) =>
            \A e \in Body(r).wants :
              req[r].results[e] \in {"already_active", "already_compiled"} =>
                \E s \in Requests : Asked(s, e)
  BY DEF RefusedWasRequested, Asked, Busy
<1>3. ASSUME Inv, RefusedWasRequested, Next PROVE RefusedWasRequested'
  <2>0. RequestInv /\ EventJobsAreTheirs /\ RowsWereAsked /\ TypeOK /\ InOrder /\ Placed
    BY <1>3 DEF Inv, JobInv, RequestInv
  <2> SUFFICES ASSUME NEW s \in Requests, Busy(s)', Body(s)'.via = "compilation",
                      req'[s].results # << >>, NEW e \in Body(s)'.wants,
                      req'[s].results[e] \in {"already_active", "already_compiled"}
               PROVE  \E t \in Requests : Asked(t, e)'
    BY DEF RefusedWasRequested, Asked, Busy
  <2>1. CASE /\ Busy(s) /\ Body(s)' = Body(s) /\ req'[s].results = req[s].results
    <3>1. PICK t \in Requests : Asked(t, e)
      BY <1>2, <1>3, <2>1
    <3> QED BY <1>3, <2>0, <3>1, NextIs, AskedLasts, WorksIs
  <2>2. CASE \E j \in DOMAIN job : Works(j)
    <3>1. req'[s] = req[s] /\ Body(s)' = Body(s) /\ Busy(s)
      BY <2>2, WorksIs
    <3> QED BY <2>1, <3>1
  <2>3. ASSUME NEW r \in Requests, Acts(r) PROVE \E t \in Requests : Asked(t, e)'
    <3>1. Moves(r)
      BY <2>0, <2>3, RequestsKept
    <3>2. CASE s # r
      <4>1. req'[s] = req[s] /\ Body(s)' = Body(s) /\ Busy(s)
        BY <2>0, <3>1, <3>2, Elsewhere
      <4> QED BY <2>1, <4>1
    <3>3. CASE s = r /\ Begins(r)
      BY <3>3 DEF Begins
    <3>4. CASE s = r /\ \E v \in Verdicts : Hears(r, v)
      <4>1. Delivers(r)'
        BY <2>0, <3>4, HearsIs
      <4> QED BY <3>4, <4>1 DEF Delivers
    <3>5. CASE s = r /\ Sorts(r)
      <4>1. Body(r)' = Body(r)
        BY <3>5 DEF Sorts, OnlyChanges, Body
      <4>2. PICK j \in DOMAIN job : HasRow(j, e)
        BY <3>5, <4>1 DEF Sorts
      <4>3. PICK t \in Requests : Asked(t, e)
        BY <2>0, <4>2 DEF RowsWereAsked, HasRow
      <4> QED BY <2>0, <2>3, <4>3, AskedLasts
    <3>6. CASE s = r /\ Tables(r)
      <4>1. Quiet(r)
        BY <2>0, <3>6, Quieting DEF Tables
      <4>2. Body(r)' = Body(r) /\ req'[r].results = req[r].results /\ Busy(r)
        BY <2>0, <4>1, QuietKeeps DEF Quiet, Stays
      <4> QED BY <2>1, <3>6, <4>2
    <3> QED BY <2>3, <3>2, <3>3, <3>4, <3>5, <3>6 DEF Acts
  <2> QED BY <1>3, <2>2, <2>3, NextIs
<1>4. ASSUME RefusedWasRequested, UNCHANGED vars PROVE RefusedWasRequested'
  <2>1. req' = req
    BY <1>4 DEF vars
  <2>2. \A s : Body(s)' = Body(s) /\ Delivery(s)' = Delivery(s) /\ Accepted(s)' = Accepted(s)
    BY <2>1 DEF Body, Delivery, Accepted
  <2> QED BY <1>4, <2>1, <2>2 DEF RefusedWasRequested
<1>5. Init => RefusedWasRequested
  BY <1>1
<1>6. Inv /\ RefusedWasRequested /\ [Next]_vars => RefusedWasRequested'
  BY <1>3, <1>4
<1> QED BY <1>5, <1>6, Invariant, PTL DEF Spec

-----------------------------------------------------------------------------
(* The event log                                                           *)

Tellings == [d \in Requests \X (1..MaxItems) |-> Told(d[1], d[2])]

\* A step that tells nothing, or one delivery.
LEMMA ToldSame ==
  ASSUME NEW r, NEW n, req[r].pc # "idle", req'[r].pc # "idle", req'[r].body = req[r].body,
         \/ Body(r).via = "compilation"
         \/ req'[r].results = req[r].results
  PROVE  Told(r, n)' = Told(r, n)
<1>1. Delivery(r)' = Delivery(r)
  BY DEF Delivery, Body
<1> QED BY <1>1 DEF Told, Body

LEMMA ToldNow ==
  ASSUME RequestInv, NEW r \in Requests, NEW v \in Verdicts, Hears(r, v), NEW k, k = req[r].at
  PROVE  /\ \A n \in 1..MaxItems : n # k => Told(r, n)' = Told(r, n)
         /\ Told(r, k) = None
         /\ Told(r, k)' = IF v = "failed" THEN None
                          ELSE [id |-> Event(r), payload |-> Item(r).hash, verdict |-> v]
<1> PICK seq : seq = req[r].results
  OBVIOUS
<1>1. /\ Delivers(r) /\ Busy(r) /\ Busy(r)' /\ req'[r].body = req[r].body
      /\ seq \in Seq(Verdicts) /\ k = Len(seq) + 1
      /\ Event(r) = Named(r, k) /\ Item(r) = Body(r).items[k]
      /\ req'[r].results = Append(seq, v) /\ Named(r, k)' = Named(r, k)
  BY HearsIs DEF Stays
<1>2. Delivery(r)' = Delivery(r) /\ Body(r)' = Body(r)
  BY <1>1 DEF Delivery, Body
<1>3. /\ Len(seq) \in Nat /\ Len(Append(seq, v)) = k /\ Append(seq, v)[k] = v
      /\ \A n \in 1..Len(seq) : Append(seq, v)[n] = seq[n]
  BY <1>1
<1>4. ASSUME NEW n \in 1..MaxItems, n # k PROVE Told(r, n)' = Told(r, n)
  <2>1. CASE n <= Len(seq)
    <3>1. ~(n > Len(seq)) /\ ~(n > Len(Append(seq, v))) /\ Append(seq, v)[n] = seq[n]
      BY <1>1, <1>3, <2>1
    <3> QED BY <1>1, <1>2, <3>1 DEF Told, Body, Busy
  <2>2. CASE n > k
    <3>1. n > Len(seq) /\ n > Len(Append(seq, v))
      BY <1>1, <1>3, <2>2
    <3> QED BY <1>1, <1>2, <3>1 DEF Told, Body, Busy
  <2> QED BY <1>1, <1>3, <1>4, <2>1, <2>2
<1>5. Told(r, k) = None
  <2>1. k > Len(seq)
    BY <1>1, <1>3
  <2> QED BY <1>1, <2>1 DEF Told, Body, Busy
<1>6. Told(r, k)' = IF v = "failed" THEN None
                    ELSE [id |-> Event(r), payload |-> Item(r).hash, verdict |-> v]
  <2>1. ~(k > Len(Append(seq, v)))
    BY <1>1, <1>3
  <2>2. req'[r].pc # "idle" /\ req'[r].body.via # "compilation" /\ req'[r].body = Body(r)
    BY <1>1 DEF Busy, Delivers, Body
  <2>3. /\ req'[r].results[k] = v /\ ~(k > Len(req'[r].results))
        /\ <<req'[r].body.channel, Delivery(r)', req'[r].body.items[k].item>> = Event(r)
        /\ req'[r].body.items[k].hash = Item(r).hash
    BY <1>1, <1>2, <1>3, <2>1, <2>2 DEF Named
  <2>4. CASE v = "failed"
    BY <2>2, <2>3, <2>4 DEF Told
  <2>5. CASE v # "failed"
    <3>1. Told(r, k)' =
            [id |-> <<req'[r].body.channel, Delivery(r)', req'[r].body.items[k].item>>,
             payload |-> req'[r].body.items[k].hash, verdict |-> req'[r].results[k]]
      BY <2>2, <2>3, <2>5 DEF Told
    <3> QED BY <2>3, <2>5, <3>1
  <2> QED BY <2>4, <2>5
<1> QED BY <1>4, <1>5, <1>6

LEMMA TellingsSame ==
  ASSUME \A r \in Requests : \A n \in 1..MaxItems : Told(r, n)' = Told(r, n)
  PROVE  Tellings' = Tellings
<1>1. \A d \in Requests \X (1..MaxItems) : Told(d[1], d[2])' = Told(d[1], d[2])
  OBVIOUS
<1> QED BY <1>1 DEF Tellings

LEMMA LogStarts ==
  ASSUME Init
  PROVE  Log!Init
<1>1. /\ event = [e \in EventIds |-> None]
      /\ \A r \in Requests : req[r].pc = "idle"
  BY DEF Init, Idle
<1>2. \A d \in Requests \X (1..MaxItems) : Told(d[1], d[2]) = None
  BY <1>1 DEF Told
<1> QED BY <1>1, <1>2 DEF Log!Init

\* What a delivery is told, the log tells it.
LEMMA LogTells ==
  ASSUME RequestInv, NEW r \in Requests, NEW v \in Verdicts, Hears(r, v)
  PROVE  Log!Next \/ UNCHANGED <<event, Tellings>>
<1> PICK k : k = req[r].at
  OBVIOUS
<1> PICK e : e = Event(r)
  OBVIOUS
<1> PICK hash : hash = Item(r).hash
  OBVIOUS
<1>1. /\ Stays(r) /\ k \in 1..MaxItems /\ e \in EventIds /\ hash \in Payloads
      /\ v = "accepted" => event[e] = None /\ event' = [event EXCEPT ![e] = hash]
      /\ v # "accepted" => event' = event
      /\ v \in {"duplicate", "conflict"} =>
           event[e] # None /\ v = (IF event[e] = hash THEN "duplicate" ELSE "conflict")
  BY HearsIs DEF ResolveReplay
<1> DEFINE said == [id |-> e, payload |-> hash, verdict |-> v]
<1>2. /\ \A n \in 1..MaxItems : n # k => Told(r, n)' = Told(r, n)
      /\ Told(r, k) = None
      /\ Told(r, k)' = IF v = "failed" THEN None ELSE said
  BY ToldNow
<1>3. \A s \in Requests \ {r} : \A n : Told(s, n)' = Told(s, n)
  <2>1. TypeOK /\ Moves(r)
    BY <1>1 DEF RequestInv, Stays
  <2>2. ASSUME NEW s \in Requests \ {r} PROVE req'[s] = req[s] /\ Delivery(s)' = Delivery(s)
    BY <2>1, <2>2 DEF Moves, Delivery, Body
  <2> QED BY <2>2 DEF Told
<1>4. CASE v = "failed"
  <2>1. \A s \in Requests : \A n \in 1..MaxItems : Told(s, n)' = Told(s, n)
    BY <1>2, <1>3, <1>4
  <2> QED BY <1>1, <1>4, <2>1, TellingsSame
<1>5. CASE v # "failed"
  <2> DEFINE d == <<r, k>>
             Ds == Requests \X (1..MaxItems)
  <2>1. d \in Ds /\ d[1] = r /\ d[2] = k
    BY <1>1
  <2>2. said # None
    <3>1. said \in [id : EventIds, payload : Payloads, verdict : Verdicts]
      BY <1>1
    <3> HIDE DEF said
    <3> QED BY <3>1, NoneAssumption
  <2>3. Told(d[1], d[2]) = None /\ Told(d[1], d[2])' = said
    BY <1>2, <1>5, <2>1
  <2>4. ASSUME NEW x \in Ds, x # d PROVE Told(x[1], x[2])' = Told(x[1], x[2])
    <3>1. PICK s \in Requests, n \in 1..MaxItems : x = <<s, n>>
      BY <2>4
    <3>2. s # r \/ n # k
      BY <2>4, <3>1
    <3>3. Told(s, n)' = Told(s, n)
      BY <1>2, <1>3, <3>2
    <3> QED BY <3>1, <3>3
  <2> HIDE DEF d, said
  <2>5. Tellings[d] = None /\ Tellings'[d] = said /\ Tellings' = [Tellings EXCEPT ![d] = said]
    BY <2>1, <2>3, <2>4 DEF Tellings
  <2>6. Log!Speaks(d)
    BY <2>2, <2>5 DEF Log!Speaks, Tellings
  <2>7. CASE v = "accepted"
    <3>1. Log!Tell(d, e, hash, "accepted")
      BY <2>5, <2>7 DEF Log!Tell, Tellings, said
    <3>2. Log!Accept(d, e, hash)
      BY <1>1, <2>7, <3>1 DEF Log!Accept
    <3> QED BY <1>1, <2>1, <2>6, <3>2 DEF Log!Next
  <2>8. CASE v \in {"duplicate", "conflict"}
    <3>1. Log!Tell(d, e, hash, IF event[e] = hash THEN "duplicate" ELSE "conflict")
      BY <1>1, <2>5, <2>8 DEF Log!Tell, Tellings, said
    <3>2. Log!Refuse(d, e, hash)
      BY <1>1, <2>8, <3>1 DEF Log!Refuse
    <3> QED BY <1>1, <2>1, <2>6, <3>2 DEF Log!Next
  <2> QED BY <1>5, <2>7, <2>8 DEF Verdicts
<1> QED BY <1>4, <1>5

LEMMA LogSteps ==
  ASSUME Inv, Next
  PROVE  Log!Next \/ UNCHANGED <<event, Tellings>>
<1>1. RequestInv /\ EventJobsAreTheirs /\ TypeOK /\ InOrder /\ Placed
  BY DEF Inv, JobInv, RequestInv
<1>2. ASSUME NEW j \in DOMAIN job, Works(j) PROVE UNCHANGED <<event, Tellings>>
  <2>1. req' = req /\ event' = event
    BY <1>2, WorksIs
  <2>2. \A s : \A n : Told(s, n)' = Told(s, n)
    BY <2>1 DEF Told, Delivery, Body
  <2> QED BY <2>1, <2>2, TellingsSame
<1>3. ASSUME NEW r \in Requests, Acts(r), \A v \in Verdicts : ~Hears(r, v)
      PROVE  UNCHANGED <<event, Tellings>>
  <2>1. Moves(r)
    BY <1>1, <1>3, RequestsKept
  <2>2. ASSUME NEW s \in Requests, s # r PROVE \A n : Told(s, n)' = Told(s, n)
    <3>1. req'[s] = req[s]
      BY <2>1, <2>2 DEF Moves
    <3>2. Delivery(s)' = Delivery(s)
      BY <3>1 DEF Delivery, Body
    <3> QED BY <3>1, <3>2 DEF Told
  <2>3. ASSUME NEW n \in 1..MaxItems PROVE Told(r, n)' = Told(r, n)
    <3>1. CASE Begins(r)
      <4>1. Told(r, n) = None
        BY <3>1 DEF Begins, Busy, Told
      <4>2. n > Len(req'[r].results)
        BY <3>1 DEF Begins
      <4> QED BY <4>1, <4>2 DEF Told
    <3>2. CASE Sorts(r)
      <4>1. req[r].pc = "classify" /\ req'[r].pc = "findJob" /\ req'[r].body = req[r].body
            /\ Body(r).via = "compilation"
        BY <1>1, <3>2 DEF Sorts, OnlyChanges, Placed
      <4> QED BY <4>1, ToldSame
    <3>3. CASE Tables(r)
      <4>1. Quiet(r)
        BY <1>1, <3>3, Quieting DEF Tables
      <4> QED BY <4>1, ToldSame DEF Quiet, Stays, Busy, OnlyChanges
    <3> QED BY <1>3, <3>1, <3>2, <3>3 DEF Acts
  <2>4. event' = event
    <3>1. CASE Tables(r)
      BY <1>1, <3>1, Quieting DEF Tables, Quiet
    <3> QED BY <1>3, <3>1 DEF Acts, Begins, Sorts
  <2> QED BY <2>2, <2>3, <2>4, TellingsSame
<1> QED BY <1>1, <1>2, <1>3, NextIs, LogTells

\* Intake implements the event log: by whatever paths the deliveries of one identity
\* come, one stores its payload, and the others are told truly whether theirs is the
\* same (insertEvent, persistNormalizedEvent and resolveReplay).
THEOREM IntakeKeepsTheLog == Spec => KeepsEventLog
<1>1. Init => Log!Init
  BY LogStarts
<1>2. Inv /\ [Next]_vars => [Log!Next]_<<event, Tellings>>
  <2>1. ASSUME UNCHANGED vars PROVE UNCHANGED <<event, Tellings>>
    <3>1. req' = req /\ event' = event
      BY <2>1 DEF vars
    <3>2. \A s : \A n : Told(s, n)' = Told(s, n)
      BY <3>1 DEF Told, Delivery, Body
    <3> QED BY <3>1, <3>2, TellingsSame
  <2> QED BY <2>1, LogSteps
<1>3. [][Log!Next]_<<event, Tellings>> /\ Log!Init => KeepsEventLog
  BY DEF KeepsEventLog, Log!Spec, Tellings
<1> QED BY <1>1, <1>2, <1>3, Invariant, PTL DEF Spec
=============================================================================
