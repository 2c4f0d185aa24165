------------------------------ MODULE Concepts ------------------------------
(***************************************************************************)
(* The pages of one project: workers that compile events create pages or   *)
(* merge into them, an owner purges the project, and readers assemble      *)
(* pages.                                                                  *)
(*                                                                         *)
(* One action is one statement against Postgres with the code up to the    *)
(* next await.  Transactions run READ COMMITTED: a statement reads what    *)
(* has been committed, a row a transaction has written stays locked until  *)
(* its end, and what it wrote shows when it commits.  A page is a row of   *)
(* concepts; its body stands for the event that wrote it, and its          *)
(* last_confirmed for the event that set it.  Title, status, tags and      *)
(* embedding are overwritten with the body and are not kept.  The language *)
(* model's answers are choices over what its schema lets through, made     *)
(* where they are first used.                                              *)
(***************************************************************************)
EXTENDS Naturals, FiniteSets

CONSTANTS
  Workers,
  Events,
  Paths,        \* the paths the extraction may name
  Facts,        \* fingerprints of evidence
  Principals,
  Cites,        \* [Events -> SUBSET Facts]: the evidence an event carries
  Author,       \* [Events -> Principals or None]: its trusted contributor
  None,
  MaxRuns,      \* bound: compilations of an event, the repeated ones included
  MaxPurges,    \* bound: purges started
  MaxCrashes    \* bound: crashes of a worker or of the server

ASSUME EventsAssumption ==
  /\ Cites \in [Events -> SUBSET Facts]
  /\ \A e \in Events : Cites[e] # {} \* toConcept returns null without evidence
  /\ Author \in [Events -> Principals \union {None}]
ASSUME BoundsAssumption ==
  {MaxRuns, MaxPurges, MaxCrashes} \subseteq Nat

Pages == 1..MaxRuns  \* uuids, in the order of their creation
Relationships == {"confirms", "extends", "contradicts"}

VARIABLES
  concept,      \* rows of concepts: a function on some of Pages
  path,         \* rows of concept_paths: a function from taken paths to pages
  evidence,     \* rows of concept_evidence: <<page, fact, how many such rows before>>
  contributor,  \* rows of concept_contributors: <<page, principal>>
  outcome,      \* rows of job_events: a function on events not purged
  created,      \* pages ever created
  worker,       \* what each worker is doing
  purge,        \* what the purge is doing
  reader,       \* what the reader is doing
  runs, purges, committed, audits, crashes

tables == <<concept, path, evidence, contributor, created>>
counts == <<runs, purges, committed, audits, crashes>>
vars == <<tables, outcome, worker, purge, reader, counts>>

Outcome(status, page) == [status |-> status, page |-> page]
FreeWorker ==
  [pc |-> "free", event |-> None, target |-> 0, confirms |-> FALSE,
   confirmed |-> None, fresh |-> {}]
NoPurge ==
  [pc |-> "idle", contributors |-> {}, evidence |-> {}, paths |-> {}, concepts |-> {}]
NoReader ==
  [pc |-> "idle", page |-> 0, body |-> None, paths |-> {}, facts |-> {}, since |-> 0]

Init ==
  /\ concept = << >>
  /\ path = << >>
  /\ evidence = {}
  /\ contributor = {}
  /\ outcome = [e \in Events |-> Outcome("pending", 0)]
  /\ created = 0
  /\ worker = [w \in Workers |-> FreeWorker]
  /\ purge = NoPurge
  /\ reader = NoReader
  /\ runs = 0 /\ purges = 0 /\ committed = 0 /\ audits = 0 /\ crashes = 0

----------------------------------------------------------------------------
(* Rows and locks                                                           *)

Without(f, S) == [x \in DOMAIN f \ S |-> f[x]]
With(f, x, v) == [y \in DOMAIN f \union {x} |-> IF y = x THEN v ELSE f[y]]

FactsOf(c) == {row[2] : row \in {r \in evidence : r[1] = c}}
Rows(c, facts) ==
  {<<c, f, Cardinality({r \in evidence : r[1] = c /\ r[2] = f})>> : f \in facts}

\* Between its UPDATE and its commit a merge holds the row of its target.
Holds(w, c) == worker[w].pc \in {"dedup", "append"} /\ worker[w].target = c

Goto(w, pc) == worker' = [worker EXCEPT ![w].pc = pc]
KeepTables == UNCHANGED tables
KeepOthers == UNCHANGED <<purge, reader, counts>>

----------------------------------------------------------------------------
(* A worker compiles an event                                               *)

\* A job delivered, delivered again or retried: the event is not yet compiled
\* as far as its row says.
Take(w, e) ==
  /\ worker[w].pc = "free"
  /\ e \in DOMAIN outcome
  /\ outcome[e].status \in {"pending", "failed"}
  /\ runs < MaxRuns
  /\ runs' = runs + 1
  /\ worker' = [worker EXCEPT ![w] = [FreeWorker EXCEPT !.pc = "extract", !.event = e]]
  /\ KeepTables
  /\ UNCHANGED <<outcome, purge, reader, purges, committed, audits, crashes>>

\* Neither the prefilter nor the model finds knowledge in the event.
Skip(w) ==
  /\ worker[w].pc = "extract"
  /\ Goto(w, "skipped")
  /\ KeepTables
  /\ KeepOthers
  /\ UNCHANGED outcome

\* The extraction, its embedding, the recall or the decision throws.
ModelFails(w) ==
  /\ worker[w].pc \in {"extract", "decide"}
  /\ Goto(w, "failed")
  /\ KeepTables
  /\ KeepOthers
  /\ UNCHANGED outcome

\* Recall finds some of the pages there are, or none.
Recall(w) ==
  /\ worker[w].pc = "extract"
  /\ \/ Goto(w, "create")
     \/ concept # << >> /\ Goto(w, "decide")
  /\ KeepTables
  /\ KeepOthers
  /\ UNCHANGED outcome

\* The model, shown the candidates as they were read, calls the event
\* unrelated to them or has it merged.
DecideMerge(w) ==
  /\ worker[w].pc = "decide"
  /\ Goto(w, "create") \/ Goto(w, "target")
  /\ KeepTables
  /\ KeepOthers
  /\ UNCHANGED outcome

\* One transaction.  A path that a purge is deleting makes the insert wait.
CreateConcept(w) ==
  LET e == worker[w].event
      c == created + 1
  IN
  /\ worker[w].pc = "create"
  /\ \E p \in Paths \ purge.paths :
       IF p \in DOMAIN path
       THEN Goto(w, "failed") /\ UNCHANGED tables \* concept_paths_namespace_uq
       ELSE /\ created' = c
            /\ concept' = With(concept, c, [body |-> e, confirmed |-> e])
            /\ path' = With(path, p, c)
            /\ evidence' = evidence \union Rows(c, Cites[e])
            /\ contributor' = contributor \union ({<<c, Author[e]>>} \ {<<c, None>>})
            /\ worker' = [worker EXCEPT ![w].pc = "compiled", ![w].target = c]
  /\ UNCHANGED outcome
  /\ KeepOthers

\* mergeIntoConcept looks up its target, which may be any page the model names,
\* and settles the last_confirmed it will write.
FindTarget(w) ==
  /\ worker[w].pc = "target"
  /\ \E c \in Pages, r \in Relationships :
       IF c \notin DOMAIN concept
       THEN Goto(w, "failed")
       ELSE worker' = [worker EXCEPT
              ![w].pc = "update",
              ![w].target = c,
              ![w].confirms = (r = "confirms"),
              ![w].confirmed = IF r = "confirms" THEN worker[w].event ELSE concept[c].confirmed]
  /\ KeepTables
  /\ KeepOthers
  /\ UNCHANGED outcome

\* Mutant: the evidence is compared without the row being held.
UpdateConcept_NoLock(w) ==
  /\ worker[w].pc = "update"
  /\ worker[w].target \notin purge.concepts
  /\ Goto(w, "dedup")
  /\ KeepTables
  /\ KeepOthers
  /\ UNCHANGED outcome

\* The UPDATE waits for whoever holds the row.  It may find the row gone.
UpdateConcept(w) ==
  LET c == worker[w].target IN
  /\ worker[w].pc = "update"
  /\ \A v \in Workers : ~Holds(v, c)
  /\ c \notin purge.concepts
  /\ Goto(w, "dedup")
  /\ KeepTables
  /\ KeepOthers
  /\ UNCHANGED outcome

\* Mutant: compared with the evidence of the project.
DedupEvidence_Anywhere(w) ==
  /\ worker[w].pc = "dedup"
  /\ worker' = [worker EXCEPT ![w].pc = "append",
                              ![w].fresh = Cites[worker[w].event] \ {r[2] : r \in evidence}]
  /\ KeepTables
  /\ KeepOthers
  /\ UNCHANGED outcome

\* The page's evidence is read, and what it has already is left out.
DedupEvidence(w) ==
  /\ worker[w].pc = "dedup"
  /\ worker' = [worker EXCEPT ![w].pc = "append",
                              ![w].fresh = Cites[worker[w].event] \ FactsOf(worker[w].target)]
  /\ KeepTables
  /\ KeepOthers
  /\ UNCHANGED outcome

\* The merged row, written by the UPDATE and shown by the commit.
Merged(w) == [body |-> worker[w].event, confirmed |-> worker[w].confirmed]

\* Mutant: the row is committed before the evidence.
AppendEvidence_Split(w) ==
  LET c == worker[w].target IN
  /\ c \in DOMAIN concept
  /\ \/ /\ worker[w].pc = "append"
        /\ concept' = With(concept, c, Merged(w))
        /\ Goto(w, "append2")
        /\ UNCHANGED evidence
     \/ /\ worker[w].pc = "append2"
        /\ evidence' = evidence \union Rows(c, worker[w].fresh)
        /\ Goto(w, "compiled")
        /\ UNCHANGED concept
  /\ UNCHANGED <<path, contributor, created, outcome>>
  /\ KeepOthers

\* The inserts and the commit.  A contributor that a purge is deleting makes
\* the insert wait; without its page it is refused (concept_evidence_concept_fk).
AppendEvidence(w) ==
  LET c == worker[w].target
      by == {<<c, Author[worker[w].event]>>} \ {<<c, None>>}
  IN
  /\ worker[w].pc = "append"
  /\ by \intersect purge.contributors = {}
  /\ IF c \in DOMAIN concept
     THEN /\ concept' = With(concept, c, Merged(w))
          /\ evidence' = evidence \union Rows(c, worker[w].fresh)
          /\ contributor' = contributor \union by
          /\ Goto(w, "compiled")
          /\ UNCHANGED <<path, created>>
     ELSE /\ Goto(w, IF worker[w].fresh \union by = {} THEN "compiled" ELSE "failed")
          /\ UNCHANGED tables
  /\ UNCHANGED outcome
  /\ KeepOthers

\* The row of the event, upserted; refused when the purge took event and job.
Settle(w) ==
  /\ worker[w].pc \in {"compiled", "skipped", "failed"}
  /\ outcome' = [e \in DOMAIN outcome |->
                   IF e = worker[w].event
                   THEN Outcome(worker[w].pc, worker[w].target)
                   ELSE outcome[e]]
  /\ worker' = [worker EXCEPT ![w] = FreeWorker]
  /\ KeepTables
  /\ KeepOthers

\* The transaction, if one is open, is rolled back; the job is delivered again.
WorkerCrashes(w) ==
  /\ worker[w].pc # "free"
  /\ crashes < MaxCrashes
  /\ crashes' = crashes + 1
  /\ worker' = [worker EXCEPT ![w] = FreeWorker]
  /\ KeepTables
  /\ UNCHANGED <<outcome, purge, reader, runs, purges, committed, audits>>

----------------------------------------------------------------------------
(* An owner purges the project                                              *)

PurgeStep(from, to, field, rows) ==
  /\ purge.pc = from
  /\ purge' = [purge EXCEPT !.pc = to, ![field] = rows]
  /\ KeepTables
  /\ UNCHANGED <<outcome, worker, reader>>

\* Mutant: the record is written before the transaction.
DeleteContributors_AuditsFirst ==
  /\ purges < MaxPurges
  /\ purges' = purges + 1
  /\ audits' = audits + 1
  /\ PurgeStep("idle", "evidence", "contributors", contributor)
  /\ UNCHANGED <<runs, committed, crashes>>

\* One transaction: what it deletes shows when it commits.
DeleteContributors ==
  /\ purges < MaxPurges
  /\ purges' = purges + 1
  /\ PurgeStep("idle", "evidence", "contributors", contributor)
  /\ UNCHANGED <<runs, committed, audits, crashes>>

DeleteEvidence ==
  /\ PurgeStep("evidence", "paths", "evidence", evidence)
  /\ UNCHANGED counts

DeletePaths ==
  /\ PurgeStep("paths", "concepts", "paths", DOMAIN path)
  /\ UNCHANGED counts

Rollback == purge' = NoPurge

\* Waits for the merges that hold a page; refused when a page gained a row
\* that the statements before did not see.
DeleteConcepts ==
  /\ purge.pc = "concepts"
  /\ \A w \in Workers, c \in DOMAIN concept : ~Holds(w, c)
  /\ IF /\ contributor \subseteq purge.contributors
        /\ evidence \subseteq purge.evidence
        /\ DOMAIN path \subseteq purge.paths
     THEN purge' = [purge EXCEPT !.pc = "jobs", !.concepts = DOMAIN concept]
     ELSE Rollback
  /\ KeepTables
  /\ UNCHANGED <<outcome, worker, reader, counts>>

\* Mutant: the outcomes of the jobs are kept.
DeleteJobs_KeepsOutcomes ==
  /\ purge.pc = "jobs"
  /\ concept' = Without(concept, purge.concepts)
  /\ path' = Without(path, purge.paths)
  /\ evidence' = evidence \ purge.evidence
  /\ contributor' = contributor \ purge.contributors
  /\ committed' = committed + 1
  /\ purge' = [NoPurge EXCEPT !.pc = "audit"]
  /\ UNCHANGED <<outcome, created, worker, reader, runs, purges, audits, crashes>>

\* job_events, jobs and events, and the commit.
DeleteJobs ==
  /\ purge.pc = "jobs"
  /\ concept' = Without(concept, purge.concepts)
  /\ path' = Without(path, purge.paths)
  /\ evidence' = evidence \ purge.evidence
  /\ contributor' = contributor \ purge.contributors
  /\ outcome' = << >>
  /\ committed' = committed + 1
  /\ purge' = [NoPurge EXCEPT !.pc = "audit"]
  /\ UNCHANGED <<created, worker, reader, runs, purges, audits, crashes>>

\* The audit record is written after the commit, or its write fails.
WriteAudit ==
  /\ purge.pc = "audit"
  /\ audits' \in {audits, audits + 1}
  /\ purge' = NoPurge
  /\ KeepTables
  /\ UNCHANGED <<outcome, worker, reader, runs, purges, committed, crashes>>

\* The server dies; an open transaction is rolled back, an audit never written.
PurgeCrashes ==
  /\ purge.pc # "idle"
  /\ crashes < MaxCrashes
  /\ crashes' = crashes + 1
  /\ Rollback
  /\ KeepTables
  /\ UNCHANGED <<outcome, worker, reader, runs, purges, committed, audits>>

\* A merge holds the page the purge waits for, and waits for a contributor the
\* purge has deleted: Postgres aborts one of the two.
Entangled(w) ==
  /\ worker[w].pc = "append"
  /\ <<worker[w].target, Author[worker[w].event]>> \in purge.contributors
  /\ purge.pc = "concepts"

DeadlockDetected(w) ==
  /\ Entangled(w)
  /\ \/ Goto(w, "failed") /\ UNCHANGED purge
     \/ Rollback /\ UNCHANGED worker
  /\ KeepTables
  /\ UNCHANGED <<outcome, reader, counts>>

----------------------------------------------------------------------------
(* A reader assembles a page                                                *)

\* getConceptByPath and getConceptByUuid.
ReadPath ==
  /\ reader.pc = "idle"
  /\ \E p \in DOMAIN path :
       reader' = [reader EXCEPT !.pc = "row", !.page = path[p], !.since = committed]
  /\ KeepTables
  /\ UNCHANGED <<outcome, worker, purge, counts>>

ReadRow ==
  /\ reader.pc = "row"
  /\ reader' = IF reader.page \in DOMAIN concept
               THEN [reader EXCEPT !.pc = "paths", !.body = concept[reader.page].body]
               ELSE NoReader \* not found
  /\ KeepTables
  /\ UNCHANGED <<outcome, worker, purge, counts>>

\* assembleConcept: paths, then evidence; the contributors after it are not kept.
ReadPaths ==
  /\ reader.pc = "paths"
  /\ reader' = [reader EXCEPT !.pc = "evidence",
                              !.paths = {p \in DOMAIN path : path[p] = reader.page}]
  /\ KeepTables
  /\ UNCHANGED <<outcome, worker, purge, counts>>

ReadEvidence ==
  /\ reader.pc = "evidence"
  /\ reader' = [reader EXCEPT !.pc = "answered", !.facts = FactsOf(reader.page)]
  /\ KeepTables
  /\ UNCHANGED <<outcome, worker, purge, counts>>

\* The page is sent.
Answer ==
  /\ reader.pc = "answered"
  /\ reader' = NoReader
  /\ KeepTables
  /\ UNCHANGED <<outcome, worker, purge, counts>>

----------------------------------------------------------------------------

\* Nothing is left to do within the bounds.
Done ==
  /\ \A w \in Workers : worker[w].pc = "free"
  /\ purge.pc = "idle"
  /\ UNCHANGED vars

Compile(w) ==
  \/ \E e \in Events : Take(w, e)
  \/ Skip(w)
  \/ ModelFails(w)
  \/ Recall(w)
  \/ DecideMerge(w)
  \/ CreateConcept(w)
  \/ FindTarget(w)
  \/ UpdateConcept(w)
  \/ DedupEvidence(w)
  \/ AppendEvidence(w)
  \/ Settle(w)
  \/ WorkerCrashes(w)
  \/ DeadlockDetected(w)
Purge ==
  DeleteContributors \/ DeleteEvidence \/ DeletePaths \/ DeleteConcepts
  \/ DeleteJobs \/ WriteAudit \/ PurgeCrashes
Read == ReadPath \/ ReadRow \/ ReadPaths \/ ReadEvidence \/ Answer

Next == (\E w \in Workers : Compile(w)) \/ Purge \/ Read \/ Done
Spec == Init /\ [][Next]_vars

----------------------------------------------------------------------------
(* Properties                                                               *)

TypeOK ==
  /\ DOMAIN concept \subseteq 1..created /\ created \in Nat
  /\ \A c \in DOMAIN concept :
       concept[c] \in [body : Events, confirmed : Events]
  /\ DOMAIN path \subseteq Paths
  /\ \A row \in evidence : row \in Pages \X Facts \X Nat
  /\ contributor \subseteq Pages \X Principals
  /\ \A e \in DOMAIN outcome :
       outcome[e].status \in {"pending", "compiled", "skipped", "failed"}
  /\ \A w \in Workers : worker[w].target \in {0} \union Pages
  /\ purge.concepts \subseteq Pages

\* No evidence stands twice on a page, although no constraint forbids it, two
\* workers may merge into the page at once, and an event may be merged again
\* after a crash: the comparison comes after the UPDATE that locks the page.
EvidenceUnique == \A row \in evidence : row[3] = 0

\* Whoever last wrote a page's text, the evidence it was written from stands on
\* the page: the text and its evidence become visible together.
BodyIsSupported ==
  \A c \in DOMAIN concept : Cites[concept[c].body] \subseteq FactsOf(c)

\* Every page can be found, and only pages can: a page has exactly one path,
\* and nothing refers to a page a purge has taken, whatever ran beside it.
PageIsWhole ==
  /\ \A c \in DOMAIN concept : Cardinality({p \in DOMAIN path : path[p] = c}) = 1
  /\ \A p \in DOMAIN path : path[p] \in DOMAIN concept
  /\ \A row \in evidence \union contributor : row[1] \in DOMAIN concept

\* The page an outcome names is there: a purge takes both or neither.
CompiledHasPage ==
  \A e \in DOMAIN outcome :
    outcome[e].status = "compiled" => outcome[e].page \in DOMAIN concept

\* A reader, who reads row, paths and evidence one after the other, is never
\* shown a text without its evidence or its path while no purge commits.
AnswerIsSupported ==
  reader.pc = "answered" /\ reader.since = committed =>
    Cites[reader.body] \subseteq reader.facts /\ Cardinality(reader.paths) = 1

\* A purge is all or nothing, and nothing else removes knowledge: no page, path,
\* evidence or contributor is lost except in the step that commits a purge.
OnlyPurgeForgets ==
  [][committed' = committed =>
       /\ DOMAIN concept \subseteq DOMAIN concept'
       /\ \A p \in DOMAIN path : p \in DOMAIN path' /\ path'[p] = path[p]
       /\ evidence \subseteq evidence'
       /\ contributor \subseteq contributor']_vars

\* A purge that is on record has happened; not every one is on record.
AuditedPurgesHappened == audits <= committed

\* What mergeIntoConcept's comment promises: last_confirmed changes only when
\* the merge confirms.  An extending merge writes back the value it read before
\* it waited for the row.
FreshnessOnlyByConfirmation ==
  [][\A c \in DOMAIN concept :
       c \in DOMAIN concept' /\ concept'[c].confirmed # concept[c].confirmed =>
         \E w \in Workers : /\ worker[w].pc = "append"
                            /\ worker'[w].pc = "compiled"
                            /\ worker[w].confirms]_vars
=============================================================================
