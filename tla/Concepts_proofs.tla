--------------------------- MODULE Concepts_proofs ---------------------------
(***************************************************************************)
(* What holds of the pages of a project for any workers, events, paths and *)
(* evidence.  One invariant serves all theorems, because each part needs   *)
(* the others: evidence is unique because a merge that has compared it     *)
(* still holds its page; a purge takes pages whole because it began when   *)
(* nobody held one; a reader sees what the tables keep whole.              *)
(***************************************************************************)
EXTENDS Concepts, FiniteSetTheorems, TLAPS

WorkerPc == {"free", "extract", "decide", "create", "target", "update", "dedup",
             "append", "compiled", "skipped", "failed"}
WorkerState ==
  [pc : WorkerPc, event : Events \union {None}, target : Nat, confirms : BOOLEAN,
   confirmed : Events \union {None}, fresh : SUBSET Facts]
EvidenceRows == Nat \X Facts \X Nat
ContributorRows == Nat \X Principals
PurgeState ==
  [pc : {"idle", "evidence", "paths", "concepts", "jobs", "audit"},
   contributors : SUBSET ContributorRows, evidence : SUBSET EvidenceRows,
   paths : SUBSET Paths, concepts : SUBSET Nat]
ReaderState ==
  [pc : {"idle", "row", "paths", "evidence", "answered"}, page : Nat,
   body : Events \union {None}, paths : SUBSET Paths, facts : SUBSET Facts, since : Nat]

----------------------------------------------------------------------------
(* The invariant                                                            *)

\* The tables: every row is of a page, every page has one path.
TablesOK ==
  /\ created \in Nat
  /\ DOMAIN concept \subseteq 1..created
  /\ \A c \in DOMAIN concept : concept[c] \in [body : Events, confirmed : Events]
  /\ DOMAIN path \subseteq Paths
  /\ evidence \subseteq EvidenceRows
  /\ contributor \subseteq ContributorRows
Kept ==
  /\ \A row \in evidence : row[1] \in DOMAIN concept
  /\ \A row \in contributor : row[1] \in DOMAIN concept
Found ==
  /\ \A p \in DOMAIN path : path[p] \in DOMAIN concept
  /\ \A p, q \in DOMAIN path : path[p] = path[q] => p = q
  /\ \A c \in DOMAIN concept : \E p \in DOMAIN path : path[p] = c

\* A worker: what it compiles, the page it goes for, and, once it has compared
\* the evidence, that its comparison still holds.
Holding(x) == x.pc \in {"dedup", "append"}
Compared(x) ==
  x.pc = "append" =>
    /\ x.fresh \intersect FactsOf(x.target) = {}
    /\ x.target \in DOMAIN concept => Cites[x.event] \subseteq FactsOf(x.target) \union x.fresh
WorkerOK(x) ==
  /\ x \in WorkerState
  /\ x.pc # "free" => x.event \in Events
  /\ x.pc \in {"update", "dedup", "append", "compiled"} => x.target \in 1..created
  /\ x.pc \in {"update", "dedup", "append"} => x.confirmed \in Events
  /\ Compared(x)
WorkersOK ==
  /\ worker \in [Workers -> WorkerState]
  /\ \A w \in Workers : WorkerOK(worker[w])

\* Two merges never hold one page.
Exclusive ==
  \A v, w \in Workers :
    Holding(worker[v]) /\ Holding(worker[w]) /\ worker[v].target = worker[w].target => v = w

\* A purge: what it has deleted was there, and once it has deleted the pages it
\* has all that belongs to them, nothing of any other, and nobody holds one.
PurgeOK ==
  /\ purge \in PurgeState
  /\ purge.concepts \subseteq 1..created
  /\ \A row \in purge.evidence : row[1] \in 1..created
  /\ \A row \in purge.contributors : row[1] \in 1..created
Apart ==
  purge.pc = "jobs" =>
    /\ \A c \in DOMAIN concept \ purge.concepts :
         /\ \A row \in purge.evidence : row[1] # c
         /\ \A row \in purge.contributors : row[1] # c
    /\ \A p \in DOMAIN path : path[p] \in purge.concepts <=> p \in purge.paths
    /\ \A row \in evidence : row[1] \in purge.concepts => row \in purge.evidence
    /\ \A row \in contributor : row[1] \in purge.concepts => row \in purge.contributors
    /\ \A w \in Workers : Holding(worker[w]) => worker[w].target \notin purge.concepts

\* Until a purge commits every page ever created is there; it then takes the
\* outcomes as well.
OutcomesOK ==
  /\ DOMAIN outcome # {} => DOMAIN concept = 1..created
  /\ \A e \in DOMAIN outcome : outcome[e].status = "compiled" => outcome[e].page \in 1..created

\* A reader: while no purge has committed, what it has read belongs to the page.
ReaderOK ==
  /\ reader \in ReaderState
  /\ reader.since <= committed
  /\ reader.since = committed =>
       /\ reader.pc # "idle" => reader.page \in DOMAIN concept
       /\ reader.pc \in {"paths", "evidence", "answered"} =>
            reader.body \in Events /\ Cites[reader.body] \subseteq FactsOf(reader.page)
       /\ reader.pc \in {"evidence", "answered"} => Cardinality(reader.paths) = 1
       /\ reader.pc = "answered" => Cites[reader.body] \subseteq reader.facts

\* An audit record is owed to a purge that has committed.
AuditsOK ==
  /\ committed \in Nat /\ audits \in Nat
  /\ audits + (IF purge.pc = "audit" THEN 1 ELSE 0) <= committed

Inv ==
  /\ TablesOK /\ Kept /\ Found /\ EvidenceUnique /\ BodyIsSupported
  /\ WorkersOK /\ Exclusive
  /\ PurgeOK /\ Apart
  /\ OutcomesOK /\ ReaderOK /\ AuditsOK

----------------------------------------------------------------------------
(* Rows                                                                     *)

\* Rows for evidence a page does not have are the first of their kind.
LEMMA RowsAreFirst ==
  ASSUME NEW c, NEW F, F \intersect FactsOf(c) = {}
  PROVE  Rows(c, F) = {<<c, f, 0>> : f \in F}
<1>1. ASSUME NEW f \in F
      PROVE  Cardinality({r \in evidence : r[1] = c /\ r[2] = f}) = 0
  <2>1. {r \in evidence : r[1] = c /\ r[2] = f} = {}
    BY DEF FactsOf
  <2> QED BY <2>1, FS_EmptySet
<1> QED BY <1>1 DEF Rows

LEMMA FactsGrow ==
  ASSUME NEW c, NEW F, evidence' = evidence \union {<<c, f, 0>> : f \in F}
  PROVE  /\ FactsOf(c)' = FactsOf(c) \union F
         /\ \A d : d # c => FactsOf(d)' = FactsOf(d)
<1> DEFINE New == {<<c, f, 0>> : f \in F}
<1>1. \A r \in New : r[1] = c /\ r[2] \in F
  OBVIOUS
<1>2. \A f \in F : \E r \in New : r[1] = c /\ r[2] = f
  <2> TAKE f \in F
  <2> WITNESS <<c, f, 0>> \in New
  <2> QED OBVIOUS
<1>3. evidence' = evidence \union New
  OBVIOUS
<1> HIDE DEF New
<1>4. FactsOf(c)' = FactsOf(c) \union F
  BY <1>1, <1>2, <1>3 DEF FactsOf
<1>5. ASSUME NEW d, d # c PROVE FactsOf(d)' = FactsOf(d)
  BY <1>1, <1>3, <1>5 DEF FactsOf
<1> QED BY <1>4, <1>5

----------------------------------------------------------------------------
(* Steps that leave the tables alone                                        *)

\* One worker moves on.
LEMMA WorkerMoves ==
  ASSUME Inv, NEW w \in Workers, NEW x,
         worker' = [worker EXCEPT ![w] = x], WorkerOK(x),
         Holding(x) =>
           /\ \A v \in Workers \ {w} : Holding(worker[v]) => worker[v].target # x.target
           /\ purge.pc = "jobs" => x.target \notin purge.concepts,
         UNCHANGED <<tables, purge, reader, committed, audits>>,
         OutcomesOK'
  PROVE  Inv'
<1>1. UNCHANGED <<concept, path, evidence, contributor, created>>
  BY DEF tables
<1>2. \A v \in Workers : worker'[v] = IF v = w THEN x ELSE worker[v]
  BY DEF Inv, WorkersOK
<1>3. (TablesOK /\ Kept /\ Found /\ EvidenceUnique)'
  BY <1>1 DEF Inv, TablesOK, Kept, Found, EvidenceUnique
<1>4. BodyIsSupported'
  BY <1>1 DEF Inv, BodyIsSupported, FactsOf
<1>5. WorkersOK'
  <2>1. \A v \in Workers : WorkerOK(worker'[v])
    BY <1>2 DEF Inv, WorkersOK
  <2>2. \A v \in Workers : WorkerOK(worker[v])'
    BY <2>1, <1>1 DEF WorkerOK, Compared, FactsOf
  <2>3. worker' \in [Workers -> WorkerState]
    BY DEF Inv, WorkersOK, WorkerOK
  <2> QED BY <2>2, <2>3 DEF WorkersOK
<1>6. Exclusive'
  BY <1>2 DEF Inv, Exclusive
<1>7. PurgeOK' /\ Apart'
  BY <1>1, <1>2 DEF Inv, PurgeOK, Apart
<1>8. ReaderOK' /\ AuditsOK'
  BY <1>1 DEF Inv, ReaderOK, AuditsOK, FactsOf
<1> QED BY <1>3, <1>4, <1>5, <1>6, <1>7, <1>8 DEF Inv

\* The purge moves on.
LEMMA PurgeMoves ==
  ASSUME Inv, UNCHANGED <<tables, outcome, worker, reader, committed>>,
         PurgeOK', Apart', AuditsOK'
  PROVE  Inv'
<1>1. UNCHANGED <<concept, path, evidence, contributor, created>>
  BY DEF tables
<1>2. (TablesOK /\ Kept /\ Found /\ EvidenceUnique /\ BodyIsSupported)'
  BY <1>1 DEF Inv, TablesOK, Kept, Found, EvidenceUnique, BodyIsSupported, FactsOf
<1>3. WorkersOK'
  BY <1>1 DEF Inv, WorkersOK, WorkerOK, Compared, FactsOf
<1>4. (Exclusive /\ OutcomesOK /\ ReaderOK)'
  BY <1>1 DEF Inv, Exclusive, OutcomesOK, ReaderOK, FactsOf
<1> QED BY <1>2, <1>3, <1>4 DEF Inv

\* The reader moves on.
LEMMA ReaderMoves ==
  ASSUME Inv, UNCHANGED <<tables, outcome, worker, purge, counts>>, ReaderOK'
  PROVE  Inv'
<1>1. UNCHANGED <<concept, path, evidence, contributor, created, committed, audits>>
  BY DEF tables, counts
<1>2. (TablesOK /\ Kept /\ Found /\ EvidenceUnique /\ BodyIsSupported)'
  BY <1>1 DEF Inv, TablesOK, Kept, Found, EvidenceUnique, BodyIsSupported, FactsOf
<1>3. WorkersOK'
  BY <1>1 DEF Inv, WorkersOK, WorkerOK, Compared, FactsOf
<1>4. (Exclusive /\ PurgeOK /\ Apart /\ OutcomesOK /\ AuditsOK)'
  BY <1>1 DEF Inv, Exclusive, PurgeOK, Apart, OutcomesOK, AuditsOK
<1> QED BY <1>2, <1>3, <1>4 DEF Inv

\* The worker that moves is where its step finds it.
LEMMA WorkerIsOK ==
  ASSUME Inv, NEW w \in Workers
  PROVE  WorkerOK(worker[w]) /\ worker[w] \in WorkerState
BY DEF Inv, WorkersOK, WorkerOK

\* A worker goes somewhere it holds nothing and has no target to speak of.
LEMMA WorkerGoes ==
  ASSUME Inv, NEW w \in Workers, worker[w].pc # "free",
         NEW pc \in {"decide", "create", "target", "skipped", "failed"}, Goto(w, pc),
         UNCHANGED <<tables, outcome, purge, reader, counts>>
  PROVE  Inv'
<1> DEFINE x == [worker[w] EXCEPT !.pc = pc]
<1>1. worker' = [worker EXCEPT ![w] = x]
  BY DEF Goto
<1>2. WorkerOK(x) /\ ~Holding(x)
  BY WorkerIsOK DEF WorkerOK, WorkerState, WorkerPc, Compared, Holding
<1>3. UNCHANGED <<tables, purge, reader, committed, audits>> /\ OutcomesOK'
  BY DEF Inv, OutcomesOK, counts, tables
<1> HIDE DEF x
<1> QED BY <1>1, <1>2, <1>3, WorkerMoves

LEMMA FreeOK == ASSUME Inv PROVE WorkerOK(FreeWorker) /\ ~Holding(FreeWorker)
BY DEF FreeWorker, WorkerOK, WorkerState, WorkerPc, Compared, Holding

LEMMA TakeKeeps ==
  ASSUME Inv, NEW w \in Workers, NEW e \in Events, Take(w, e)
  PROVE  Inv'
<1> DEFINE x == [[FreeWorker EXCEPT !.pc = "extract"] EXCEPT !.event = e]
<1>1. worker' = [worker EXCEPT ![w] = x]
  BY DEF Take
<1>2. WorkerOK(x) /\ ~Holding(x)
  BY DEF FreeWorker, WorkerOK, WorkerState, WorkerPc, Compared, Holding
<1>3. UNCHANGED <<tables, purge, reader, committed, audits>> /\ OutcomesOK'
  BY DEF Take, KeepTables, Inv, OutcomesOK, tables
<1> HIDE DEF x
<1> QED BY <1>1, <1>2, <1>3, WorkerMoves

LEMMA CrashKeeps ==
  ASSUME Inv, NEW w \in Workers, WorkerCrashes(w)
  PROVE  Inv'
<1>1. worker' = [worker EXCEPT ![w] = FreeWorker]
  BY DEF WorkerCrashes
<1>2. UNCHANGED <<tables, purge, reader, committed, audits>> /\ OutcomesOK'
  BY DEF WorkerCrashes, KeepTables, Inv, OutcomesOK, tables
<1> QED BY <1>1, <1>2, FreeOK, WorkerMoves

LEMMA SettleKeeps ==
  ASSUME Inv, NEW w \in Workers, Settle(w)
  PROVE  Inv'
<1>1. worker' = [worker EXCEPT ![w] = FreeWorker]
  BY DEF Settle
<1>2. UNCHANGED <<tables, purge, reader, committed, audits>>
  BY DEF Settle, KeepTables, KeepOthers, counts
<1>3. worker[w].pc = "compiled" => worker[w].target \in 1..created
  BY WorkerIsOK DEF WorkerOK
<1>4. OutcomesOK'
  BY <1>3 DEF Settle, KeepTables, tables, Inv, OutcomesOK, Outcome
<1> QED BY <1>1, <1>2, <1>4, FreeOK, WorkerMoves

LEMMA FindTargetKeeps ==
  ASSUME Inv, NEW w \in Workers, FindTarget(w)
  PROVE  Inv'
<1>1. worker[w].pc = "target" /\ UNCHANGED <<tables, outcome, purge, reader, counts>>
  BY DEF FindTarget, KeepTables, KeepOthers
<1>2. PICK c \in Pages, r \in Relationships :
        IF c \notin DOMAIN concept
        THEN Goto(w, "failed")
        ELSE worker' = [worker EXCEPT
               ![w].pc = "update",
               ![w].target = c,
               ![w].confirms = (r = "confirms"),
               ![w].confirmed = IF r = "confirms" THEN worker[w].event ELSE concept[c].confirmed]
  BY DEF FindTarget
<1>3. CASE c \notin DOMAIN concept
  BY <1>1, <1>2, <1>3, WorkerGoes
<1>4. CASE c \in DOMAIN concept
  <2> DEFINE con == IF r = "confirms" THEN worker[w].event ELSE concept[c].confirmed
             sure == (r = "confirms")
             x == [[[[worker[w] EXCEPT !.pc = "update"] EXCEPT !.target = c]
                    EXCEPT !.confirms = sure] EXCEPT !.confirmed = con]
  <2>1. worker' = [worker EXCEPT ![w] = x]
    BY <1>2, <1>4, WorkerIsOK DEF WorkerState
  <2>2. con \in Events /\ c \in 1..created /\ created \in Nat
    BY <1>1, <1>4, WorkerIsOK DEF WorkerOK, Inv, TablesOK
  <2>3. sure \in BOOLEAN
    OBVIOUS
  <2> HIDE DEF con, sure
  <2>4. x \in WorkerState
    <3> DEFINE y == [[worker[w] EXCEPT !.pc = "update"] EXCEPT !.target = c]
    <3> c \in Nat /\ worker[w] \in WorkerState
      BY <2>2, WorkerIsOK
    <3>1. y \in WorkerState
      BY DEF WorkerState, WorkerPc
    <3>2. x = [[y EXCEPT !.confirms = sure] EXCEPT !.confirmed = con]
      OBVIOUS
    <3> HIDE DEF y, x
    <3> QED BY <2>2, <2>3, <3>1, <3>2 DEF WorkerState
  <2>5. x.pc = "update" /\ x.event = worker[w].event /\ x.target = c /\ x.confirmed = con
    BY WorkerIsOK DEF WorkerState
  <2> HIDE DEF x
  <2>6. WorkerOK(x) /\ ~Holding(x)
    BY <1>1, <2>2, <2>4, <2>5, WorkerIsOK DEF WorkerOK, Compared, Holding
  <2>7. UNCHANGED <<tables, purge, reader, committed, audits>> /\ OutcomesOK'
    BY <1>1 DEF Inv, OutcomesOK, counts, tables
  <2> QED BY <2>1, <2>6, <2>7, WorkerMoves
<1> QED BY <1>3, <1>4

LEMMA UpdateKeeps ==
  ASSUME Inv, NEW w \in Workers, UpdateConcept(w)
  PROVE  Inv'
<1> DEFINE x == [worker[w] EXCEPT !.pc = "dedup"]
<1>1. worker' = [worker EXCEPT ![w] = x]
  BY DEF UpdateConcept, Goto
<1>2. WorkerOK(x)
  BY WorkerIsOK DEF UpdateConcept, WorkerOK, WorkerState, WorkerPc, Compared
<1>3. x.target = worker[w].target
  BY WorkerIsOK DEF WorkerState
<1>4. /\ \A v \in Workers \ {w} : Holding(worker[v]) => worker[v].target # x.target
      /\ x.target \notin purge.concepts
  BY <1>3 DEF UpdateConcept, Holds, Holding
<1>5. UNCHANGED <<tables, purge, reader, committed, audits>> /\ OutcomesOK'
  BY DEF UpdateConcept, KeepTables, KeepOthers, Inv, OutcomesOK, counts, tables
<1> HIDE DEF x
<1> QED BY <1>1, <1>2, <1>4, <1>5, WorkerMoves

LEMMA DedupKeeps ==
  ASSUME Inv, NEW w \in Workers, DedupEvidence(w)
  PROVE  Inv'
<1> DEFINE F == Cites[worker[w].event] \ FactsOf(worker[w].target)
           x == [[worker[w] EXCEPT !.pc = "append"] EXCEPT !.fresh = F]
<1>1. worker' = [worker EXCEPT ![w] = x]
  BY WorkerIsOK DEF DedupEvidence, WorkerState
<1>2. F \subseteq Facts
  BY WorkerIsOK, EventsAssumption DEF DedupEvidence, WorkerOK
<1>3. /\ x \in WorkerState
      /\ x.pc = "append" /\ x.event = worker[w].event /\ x.target = worker[w].target
      /\ x.confirmed = worker[w].confirmed /\ x.fresh = F
  BY <1>2, WorkerIsOK DEF WorkerState, WorkerPc
<1>4. worker[w].pc = "dedup" /\ Holding(worker[w])
  BY DEF DedupEvidence, Holding
<1>5. F \intersect FactsOf(worker[w].target) = {}
      /\ Cites[worker[w].event] \subseteq FactsOf(worker[w].target) \union F
  OBVIOUS
<1> HIDE DEF x, F
<1>6. WorkerOK(x)
  BY <1>3, <1>4, <1>5, WorkerIsOK DEF WorkerOK, Compared
<1>7. /\ \A v \in Workers \ {w} : Holding(worker[v]) => worker[v].target # x.target
      /\ purge.pc = "jobs" => x.target \notin purge.concepts
  BY <1>3, <1>4 DEF Inv, Exclusive, Apart
<1>8. UNCHANGED <<tables, purge, reader, committed, audits>> /\ OutcomesOK'
  BY DEF DedupEvidence, KeepTables, KeepOthers, Inv, OutcomesOK, counts, tables
<1> QED BY <1>1, <1>6, <1>7, <1>8, WorkerMoves

----------------------------------------------------------------------------
(* Steps that write a page                                                  *)

\* The page c gets the text of the worker and evidence it did not have, in a
\* transaction no other merge of c was in the middle of.
Writes(w, c, F) ==
  /\ worker' = [worker EXCEPT ![w] = worker'[w]]
  /\ worker'[w] \in WorkerState
  /\ worker'[w].pc = "compiled" /\ worker'[w].event \in Events /\ worker'[w].target \in 1..created'
  /\ created' \in {created, created + 1}
  /\ c \in 1..created'
  /\ \E v \in [body : Events, confirmed : Events] :
       /\ concept' = With(concept, c, v)
       /\ Cites[v.body] \subseteq FactsOf(c) \union F
  /\ F \in SUBSET Facts /\ F \intersect FactsOf(c) = {}
  /\ evidence' = evidence \union Rows(c, F)
  /\ contributor \subseteq contributor'
  /\ contributor' \ contributor \subseteq {c} \X Principals
  /\ \A v \in Workers \ {w} : Holding(worker[v]) => worker[v].target # c
  /\ UNCHANGED <<purge, reader, outcome, committed, audits>>

LEMMA WritesFacts ==
  ASSUME Inv, NEW w \in Workers, NEW c, NEW F, Writes(w, c, F)
  PROVE  /\ evidence' = evidence \union {<<c, f, 0>> : f \in F}
         /\ FactsOf(c)' = FactsOf(c) \union F
         /\ \A d : d # c => FactsOf(d)' = FactsOf(d)
         /\ \A d : FactsOf(d) \subseteq FactsOf(d)'
         /\ DOMAIN concept' = DOMAIN concept \union {c}
         /\ created \in Nat /\ created' \in Nat
<1>1. evidence' = evidence \union {<<c, f, 0>> : f \in F}
  BY RowsAreFirst DEF Writes
<1>2. FactsOf(c)' = FactsOf(c) \union F /\ \A d : d # c => FactsOf(d)' = FactsOf(d)
  BY <1>1, FactsGrow
<1>3. \A d : FactsOf(d) \subseteq FactsOf(d)'
  BY <1>2
<1>4. DOMAIN concept' = DOMAIN concept \union {c}
  BY DEF Writes, With
<1>5. created \in Nat /\ created' \in Nat
  BY DEF Writes, Inv, TablesOK
<1> QED BY <1>1, <1>2, <1>3, <1>4, <1>5

\* What the purge has to know of it.
LEMMA WritesOnlyThere ==
  ASSUME Inv, NEW w \in Workers, NEW c, NEW F, Writes(w, c, F)
  PROVE  /\ DOMAIN concept' = DOMAIN concept \union {c}
         /\ \A row \in evidence' \ evidence : row[1] = c
         /\ \A row \in contributor' \ contributor : row[1] = c
<1>1. DOMAIN concept' = DOMAIN concept \union {c}
  BY DEF Writes, With
<1>2. \A row \in {<<c, f, 0>> : f \in F} : row[1] = c
  OBVIOUS
<1>3. evidence' = evidence \union {<<c, f, 0>> : f \in F}
  BY RowsAreFirst DEF Writes
<1>4. \A row \in evidence' \ evidence : row[1] = c
  BY <1>2, <1>3
<1>5. \A row \in contributor' \ contributor : row[1] = c
  <2>1. \A row \in {c} \X Principals : row[1] = c
    OBVIOUS
  <2> QED BY <2>1 DEF Writes
<1> QED BY <1>1, <1>4, <1>5

LEMMA WritesKeeps ==
  ASSUME Inv, NEW w \in Workers, NEW c, NEW F, Writes(w, c, F),
         DOMAIN path' \subseteq Paths
  PROVE  (TablesOK /\ Kept /\ EvidenceUnique /\ BodyIsSupported /\ WorkersOK /\ Exclusive
          /\ PurgeOK /\ ReaderOK /\ AuditsOK)'
<1>1. /\ evidence' = evidence \union {<<c, f, 0>> : f \in F}
      /\ FactsOf(c)' = FactsOf(c) \union F
      /\ \A d : d # c => FactsOf(d)' = FactsOf(d)
      /\ \A d : FactsOf(d) \subseteq FactsOf(d)'
      /\ DOMAIN concept' = DOMAIN concept \union {c}
      /\ created \in Nat /\ created' \in Nat
  BY WritesFacts
<1>2. PICK v \in [body : Events, confirmed : Events] :
        concept' = With(concept, c, v) /\ Cites[v.body] \subseteq FactsOf(c) \union F
  BY DEF Writes
<1>3. concept'[c] = v /\ \A d \in DOMAIN concept : d # c => concept'[d] = concept[d]
  BY <1>2 DEF With
<1>4. TablesOK'
  <2>1. DOMAIN concept' \subseteq 1..created'
    BY <1>1 DEF Writes, Inv, TablesOK
  <2>2. \A d \in DOMAIN concept' : concept'[d] \in [body : Events, confirmed : Events]
    BY <1>3, <1>1 DEF Inv, TablesOK
  <2>3. evidence' \subseteq EvidenceRows
    <3>1. c \in Nat /\ F \subseteq Facts
      BY <1>1 DEF Writes
    <3>2. {<<c, f, 0>> : f \in F} \subseteq EvidenceRows
      BY <3>1 DEF EvidenceRows
    <3> QED BY <3>2, <1>1 DEF Inv, TablesOK
  <2>4. contributor' \subseteq ContributorRows
    <3>1. c \in Nat
      BY <1>1 DEF Writes
    <3>2. {c} \X Principals \subseteq ContributorRows
      BY <3>1 DEF ContributorRows
    <3> QED BY <3>2 DEF Writes, Inv, TablesOK
  <2> QED BY <2>1, <2>2, <2>3, <2>4, <1>1 DEF TablesOK
<1>5. Kept'
  <2>1. \A row \in {<<c, f, 0>> : f \in F} : row[1] = c
    OBVIOUS
  <2>2. \A row \in {c} \X Principals : row[1] = c
    OBVIOUS
  <2>3. \A row \in evidence' : row[1] \in DOMAIN concept'
    BY <2>1, <1>1 DEF Inv, Kept
  <2>4. \A row \in contributor' : row[1] \in DOMAIN concept'
    BY <2>2, <1>1 DEF Writes, Inv, Kept
  <2> QED BY <2>3, <2>4 DEF Kept
<1>6. EvidenceUnique'
  <2>1. \A row \in {<<c, f, 0>> : f \in F} : row[3] = 0
    OBVIOUS
  <2> QED BY <2>1, <1>1 DEF Inv, EvidenceUnique
<1>7. BodyIsSupported'
  <2> SUFFICES ASSUME NEW d \in DOMAIN concept'
               PROVE  Cites[concept'[d].body] \subseteq FactsOf(d)'
    BY DEF BodyIsSupported, FactsOf
  <2>1. CASE d = c
    BY <1>2, <1>3, <2>1, <1>1
  <2>2. CASE d # c
    BY <1>3, <2>2, <1>1 DEF Inv, BodyIsSupported
  <2> QED BY <2>1, <2>2
<1>8. WorkersOK'
  <2>1. \A u \in Workers \ {w} : worker'[u] = worker[u]
    BY DEF Writes, Inv, WorkersOK
  <2>2. worker' \in [Workers -> WorkerState]
    BY DEF Writes, Inv, WorkersOK
  <2>3. ASSUME NEW u \in Workers \ {w} PROVE WorkerOK(worker[u])'
    <3>1. WorkerOK(worker[u])
      BY <2>3 DEF Inv, WorkersOK
    <3>2. Compared(worker[u])'
      <4> SUFFICES ASSUME worker[u].pc = "append"
                   PROVE  /\ worker[u].fresh \intersect FactsOf(worker[u].target)' = {}
                          /\ worker[u].target \in DOMAIN concept' =>
                               Cites[worker[u].event] \subseteq
                                 FactsOf(worker[u].target)' \union worker[u].fresh
        BY <2>1, <2>3 DEF Compared, FactsOf
      <4>1. worker[u].target # c
        BY <2>3 DEF Writes, Holding
      <4> QED BY <2>1, <2>3, <3>1, <4>1, <1>1 DEF WorkerOK, Compared
    <3> QED BY <2>1, <2>3, <3>1, <3>2, <1>1 DEF WorkerOK, Writes
  <2>4. WorkerOK(worker[w])'
    BY DEF Writes, WorkerOK, Compared
  <2> QED BY <2>2, <2>3, <2>4 DEF WorkersOK
<1>9. Exclusive'
  <2>1. \A u \in Workers \ {w} : worker'[u] = worker[u]
    BY DEF Writes, Inv, WorkersOK
  <2>2. ~Holding(worker'[w])
    BY DEF Writes, Holding
  <2> QED BY <2>1, <2>2 DEF Inv, Exclusive, Holding
<1>10. PurgeOK'
  BY <1>1 DEF Inv, PurgeOK, Writes
<1>11. ReaderOK'
  BY <1>1 DEF Inv, ReaderOK, Writes
<1>12. AuditsOK'
  BY DEF Inv, AuditsOK, Writes
<1> QED BY <1>4, <1>5, <1>6, <1>7, <1>8, <1>9, <1>10, <1>11, <1>12

LEMMA CreateKeeps ==
  ASSUME Inv, NEW w \in Workers, CreateConcept(w)
  PROVE  Inv'
<1> DEFINE e == worker[w].event
           c == created + 1
           by == {<<c, Author[e]>>} \ {<<c, None>>}
           v == [body |-> e, confirmed |-> e]
<1>1. worker[w].pc = "create" /\ e \in Events /\ created \in Nat
  BY WorkerIsOK DEF CreateConcept, WorkerOK, Inv, TablesOK
<1>2. UNCHANGED <<outcome, purge, reader, counts, committed, audits>>
  BY DEF CreateConcept, KeepOthers, counts
<1>3. PICK p \in Paths \ purge.paths :
        IF p \in DOMAIN path
        THEN Goto(w, "failed") /\ UNCHANGED tables
        ELSE /\ created' = c
             /\ concept' = With(concept, c, v)
             /\ path' = With(path, p, c)
             /\ evidence' = evidence \union Rows(c, Cites[e])
             /\ contributor' = contributor \union by
             /\ worker' = [worker EXCEPT ![w].pc = "compiled", ![w].target = c]
  BY DEF CreateConcept
<1>4. CASE p \in DOMAIN path
  BY <1>1, <1>2, <1>3, <1>4, WorkerGoes
<1>5. CASE p \notin DOMAIN path
  <2> DEFINE x == [[worker[w] EXCEPT !.pc = "compiled"] EXCEPT !.target = c]
  <2>1. c \notin DOMAIN concept /\ c \in Nat /\ c \notin 1..created /\ c \in 1..(created + 1)
    BY <1>1 DEF Inv, TablesOK
  <2>2. Writes(w, c, Cites[e])
    <3>1. worker' = [worker EXCEPT ![w] = x] /\ worker[w] \in WorkerState
      BY <1>3, <1>5, WorkerIsOK DEF WorkerState
    <3>2. x \in WorkerState /\ x.pc = "compiled" /\ x.event = e /\ x.target = c
      BY <2>1, <3>1 DEF WorkerState, WorkerPc
    <3> HIDE DEF x
    <3>3. worker'[w] = x
      BY <3>1 DEF Inv, WorkersOK
    <3>4. v \in [body : Events, confirmed : Events] /\ v.body = e
      BY <1>1
    <3>5. FactsOf(c) = {}
      BY <2>1 DEF Inv, Kept, FactsOf
    <3>6. Cites[e] \in SUBSET Facts
      BY <1>1, EventsAssumption
    <3>7. contributor \subseteq contributor' /\ contributor' \ contributor \subseteq {c} \X Principals
      <4>1. Author[e] \in Principals \union {None}
        BY <1>1, EventsAssumption
      <4>2. by \subseteq {c} \X Principals
        BY <4>1
      <4> QED BY <1>3, <1>5, <4>2
    <3>8. \A u \in Workers \ {w} : Holding(worker[u]) => worker[u].target # c
      BY <2>1, WorkerIsOK DEF WorkerOK, Holding
    <3> HIDE DEF e, by, v
    <3>9. \E z \in [body : Events, confirmed : Events] :
            concept' = With(concept, c, z) /\ Cites[z.body] \subseteq FactsOf(c) \union Cites[e]
      BY <1>3, <1>5, <3>4
    <3> HIDE DEF c
    <3> QED BY <1>1, <1>2, <1>3, <1>5, <2>1, <3>1, <3>2, <3>3, <3>5, <3>6, <3>7, <3>8, <3>9 DEF Writes, c
  <2>3. DOMAIN path' = DOMAIN path \union {p} /\ path'[p] = c
        /\ (\A q \in DOMAIN path : path'[q] = path[q])
    BY <1>3, <1>5 DEF With
  <2>4. DOMAIN concept' = DOMAIN concept \union {c}
    BY <2>2, WritesOnlyThere
  <2>5. (TablesOK /\ Kept /\ EvidenceUnique /\ BodyIsSupported /\ WorkersOK /\ Exclusive
          /\ PurgeOK /\ ReaderOK /\ AuditsOK)'
    BY <2>2, <2>3, WritesKeeps DEF Inv, TablesOK
  <2>6. Found'
    BY <1>5, <2>1, <2>3, <2>4 DEF Inv, Found
  <2>7. OutcomesOK'
    <3>1. created' = created + 1
      BY <1>3, <1>5
    <3> QED BY <1>1, <1>2, <2>4, <3>1 DEF Inv, OutcomesOK
  <2>8. Apart'
    <3> SUFFICES ASSUME purge.pc = "jobs"
                 PROVE  Apart'
      BY <1>2 DEF Apart
    <3>1. c \notin purge.concepts
      BY <2>1 DEF Inv, PurgeOK
    <3>2. /\ \A row \in evidence' \ evidence : row[1] = c
          /\ \A row \in contributor' \ contributor : row[1] = c
      BY <2>2, WritesOnlyThere
    <3>4. \A d \in DOMAIN concept' \ purge.concepts :
            (\A row \in purge.evidence : row[1] # d) /\ (\A row \in purge.contributors : row[1] # d)
      BY <2>1, <2>4 DEF Inv, PurgeOK, Apart
    <3>5. \A q \in DOMAIN path' : path'[q] \in purge.concepts <=> q \in purge.paths
      BY <1>3, <2>3, <3>1 DEF Inv, Apart
    <3>6. /\ \A row \in evidence' : row[1] \in purge.concepts => row \in purge.evidence
          /\ \A row \in contributor' : row[1] \in purge.concepts => row \in purge.contributors
      BY <3>1, <3>2 DEF Inv, Apart
    <3>7. \A u \in Workers : Holding(worker'[u]) => worker'[u].target \notin purge.concepts
      BY <2>2 DEF Writes, Inv, WorkersOK, Apart, Holding
    <3> QED BY <1>2, <3>4, <3>5, <3>6, <3>7 DEF Apart
  <2> QED BY <2>5, <2>6, <2>7, <2>8 DEF Inv
<1> QED BY <1>4, <1>5

LEMMA AppendKeeps ==
  ASSUME Inv, NEW w \in Workers, AppendEvidence(w)
  PROVE  Inv'
<1> DEFINE e == worker[w].event
           c == worker[w].target
           by == {<<c, Author[e]>>} \ {<<c, None>>}
<1>1. /\ worker[w].pc = "append" /\ e \in Events /\ c \in 1..created /\ created \in Nat
      /\ worker[w].confirmed \in Events
      /\ worker[w] \in WorkerState /\ Holding(worker[w])
      /\ UNCHANGED <<outcome, purge, reader, counts, committed, audits>>
  BY WorkerIsOK DEF AppendEvidence, KeepOthers, counts, WorkerOK, Holding, Inv, TablesOK
<1>2. CASE c \in DOMAIN concept
  <2>1. /\ concept' = With(concept, c, Merged(w))
        /\ evidence' = evidence \union Rows(c, worker[w].fresh)
        /\ contributor' = contributor \union by
        /\ Goto(w, "compiled")
        /\ path' = path /\ created' = created
    BY <1>2 DEF AppendEvidence
  <2>2. Writes(w, c, worker[w].fresh)
    <3> DEFINE x == [worker[w] EXCEPT !.pc = "compiled"]
    <3>1. worker' = [worker EXCEPT ![w] = x]
      BY <2>1 DEF Goto
    <3>2. x \in WorkerState /\ x.pc = "compiled" /\ x.event = e /\ x.target = c
      BY <1>1 DEF WorkerState, WorkerPc
    <3> HIDE DEF x
    <3>3. worker'[w] = x
      BY <3>1 DEF Inv, WorkersOK
    <3>4. /\ worker[w].fresh \in SUBSET Facts
          /\ worker[w].fresh \intersect FactsOf(c) = {}
          /\ Cites[e] \subseteq FactsOf(c) \union worker[w].fresh
      BY <1>1, <1>2, WorkerIsOK DEF WorkerOK, WorkerState, Compared
    <3>5. Merged(w) \in [body : Events, confirmed : Events] /\ Merged(w).body = e
      BY <1>1 DEF Merged
    <3>6. contributor \subseteq contributor' /\ contributor' \ contributor \subseteq {c} \X Principals
      <4>1. Author[e] \in Principals \union {None}
        BY <1>1, EventsAssumption
      <4>2. by \subseteq {c} \X Principals
        BY <4>1
      <4> QED BY <2>1, <4>2
    <3>7. \A u \in Workers \ {w} : Holding(worker[u]) => worker[u].target # c
      BY <1>1 DEF Inv, Exclusive
    <3> HIDE DEF e, by
    <3>8. \E z \in [body : Events, confirmed : Events] :
            /\ concept' = With(concept, c, z)
            /\ Cites[z.body] \subseteq FactsOf(c) \union worker[w].fresh
      BY <2>1, <3>4, <3>5
    <3> HIDE DEF c
    <3> QED BY <1>1, <2>1, <3>1, <3>2, <3>3, <3>4, <3>6, <3>7, <3>8 DEF Writes
  <2>3. DOMAIN concept' = DOMAIN concept
    BY <1>2, <2>1 DEF With
  <2>4. (TablesOK /\ Kept /\ EvidenceUnique /\ BodyIsSupported /\ WorkersOK /\ Exclusive
          /\ PurgeOK /\ ReaderOK /\ AuditsOK)'
    BY <2>1, <2>2, WritesKeeps DEF Inv, TablesOK
  <2>5. (Found /\ OutcomesOK)'
    BY <1>1, <2>1, <2>3 DEF Inv, Found, OutcomesOK
  <2>6. Apart'
    <3> SUFFICES ASSUME purge.pc = "jobs"
                 PROVE  Apart'
      BY <1>1 DEF Apart
    <3>1. c \notin purge.concepts
      BY <1>1 DEF Inv, Apart
    <3>2. /\ \A row \in evidence' \ evidence : row[1] = c
          /\ \A row \in contributor' \ contributor : row[1] = c
      BY <2>2, WritesOnlyThere
    <3>4. /\ \A row \in evidence' : row[1] \in purge.concepts => row \in purge.evidence
          /\ \A row \in contributor' : row[1] \in purge.concepts => row \in purge.contributors
      BY <3>1, <3>2 DEF Inv, Apart
    <3>5. \A u \in Workers : Holding(worker'[u]) => worker'[u].target \notin purge.concepts
      BY <2>2 DEF Writes, Inv, WorkersOK, Apart, Holding
    <3> QED BY <1>1, <2>1, <2>3, <3>4, <3>5 DEF Inv, Apart
  <2> QED BY <2>4, <2>5, <2>6 DEF Inv
<1>3. CASE c \notin DOMAIN concept
  <2>1. UNCHANGED tables /\ (Goto(w, "compiled") \/ Goto(w, "failed"))
    BY <1>3 DEF AppendEvidence
  <2>2. CASE Goto(w, "failed")
    BY <1>1, <2>1, <2>2, WorkerGoes
  <2>3. CASE Goto(w, "compiled")
    <3> DEFINE x == [worker[w] EXCEPT !.pc = "compiled"]
    <3>1. worker' = [worker EXCEPT ![w] = x]
      BY <2>3 DEF Goto
    <3>2. WorkerOK(x) /\ ~Holding(x)
      BY <1>1, WorkerIsOK DEF WorkerOK, WorkerState, WorkerPc, Compared, Holding
    <3>3. UNCHANGED <<tables, purge, reader, committed, audits>> /\ OutcomesOK'
      BY <1>1, <2>1 DEF Inv, OutcomesOK, tables
    <3> HIDE DEF x
    <3> QED BY <3>1, <3>2, <3>3, WorkerMoves
  <2> QED BY <2>1, <2>2, <2>3
<1> QED BY <1>2, <1>3

LEMMA DeadlockKeeps ==
  ASSUME Inv, NEW w \in Workers, DeadlockDetected(w)
  PROVE  Inv'
<1>1. worker[w].pc = "append" /\ UNCHANGED <<tables, outcome, reader, counts>>
  BY DEF DeadlockDetected, Entangled, KeepTables
<1>2. CASE Goto(w, "failed") /\ UNCHANGED purge
  BY <1>1, <1>2, WorkerGoes
<1>3. CASE Rollback /\ UNCHANGED worker
  <2>1. (PurgeOK /\ Apart /\ AuditsOK)'
    BY <1>1, <1>3 DEF Rollback, NoPurge, Inv, PurgeOK, PurgeState, Apart, AuditsOK, counts
  <2> QED BY <1>1, <1>3, <2>1, PurgeMoves DEF counts
<1> QED BY <1>2, <1>3 DEF DeadlockDetected

LEMMA CompileKeeps ==
  ASSUME Inv, NEW w \in Workers, Compile(w)
  PROVE  Inv'
<1>1. CASE Skip(w) \/ ModelFails(w) \/ DecideMerge(w)
  BY <1>1, WorkerGoes DEF Skip, ModelFails, DecideMerge, KeepTables, KeepOthers
<1>2. CASE Recall(w)
  BY <1>2, WorkerGoes DEF Recall, KeepTables, KeepOthers
<1> QED BY <1>1, <1>2, TakeKeeps, CreateKeeps, FindTargetKeeps, UpdateKeeps, DedupKeeps,
           AppendKeeps, SettleKeeps, CrashKeeps, DeadlockKeeps DEF Compile

----------------------------------------------------------------------------
(* The purge                                                                *)

LEMMA DeletesKeep ==
  ASSUME Inv, DeleteContributors \/ DeleteEvidence \/ DeletePaths
  PROVE  Inv'
<1>1. UNCHANGED <<tables, outcome, worker, reader, committed, audits>>
  BY DEF DeleteContributors, DeleteEvidence, DeletePaths, PurgeStep, KeepTables, counts
<1>2. UNCHANGED <<concept, path, evidence, contributor, created>>
  BY <1>1 DEF tables
<1>3. /\ purge' \in PurgeState /\ purge'.pc \in {"evidence", "paths", "concepts"}
      /\ purge'.concepts = purge.concepts
      /\ purge'.evidence \in {purge.evidence, evidence}
      /\ purge'.contributors \in {purge.contributors, contributor}
  BY DEF DeleteContributors, DeleteEvidence, DeletePaths, PurgeStep, PurgeState,
         Inv, PurgeOK, TablesOK
<1>4. PurgeOK'
  BY <1>2, <1>3 DEF Inv, PurgeOK, TablesOK, Kept
<1>5. Apart' /\ AuditsOK'
  BY <1>1, <1>3 DEF Inv, Apart, AuditsOK
<1> QED BY <1>1, <1>4, <1>5, PurgeMoves

\* It deletes the pages only when it has deleted all that belongs to them.
LEMMA DeleteConceptsKeeps ==
  ASSUME Inv, DeleteConcepts
  PROVE  Inv'
<1>1. UNCHANGED <<tables, outcome, worker, reader, committed, audits>> /\ purge.pc = "concepts"
  BY DEF DeleteConcepts, KeepTables, counts
<1>2. UNCHANGED <<concept, path, evidence, contributor, created>>
  BY <1>1 DEF tables
<1>3. CASE Rollback
  <2>1. (PurgeOK /\ Apart /\ AuditsOK)'
    BY <1>1, <1>3 DEF Rollback, NoPurge, Inv, PurgeOK, PurgeState, Apart, AuditsOK
  <2> QED BY <1>1, <2>1, PurgeMoves
<1>4. CASE /\ contributor \subseteq purge.contributors
           /\ evidence \subseteq purge.evidence
           /\ DOMAIN path \subseteq purge.paths
           /\ purge' = [purge EXCEPT !.pc = "jobs", !.concepts = DOMAIN concept]
  <2>1. /\ purge' \in PurgeState /\ purge'.pc = "jobs"
        /\ purge'.concepts = DOMAIN concept
        /\ purge'.evidence = purge.evidence
        /\ purge'.contributors = purge.contributors
        /\ purge'.paths = purge.paths
    <3>1. DOMAIN concept \subseteq Nat /\ purge \in PurgeState
      BY DEF Inv, TablesOK, PurgeOK
    <3>2. purge' = [[purge EXCEPT !.pc = "jobs"] EXCEPT !.concepts = DOMAIN concept]
      BY <1>4
    <3> QED BY <3>1, <3>2 DEF PurgeState
  <2>2. PurgeOK'
    BY <1>2, <2>1 DEF Inv, PurgeOK, TablesOK
  <2>3. \A w \in Workers : Holding(worker[w]) => worker[w].target \notin DOMAIN concept
    BY DEF DeleteConcepts, Holds, Holding
  <2>4. Apart'
    BY <1>1, <1>2, <1>4, <2>1, <2>3 DEF Inv, Found, Apart
  <2>5. AuditsOK'
    BY <1>1, <2>1 DEF Inv, AuditsOK
  <2> QED BY <1>1, <2>2, <2>4, <2>5, PurgeMoves
<1> QED BY <1>3, <1>4 DEF DeleteConcepts

\* The commit takes pages whole and leaves the others as they are.
LEMMA DeleteJobsKeeps ==
  ASSUME Inv, DeleteJobs
  PROVE  Inv'
<1>1. /\ purge.pc = "jobs" /\ purge' = [NoPurge EXCEPT !.pc = "audit"]
      /\ evidence' = evidence \ purge.evidence
      /\ contributor' = contributor \ purge.contributors
      /\ UNCHANGED <<created, worker, reader, audits>>
      /\ committed' = committed + 1
  BY DEF DeleteJobs
<1>2. /\ DOMAIN concept' = DOMAIN concept \ purge.concepts
      /\ \A c \in DOMAIN concept' : concept'[c] = concept[c]
      /\ DOMAIN path' = DOMAIN path \ purge.paths
      /\ \A p \in DOMAIN path' : path'[p] = path[p]
  BY DEF DeleteJobs, Without
<1>3. Apart
  BY DEF Inv
<1>4. \A c \in DOMAIN concept' : FactsOf(c)' = FactsOf(c)
  <2> SUFFICES ASSUME NEW c \in DOMAIN concept'
               PROVE  FactsOf(c)' = FactsOf(c)
    OBVIOUS
  <2>1. \A row \in purge.evidence : row[1] # c
    BY <1>1, <1>2, <1>3 DEF Apart
  <2> QED BY <1>1, <2>1 DEF FactsOf
<1>5. \A d : FactsOf(d)' \subseteq FactsOf(d)
  BY <1>1 DEF FactsOf
<1>6. TablesOK'
  BY <1>1, <1>2 DEF Inv, TablesOK
<1>7. Kept'
  BY <1>1, <1>2, <1>3 DEF Inv, Kept, Apart
<1>8. Found'
  <2>1. \A p \in DOMAIN path' : path'[p] \in DOMAIN concept'
    BY <1>1, <1>2, <1>3 DEF Inv, Found, Apart
  <2>2. \A p, q \in DOMAIN path' : path'[p] = path'[q] => p = q
    BY <1>2 DEF Inv, Found
  <2>3. \A c \in DOMAIN concept' : \E p \in DOMAIN path' : path'[p] = c
    BY <1>1, <1>2, <1>3 DEF Inv, Found, Apart
  <2> QED BY <2>1, <2>2, <2>3 DEF Found
<1>9. EvidenceUnique'
  BY <1>1 DEF Inv, EvidenceUnique
<1>10. BodyIsSupported'
  BY <1>2, <1>4 DEF Inv, BodyIsSupported, FactsOf
<1>11. WorkersOK'
  <2> SUFFICES ASSUME NEW w \in Workers
               PROVE  WorkerOK(worker[w])'
    BY <1>1 DEF Inv, WorkersOK
  <2>1. WorkerOK(worker[w])
    BY DEF Inv, WorkersOK
  <2>2. Compared(worker[w])'
    <3> SUFFICES ASSUME worker[w].pc = "append"
                 PROVE  /\ worker[w].fresh \intersect FactsOf(worker[w].target)' = {}
                        /\ worker[w].target \in DOMAIN concept' =>
                             Cites[worker[w].event] \subseteq
                               FactsOf(worker[w].target)' \union worker[w].fresh
      BY <1>1 DEF Compared, FactsOf
    <3>1. /\ worker[w].fresh \intersect FactsOf(worker[w].target) = {}
          /\ worker[w].target \in DOMAIN concept =>
               Cites[worker[w].event] \subseteq FactsOf(worker[w].target) \union worker[w].fresh
      BY <2>1 DEF WorkerOK, Compared
    <3>2. FactsOf(worker[w].target)' \subseteq FactsOf(worker[w].target)
      BY <1>1 DEF FactsOf
    <3>3. worker[w].target \in DOMAIN concept' =>
            FactsOf(worker[w].target)' = FactsOf(worker[w].target)
      BY <1>1, <1>4 DEF FactsOf
    <3> QED BY <1>1, <1>2, <3>1, <3>2, <3>3
  <2> QED BY <1>1, <2>1, <2>2 DEF WorkerOK
<1>12. Exclusive'
  BY <1>1 DEF Inv, Exclusive
<1>13. PurgeOK' /\ Apart'
  BY <1>1 DEF NoPurge, PurgeOK, PurgeState, Apart
<1>14. OutcomesOK'
  BY DEF DeleteJobs, OutcomesOK
<1>15. ReaderOK' /\ AuditsOK'
  BY <1>1 DEF Inv, ReaderOK, AuditsOK, ReaderState, NoPurge
<1> QED BY <1>6, <1>7, <1>8, <1>9, <1>10, <1>11, <1>12, <1>13, <1>14, <1>15 DEF Inv

LEMMA PurgeKeeps ==
  ASSUME Inv, Purge
  PROVE  Inv'
<1>1. CASE WriteAudit \/ PurgeCrashes
  <2>1. UNCHANGED <<tables, outcome, worker, reader, committed>> /\ purge' = NoPurge
    BY <1>1 DEF WriteAudit, PurgeCrashes, Rollback, KeepTables
  <2>2. PurgeOK' /\ Apart'
    BY <2>1 DEF NoPurge, PurgeOK, PurgeState, Apart
  <2>3. AuditsOK'
    BY <1>1, <2>1 DEF WriteAudit, PurgeCrashes, NoPurge, Inv, AuditsOK
  <2> QED BY <2>1, <2>2, <2>3, PurgeMoves
<1> QED BY <1>1, DeletesKeep, DeleteConceptsKeeps, DeleteJobsKeeps DEF Purge

----------------------------------------------------------------------------
(* The reader                                                               *)

LEMMA ReadKeeps ==
  ASSUME Inv, Read
  PROVE  Inv'
<1>1. UNCHANGED <<tables, outcome, worker, purge, counts>>
  BY DEF Read, ReadPath, ReadRow, ReadPaths, ReadEvidence, Answer, KeepTables
<1>2. UNCHANGED <<concept, path, evidence, committed>>
  BY <1>1 DEF tables, counts
<1>3. ReaderOK /\ committed \in Nat /\ DOMAIN concept \subseteq Nat
  BY DEF Inv, AuditsOK, TablesOK
<1>4. CASE reader' = NoReader
  BY <1>1, <1>2, <1>3, <1>4, ReaderMoves DEF NoReader, ReaderOK, ReaderState
<1>5. CASE ReadPath
  <2>1. PICK p \in DOMAIN path :
          reader' = [reader EXCEPT !.pc = "row", !.page = path[p], !.since = committed]
    BY <1>5 DEF ReadPath
  <2>2. path[p] \in DOMAIN concept
    BY DEF Inv, Found
  <2>3. reader' \in ReaderState /\ reader'.pc = "row" /\ reader'.page = path[p]
        /\ reader'.since = committed
    BY <1>3, <2>1, <2>2 DEF ReaderOK, ReaderState
  <2>4. ReaderOK'
    BY <1>2, <1>3, <2>2, <2>3 DEF ReaderOK
  <2> QED BY <1>1, <2>4, ReaderMoves
<1>6. CASE ReadRow /\ reader.page \in DOMAIN concept
  <2>1. reader' = [reader EXCEPT !.pc = "paths", !.body = concept[reader.page].body]
    BY <1>6 DEF ReadRow
  <2>2. concept[reader.page].body \in Events
        /\ Cites[concept[reader.page].body] \subseteq FactsOf(reader.page)
    BY <1>6 DEF Inv, TablesOK, BodyIsSupported
  <2>3. reader' \in ReaderState /\ reader'.pc = "paths" /\ reader'.page = reader.page
        /\ reader'.body = concept[reader.page].body /\ reader'.since = reader.since
    BY <1>3, <2>1, <2>2 DEF ReaderOK, ReaderState
  <2>4. ReaderOK'
    BY <1>2, <1>3, <1>6, <2>2, <2>3 DEF ReaderOK, FactsOf
  <2> QED BY <1>1, <2>4, ReaderMoves
<1>7. CASE ReadPaths
  <2> DEFINE found == {p \in DOMAIN path : path[p] = reader.page}
  <2>1. reader' = [[reader EXCEPT !.pc = "evidence"] EXCEPT !.paths = found] /\ reader.pc = "paths"
    BY <1>7 DEF ReadPaths
  <2>2. found \subseteq Paths
    BY DEF Inv, TablesOK
  <2>3. ASSUME reader.since = committed PROVE Cardinality(found) = 1
    <3>1. reader.page \in DOMAIN concept
      BY <1>3, <2>1, <2>3 DEF ReaderOK
    <3>2. PICK p \in DOMAIN path : path[p] = reader.page
      BY <3>1 DEF Inv, Found
    <3>3. found = {p}
      BY <3>2 DEF Inv, Found
    <3> QED BY <3>3, FS_Singleton
  <2> HIDE DEF found
  <2>4. /\ reader' \in ReaderState /\ reader'.pc = "evidence" /\ reader'.page = reader.page
        /\ reader'.body = reader.body /\ reader'.since = reader.since /\ reader'.paths = found
    BY <1>3, <2>1, <2>2 DEF ReaderOK, ReaderState
  <2>5. ReaderOK'
    BY <1>2, <1>3, <2>1, <2>3, <2>4 DEF ReaderOK, FactsOf
  <2> QED BY <1>1, <2>5, ReaderMoves
<1>8. CASE ReadEvidence
  <2> DEFINE found == FactsOf(reader.page)
  <2>1. reader' = [[reader EXCEPT !.pc = "answered"] EXCEPT !.facts = found]
        /\ reader.pc = "evidence"
    BY <1>8 DEF ReadEvidence
  <2>2. found \subseteq Facts
    BY DEF Inv, TablesOK, FactsOf, EvidenceRows
  <2> HIDE DEF found
  <2>3. /\ reader' \in ReaderState /\ reader'.pc = "answered" /\ reader'.page = reader.page
        /\ reader'.body = reader.body /\ reader'.since = reader.since
        /\ reader'.paths = reader.paths /\ reader'.facts = found
    BY <1>3, <2>1, <2>2 DEF ReaderOK, ReaderState
  <2>4. ReaderOK'
    BY <1>2, <1>3, <2>1, <2>3 DEF ReaderOK, FactsOf, found
  <2> QED BY <1>1, <2>4, ReaderMoves
<1> QED BY <1>4, <1>5, <1>6, <1>7, <1>8 DEF Read, ReadRow, Answer

----------------------------------------------------------------------------

LEMMA InitInv == Init => Inv
<1> SUFFICES ASSUME Init PROVE Inv
  OBVIOUS
<1>1. DOMAIN concept = {} /\ DOMAIN path = {}
  BY DEF Init
<1>2. TablesOK /\ Kept /\ Found /\ EvidenceUnique /\ BodyIsSupported
  BY <1>1 DEF Init, TablesOK, Kept, Found, EvidenceUnique, BodyIsSupported
<1>3. WorkersOK /\ Exclusive
  <2>1. worker = [w \in Workers |-> FreeWorker]
    BY DEF Init
  <2>2. FreeWorker \in WorkerState /\ FreeWorker.pc = "free"
    BY DEF FreeWorker, WorkerState, WorkerPc
  <2> QED BY <2>1, <2>2 DEF WorkersOK, WorkerOK, Compared, Exclusive, Holding
<1>4. PurgeOK /\ Apart
  BY DEF Init, NoPurge, PurgeOK, PurgeState, Apart
<1>5. OutcomesOK
  <2>1. created = 0 /\ \A e \in DOMAIN outcome : outcome[e].status = "pending"
    BY DEF Init, Outcome
  <2> QED BY <1>1, <2>1 DEF OutcomesOK
<1>6. ReaderOK
  BY DEF Init, NoReader, ReaderOK, ReaderState
<1>7. AuditsOK
  BY DEF Init, NoPurge, AuditsOK
<1> QED BY <1>2, <1>3, <1>4, <1>5, <1>6, <1>7 DEF Inv

LEMMA StutterKeeps ==
  ASSUME Inv, UNCHANGED vars
  PROVE  Inv'
<1>1. ReaderOK' /\ UNCHANGED <<tables, outcome, worker, purge, counts>>
  BY DEF Inv, ReaderOK, vars, tables, counts, FactsOf
<1> QED BY <1>1, ReaderMoves

LEMMA NextInv == Inv /\ [Next]_vars => Inv'
BY CompileKeeps, PurgeKeeps, ReadKeeps, StutterKeeps DEF Next, Done

\* The tables and everybody at work on them, at every moment.
THEOREM PagesAreKept == Spec => []Inv
BY InitInv, NextInv, PTL DEF Spec

\* No evidence stands twice on a page, whichever merges run at once.
THEOREM EvidenceStandsOnce == Spec => []EvidenceUnique
<1>1. Inv => EvidenceUnique
  BY DEF Inv
<1> QED BY <1>1, PagesAreKept, PTL

\* A page shows the evidence of the event that last wrote its text.
THEOREM TextHasItsEvidence == Spec => []BodyIsSupported
<1>1. Inv => BodyIsSupported
  BY DEF Inv
<1> QED BY <1>1, PagesAreKept, PTL

\* The page an outcome names has not been purged from under it.
THEOREM OutcomesNamePages == Spec => []CompiledHasPage
<1>1. Inv => CompiledHasPage
  BY DEF Inv, OutcomesOK, CompiledHasPage
<1> QED BY <1>1, PagesAreKept, PTL

\* A page is one row with one path, and nothing refers to a page that is gone.
THEOREM PagesAreWhole == Spec => []PageIsWhole
<1>1. Inv => PageIsWhole
  <2> SUFFICES ASSUME Inv PROVE PageIsWhole
    OBVIOUS
  <2>1. ASSUME NEW c \in DOMAIN concept
        PROVE  Cardinality({p \in DOMAIN path : path[p] = c}) = 1
    <3>1. PICK p \in DOMAIN path : path[p] = c
      BY DEF Inv, Found
    <3>2. {q \in DOMAIN path : path[q] = c} = {p}
      BY <3>1 DEF Inv, Found
    <3> QED BY <3>2, FS_Singleton
  <2> QED BY <2>1 DEF Inv, Found, Kept, PageIsWhole
<1> QED BY <1>1, PagesAreKept, PTL

\* A reader that no purge overtook is shown a text with its evidence and path.
THEOREM AnswersAreSupported == Spec => []AnswerIsSupported
<1>1. Inv => AnswerIsSupported
  BY DEF Inv, ReaderOK, AnswerIsSupported
<1> QED BY <1>1, PagesAreKept, PTL

\* No purge is on record that did not happen.
THEOREM RecordedPurgesHappened == Spec => []AuditedPurgesHappened
<1>1. Inv => AuditedPurgesHappened
  BY DEF Inv, AuditsOK, AuditedPurgesHappened
<1> QED BY <1>1, PagesAreKept, PTL

\* No step but the one that commits a purge loses a page, a path, a piece of
\* evidence or a contributor.
LEMMA OnlyPurgesForget ==
  ASSUME Inv, [Next]_vars, committed' = committed
  PROVE  /\ DOMAIN concept \subseteq DOMAIN concept'
         /\ \A p \in DOMAIN path : p \in DOMAIN path' /\ path'[p] = path[p]
         /\ evidence \subseteq evidence'
         /\ contributor \subseteq contributor'
<1>1. CASE UNCHANGED tables
  BY <1>1 DEF tables
<1>2. CASE \E w \in Workers : CreateConcept(w)
  BY <1>2 DEF CreateConcept, With, tables
<1>3. CASE \E w \in Workers : AppendEvidence(w)
  BY <1>3 DEF AppendEvidence, With, tables
<1>4. ~DeleteJobs
  BY DEF DeleteJobs, Inv, AuditsOK
<1>5. UNCHANGED tables \/ (\E w \in Workers : CreateConcept(w) \/ AppendEvidence(w))
  <2>1. CASE UNCHANGED vars \/ Done
    BY <2>1 DEF Done, vars
  <2>2. CASE \E w \in Workers : Compile(w)
    BY <2>2 DEF Compile, Take, Skip, ModelFails, Recall, DecideMerge, FindTarget, UpdateConcept,
                DedupEvidence, Settle, WorkerCrashes, DeadlockDetected, KeepTables
  <2>3. CASE Purge \/ Read
    BY <1>4, <2>3 DEF Purge, Read, DeleteContributors, DeleteEvidence, DeletePaths, PurgeStep,
                DeleteConcepts, WriteAudit, PurgeCrashes, ReadPath, ReadRow, ReadPaths,
                ReadEvidence, Answer, KeepTables
  <2> QED BY <2>1, <2>2, <2>3 DEF Next
<1> QED BY <1>1, <1>2, <1>3, <1>5

\* A purge is all or nothing, and nothing but a purge removes knowledge.
THEOREM KnowledgeIsKept == Spec => OnlyPurgeForgets
<1>1. Inv /\ [Next]_vars =>
        [committed' = committed =>
           /\ DOMAIN concept \subseteq DOMAIN concept'
           /\ \A p \in DOMAIN path : p \in DOMAIN path' /\ path'[p] = path[p]
           /\ evidence \subseteq evidence'
           /\ contributor \subseteq contributor']_vars
  BY OnlyPurgesForget
<1> QED BY <1>1, PagesAreKept, PTL DEF Spec, OnlyPurgeForgets
=============================================================================
