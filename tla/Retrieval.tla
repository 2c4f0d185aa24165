------------------------------ MODULE Retrieval ------------------------------
(***************************************************************************)
(* What an agent or a reader gets of a project's concepts: the answers of  *)
(* POST /v1/search and of the search tool, page by page, and the digest of *)
(* GET /v1/context with the preview page that parses it.                   *)
(*                                                                         *)
(* To a query, a concept is how near its embedding lies (sim) and how well *)
(* its words match (rank), both in ten-thousandths, Absent where it has no *)
(* embedding or no such words. A relevance is in hundred-thousandths, so   *)
(* that the weights 0.7 and 0.3 and the rounding to three decimals stay    *)
(* what they are.                                                          *)
(***************************************************************************)
EXTENDS Integers, Sequences, FiniteSets, Paging

CONSTANTS
    Found,         \* the concepts, numbers in the order of their uuids
    Sims, Ranks,   \* the similarities and ranks they may have, Absent among them
    Limits,        \* page sizes asked for
    MULTIPLIER,    \* BATCH_MULTIPLIER
    MAX_BATCH,     \* MAX_BATCH of the search
    MAX_NEIGHBOURS,\* MAX_LIMIT of the vector query
    Lengths,       \* the lengths of digest entries
    TOKEN_BUDGET, CHARS_PER_TOKEN,
    MaxPages,      \* bound: pages a walk asks for
    MaxEdits,      \* bound: concepts edited during a walk
    Absent         \* undefined

Types == {"one", "two"}

\* What a cursor says: the relevance and the id of a row.
Places == [relevance : Int, id : Found]

\* The ranks of ts_rank have no upper bound.
ASSUME RetrievalAssumption ==
    /\ Found \subseteq Nat /\ IsFiniteSet(Found)
    /\ Ranks \ {Absent} \subseteq Nat
    /\ Sims \ {Absent} \subseteq Int
    /\ Limits \subseteq Nat \ {0} /\ MULTIPLIER \in Nat /\ MAX_BATCH \in Nat
    /\ Absent \notin Places /\ Absent \notin Found
    /\ Lengths \subseteq Nat /\ TOKEN_BUDGET \in Nat /\ CHARS_PER_TOKEN \in Nat \ {0}

VARIABLES
    corpus,   \* the concepts of the project, by id
    wired,    \* whether the server has an embedding client
    wish,     \* the query's filter, page size and first page's state
    walk,     \* what the caller has so far
    edits,    \* concepts edited
    steady,   \* history: concepts not edited since the walk began
    digest    \* rows of the context request, its answer, the items the page shows

findVars == <<corpus, wired, wish, walk, edits, steady, digest>>

NoWalk == [pages |-> << >>, cursor |-> Absent, done |-> FALSE, last |-> Absent, ways |-> {}]

NoDigest == [rows |-> << >>, answer |-> Absent, items |-> << >>]

SearchInit == /\ corpus \in [Found -> [sim : Sims, rank : Ranks, type : Types]]
              /\ wired \in BOOLEAN
              /\ wish \in [filter : {"any", "one"}, limit : Limits]
              /\ walk = NoWalk
              /\ edits = 0
              /\ steady = Found

-----------------------------------------------------------------------------
(***************************************************************************)
(* The two sources.                                                        *)
(***************************************************************************)
Chosen(c, filter) == filter = "any" \/ corpus[c].type = filter

\* A row after the cursor, by relevance descending and uuid ascending.
After(relevance, id, cursor) ==
    \/ cursor = Absent
    \/ relevance < cursor.relevance
    \/ relevance = cursor.relevance /\ id > cursor.id

Best(a, b) == \/ a.relevance > b.relevance
              \/ a.relevance = b.relevance /\ a.id < b.id

ByRelevance(rows) == {p \in rows \X rows : Best(p[1], p[2])}

\* The first n rows, and where they end if there are more.
Cut(rows, n) ==
    LET first == FirstOf(rows, ByRelevance(rows), n)
        final == LastOf(first, ByRelevance(rows))
    IN  [rows |-> first,
         end |-> IF Cardinality(rows) > n
                 THEN [relevance |-> final.relevance, id |-> final.id] ELSE Absent]

\* 0 <= r: a rank is not negative.
ClampRank(r) == IF r > 10000 THEN 10000 ELSE r

\* The query compares and orders by the rank as it is; the answer has it clamped.
MatchesAfter(filter, cursor) ==
    {[id |-> c, relevance |-> 10 * corpus[c].rank] :
        c \in {d \in Found : /\ corpus[d].rank # Absent /\ Chosen(d, filter)
                             /\ After(10 * corpus[d].rank, d, cursor)}}

Clamped(row) == [id |-> row.id, relevance |-> 10 * ClampRank(corpus[row.id].rank)]

\* Mutant: the rank is rounded before it goes into a cursor, as the API shows it.
FtsSearchConcepts_Rounds(filter, n, cursor) ==
    LET found == Cut(MatchesAfter(filter, cursor), n)
    IN  [rows |-> {Clamped(row) : row \in found.rows},
         end |-> IF found.end = Absent THEN Absent
                 ELSE [id |-> found.end.id,
                       relevance |-> ((Clamped(found.end).relevance + 50) \div 100) * 100]]

FtsSearchConcepts(filter, n, cursor) ==
    LET found == Cut(MatchesAfter(filter, cursor), n)
    IN  [rows |-> {Clamped(row) : row \in found.rows},
         end |-> IF found.end = Absent THEN Absent ELSE Clamped(found.end)]

\* The nearest n, whatever their type: the query has no filters. More than
\* MAX_NEIGHBOURS are refused.
FindSimilarConcepts(n) ==
    IF n > MAX_NEIGHBOURS THEN {}
    ELSE Cut({[id |-> c, relevance |-> corpus[c].sim] :
                 c \in {d \in Found : corpus[d].sim # Absent}}, n).rows

-----------------------------------------------------------------------------
(***************************************************************************)
(* Their fusion.                                                           *)
(***************************************************************************)

ClampSimilarity(s) == IF s < 0 THEN 0 ELSE IF s > 10000 THEN 10000 ELSE s

CombinedScore(sim, rank) == (IF sim = Absent THEN 0 ELSE 7 * ClampSimilarity(sim))
                            + (IF rank = Absent THEN 0 ELSE 3 * ClampRank(rank))

Round(relevance) == ((relevance + 50) \div 100) * 100

FromWords(row) == [id |-> row.id, relevance |-> row.relevance, ftsFallback |-> TRUE]

\* Without an embedding of the query the words alone decide, and the answer says so.
FallBack(cursor, wordsFail) ==
    IF wordsFail THEN [error |-> "failed", rows |-> {}, degraded |-> FALSE, end |-> Absent]
    ELSE LET found == FtsSearchConcepts(wish.filter, wish.limit, cursor)
         IN  [error |-> Absent, rows |-> {FromWords(row) : row \in found.rows},
              degraded |-> TRUE, end |-> found.end]

\* Both sources are asked for a batch, one that fails counts as empty; the rows are
\* fused, ordered, and the page is cut out after the cursor.
Fuse(cursor, vectorFails, wordsFail) ==
    LET batch == IF wish.limit * MULTIPLIER < MAX_BATCH THEN wish.limit * MULTIPLIER
                 ELSE MAX_BATCH
        near  == IF vectorFails THEN {} ELSE FindSimilarConcepts(batch)
        words == IF wordsFail THEN {} ELSE FtsSearchConcepts(wish.filter, batch, Absent).rows
        isNear == {row.id : row \in near}
        isSaid == {row.id : row \in words}
        scored == {[id |-> c,
                    relevance |-> CombinedScore(IF c \in isNear THEN corpus[c].sim ELSE Absent,
                                                IF c \in isSaid THEN corpus[c].rank ELSE Absent),
                    ftsFallback |-> c \notin isNear] : c \in isNear \cup isSaid}
        fused == Cut({row \in scored : After(row.relevance, row.id, cursor)}, wish.limit)
    IN  [error |-> Absent,
         rows |-> {[row EXCEPT !.relevance = Round(@)] : row \in fused.rows},
         degraded |-> FALSE,
         end |-> IF fused.end = Absent THEN Absent ELSE [fused.end EXCEPT !.relevance = Round(@)]]

\* hybridSearch: whether the query got an embedding, whether either query fails.
HybridSearch(embedded, cursor, vectorFails, wordsFail) ==
    IF wired /\ embedded THEN Fuse(cursor, vectorFails, wordsFail)
    ELSE FallBack(cursor, wordsFail)

-----------------------------------------------------------------------------
(***************************************************************************)
(* A walk through the pages. The cursor carries the relevance of the last  *)
(* row as the page gives it.                                               *)
(***************************************************************************)
Search(embedded, vectorFails, wordsFail) ==
    /\ ~walk.done /\ Len(walk.pages) < MaxPages
    /\ wired \/ embedded                                \* without a client nothing to tell apart
    /\ vectorFails => wired /\ embedded
    /\ LET answer == HybridSearch(embedded, walk.cursor, vectorFails, wordsFail)
           way  == IF wired /\ embedded THEN "fused" ELSE "words"
       IN  walk' = IF answer.error # Absent THEN walk      \* asked again
                   ELSE [pages |-> Append(walk.pages, answer.rows),
                         cursor |-> answer.end, done |-> answer.end = Absent,
                         last |-> answer,
                         ways |-> walk.ways \cup
                                  {IF vectorFails \/ wordsFail THEN "poor" ELSE way}]
    /\ UNCHANGED <<corpus, wired, wish, edits, steady, digest>>

\* A concept is merged into between two pages: its words change, and its type may. Bound:
\* only in walks by words.
Edit(c) == /\ edits < MaxEdits /\ walk.ways = {"words"} /\ ~walk.done
           /\ edits' = edits + 1
           /\ \E to \in [sim : {corpus[c].sim}, rank : Ranks, type : Types] :
                 to # corpus[c] /\ corpus' = [corpus EXCEPT ![c] = to]
           /\ steady' = steady \ {c}
           /\ UNCHANGED <<wired, wish, walk, digest>>

SearchNext == \/ \E e, v, w \in BOOLEAN : Search(e, v, w)
              \/ \E c \in Found : Edit(c)

-----------------------------------------------------------------------------
(***************************************************************************)
(* The digest. A row has a confidence, a time, the length of its entry and *)
(* the kind of its one-line summary: text, a line that reads as a rule or  *)
(* as the type line of an entry.                                           *)
(***************************************************************************)
Summaries == {"text", "rule", "type"}

DigestInit == /\ digest \in [rows : [Found -> [confidence : {"high", "medium", "low"},
                                              when : 0..1, length : Lengths,
                                              summary : Summaries]],
                             answer : {Absent}, items : {<< >>}]

Level(confidence) == CASE confidence = "high"   -> 1
                       [] confidence = "medium" -> 2
                       [] confidence = "low"    -> 3

\* High before medium, the enumeration's order; within, the latest confirmed first. Rows
\* of one time come in any order: by id.
GoesFirst(rows, a, b) ==
    LET x == Level(rows[a].confidence)
        y == Level(rows[b].confidence)
    IN  \/ x < y
        \/ x = y /\ rows[a].when > rows[b].when
        \/ x = y /\ rows[a].when = rows[b].when /\ a < b

ByConfidence(rows, these) == {p \in these \X these : GoesFirst(rows, p[1], p[2])}

Listed(rows) == {c \in Found : rows[c].confidence # "low"}

FetchContextConcepts(rows) ==
    [i \in 1..Cardinality(Listed(rows)) |->
        CHOOSE c \in Listed(rows) :
            Cardinality(Ahead(Listed(rows), ByConfidence(rows, Listed(rows)), c)) = i - 1]

ApproxTokenCount(chars) == (chars + CHARS_PER_TOKEN - 1) \div CHARS_PER_TOKEN

HEADER == 16     \* "# Team Context" and two line ends
RULE == 6        \* the separator

\* The lines of an entry.
RenderConceptEntry(c, row) == <<[kind |-> "heading", id |-> c], [kind |-> "type", id |-> c],
                                [kind |-> row.summary, id |-> 0], [kind |-> "link", id |-> c]>>

Separator(acc) == IF acc.included > 0 THEN <<[kind |-> "rule", id |-> 0]>> ELSE << >>

Chunk(acc, row) == ApproxTokenCount((IF acc.included > 0 THEN RULE ELSE 0) + row.length)

\* Mutant: an entry that does not fit is left out, and smaller ones after it get in.
WithEntry_SkipsLarge(acc, c, row) ==
    IF acc.budgetUsed + Chunk(acc, row) > TOKEN_BUDGET THEN acc
    ELSE [lines |-> acc.lines \o Separator(acc) \o RenderConceptEntry(c, row),
          budgetUsed |-> acc.budgetUsed + Chunk(acc, row), included |-> acc.included + 1,
          full |-> FALSE]

\* The entry of c is appended unless it, or one before it, does not fit.
WithEntry(acc, c, row) ==
    IF acc.full \/ acc.budgetUsed + Chunk(acc, row) > TOKEN_BUDGET
    THEN [acc EXCEPT !.full = TRUE]
    ELSE [lines |-> acc.lines \o Separator(acc) \o RenderConceptEntry(c, row),
          budgetUsed |-> acc.budgetUsed + Chunk(acc, row), included |-> acc.included + 1,
          full |-> FALSE]

NoEntries == [lines |-> << >>, budgetUsed |-> ApproxTokenCount(HEADER), included |-> 0,
              full |-> FALSE]

AssembleMarkdown(rows) ==
    LET ordered == FetchContextConcepts(rows)
        upTo[n \in 0..Len(ordered)] ==
            IF n = 0 THEN NoEntries ELSE WithEntry(upTo[n - 1], ordered[n], rows[ordered[n]])
    IN  upTo[Len(ordered)]

\* The page reads the lines back: a heading opens an item, a type line sets its type
\* and path (again), a link closes it; rules are skipped.
ReadLine(acc, line) ==
    CASE line.kind = "heading" -> [acc EXCEPT !.title = line.id, !.typed = Absent]
      [] line.kind = "type" /\ acc.title # Absent -> [acc EXCEPT !.typed = line.id]
      [] line.kind = "link" /\ acc.title # Absent ->
            [items |-> Append(acc.items, [title |-> acc.title, typed |-> acc.typed,
                                          uuid |-> line.id]),
             title |-> Absent, typed |-> Absent]
      [] OTHER -> acc

NothingRead == [items |-> << >>, title |-> Absent, typed |-> Absent]

ParseContextMarkdown(lines) ==
    LET upTo[n \in 0..Len(lines)] ==
            IF n = 0 THEN NothingRead ELSE ReadLine(upTo[n - 1], lines[n])
    IN  upTo[Len(lines)].items

GetContext == /\ digest.answer = Absent
              /\ digest' = [digest EXCEPT !.answer = AssembleMarkdown(digest.rows)]
              /\ UNCHANGED <<corpus, wired, wish, walk, edits, steady>>

ContextPreview == /\ digest.answer # Absent /\ digest.items = << >>
                  /\ digest.answer.lines # << >>
                  /\ digest' = [digest EXCEPT !.items = ParseContextMarkdown(digest.answer.lines)]
                  /\ UNCHANGED <<corpus, wired, wish, walk, edits, steady>>

-----------------------------------------------------------------------------
(***************************************************************************)
(* A behaviour is a walk or a digest.                                      *)
(***************************************************************************)
\* The other part has one state only.
FindInit == \/ SearchInit /\ digest = NoDigest
            \/ /\ DigestInit
               /\ corpus = [c \in Found |-> [sim |-> Absent, rank |-> Absent, type |-> "one"]]
               /\ wired = FALSE /\ wish = [filter |-> "any", limit |-> 1]
               /\ walk = [NoWalk EXCEPT !.done = TRUE] /\ edits = 0 /\ steady = Found

FindNext == \/ SearchNext
            \/ digest # NoDigest /\ (GetContext \/ ContextPreview)

FindSpec == FindInit /\ [][FindNext]_findVars

-----------------------------------------------------------------------------
(***************************************************************************)
(* Properties.                                                             *)
(***************************************************************************)
Shows(c) == Cardinality({i \in DOMAIN walk.pages : \E row \in walk.pages[i] : row.id = c})

Matches(c) == corpus[c].rank # Absent /\ Chosen(c, wish.filter)

\* A page before the last has rows of relevance 1 only, which is where the cursor of an
\* answer no longer tells where the query stopped.
Topped == \E i \in 1..(Len(walk.pages) - 1) : \A row \in walk.pages[i] : row.relevance = 100000

\* A walk that the words alone decided, to its last page, shows no unedited concept
\* twice and none that does not match or is of another type. It shows every one of them
\* that does, although others are edited and ranks tie at the page's end, where the
\* rank is below 1 or no page before the last was all of relevance 1 (ftsSearchConcepts
\* with the cursor of search and searchHandler).
KeywordWalkIsExact ==
    walk.done /\ walk.ways = {"words"} =>
        \A c \in steady :
            /\ Shows(c) <= 1
            /\ Shows(c) = 1 => Matches(c)
            /\ Matches(c) /\ (corpus[c].rank < 10000 \/ ~Topped) => Shows(c) = 1

Above(x, y) == IF x = Absent THEN y = Absent ELSE y = Absent \/ x > y

\* In a page fused from both sources, a concept that is nearer than another (or neither
\* has an embedding) and matches the words better (or neither does) is no less relevant
\* (combinedScore over clamped scores, the merge by uuid, the batches of the sources).
CloserIsNoLess ==
    walk.last # Absent /\ edits = 0 /\ wish.filter = "any" =>
        \A x, y \in walk.last.rows :
            LET a == corpus[x.id]
                b == corpus[y.id]
            IN  Above(a.sim, b.sim) /\ Above(a.rank, b.rank) => x.relevance >= y.relevance

\* The preview shows the entries of the digest, each under its own title: none of low
\* confidence, no concept twice, and before each of them just the concepts that go
\* first. Together they stay within the budget (assembleMarkdown, parseContextMarkdown).
DigestIsShown ==
    digest.items # << >> =>
        LET rows  == digest.rows
            shown == digest.items
            chars[n \in 0..Len(shown)] ==
                IF n = 0 THEN HEADER
                ELSE chars[n - 1] + (IF n > 1 THEN RULE ELSE 0) + rows[shown[n].uuid].length
        IN  /\ Len(shown) = digest.answer.included
            /\ \A i \in DOMAIN shown :
                  /\ shown[i].title = shown[i].uuid
                  /\ rows[shown[i].uuid].confidence # "low"
                  /\ \A c \in Listed(rows) :
                        GoesFirst(rows, c, shown[i].uuid) <=> \E j \in 1..(i - 1) : shown[j].uuid = c
            /\ ApproxTokenCount(chars[Len(shown)]) <= TOKEN_BUDGET

\* Counterexample only: what matches is shown however well it matches. The rank of a row
\* is clamped on its way into the cursor and not in the query that compares it.
KeywordWalkIsWhole ==
    walk.done /\ walk.ways = {"words"} => \A c \in steady : Matches(c) => Shows(c) = 1

\* Counterexample only: a walk through fused pages of an unchanged project shows a row
\* twice or not at all, as the cursor is rounded where the scores are not.
FusedWalkIsExact ==
    walk.ways = {"fused"} /\ wish.filter = "any" =>
        \A c \in Found : corpus[c].sim # Absent =>
            IF walk.done THEN Shows(c) = 1 ELSE Shows(c) <= 1

\* Counterexample only: with embeddings, the concepts of other types come along.
FiltersApply ==
    \A i \in DOMAIN walk.pages : \A row \in walk.pages[i] : Chosen(row.id, wish.filter)

\* Counterexample only: the answer is said to be semantic where no vector was compared.
DegradationIsExplicit ==
    walk.last # Absent /\ walk.last.rows # {}
        /\ (\A row \in walk.last.rows : corpus[row.id].sim # Absent)
        /\ edits = 0 =>
           walk.last.degraded \/ \E row \in walk.last.rows : ~row.ftsFallback
=============================================================================
