------------------------------- MODULE Export -------------------------------
(***************************************************************************)
(* The download of a project's knowledge: GET /v1/export walks the pages   *)
(* of concepts (exportProject), renders them as a tree of files            *)
(* (renderOkfBundle), packs the tree (buildOkfTar), records the download   *)
(* and answers, while the worker compiles and an owner may purge.          *)
(*                                                                         *)
(* One action is one statement with the code up to the next await.  A body *)
(* stands for the event that wrote it and the link it holds, a line of     *)
(* evidence for the event it cites; the other fields of a concept are      *)
(* copied along with these.  A file name is its directories, its stem, and *)
(* how many bytes it has.                                                  *)
(***************************************************************************)
EXTENDS Integers, FiniteSets, Paging

CONSTANTS
    Concepts,    \* uuids, numbers in their order
    RelPath,     \* its file name: [Concepts -> [dir, depth, stem, bytes]]
    Links,       \* the concepts a body may link to, 0 for none
    Citations,   \* events that may be merged; 0 is the one that created the concept
    PageLimits,  \* sizes of a page
    NAME_FIELD,  \* bytes of a name in a tar header, its terminator included
    MaxCreations, MaxMerges, MaxPurged,  \* bounds: concepts created and merged into, purges
    Canonical    \* a link that keeps its teamem:// URI, a name that was not read

\* OKF_TYPE_DIRS, some of the six: every type has its own.
OKF_TYPE_DIRS == {"decisions", "concepts"}

Names == [dir : OKF_TYPE_DIRS, depth : Nat, stem : Nat, bytes : Nat]

\* A path belongs to one concept of the project at most.
ASSUME ExportAssumption ==
    /\ Concepts \subseteq Nat \ {0} /\ IsFiniteSet(Concepts)
    /\ PageLimits \subseteq Nat \ {0}
    /\ NAME_FIELD \in Nat /\ NAME_FIELD > 8      \* the reserved file fits
    /\ RelPath \in [Concepts -> Names]
    /\ \A c, d \in Concepts : RelPath[c] = RelPath[d] => c = d
    /\ Canonical \notin [at : Nat, uuid : Concepts] \union Names

VARIABLES
    rows,      \* rows of concepts: a function on some of Concepts
    named,     \* rows of concept_paths: a function on some of Concepts
    cited,     \* rows of concept_evidence: a function on some of Concepts
    clock,     \* the database's time
    writes,    \* creations, merges and purges so far
    request,   \* what the handler has in hand
    bundle,    \* concepts read so far, each with its page, and those skipped
    outcome,   \* what was answered
    button,    \* the page with the export button
    since      \* history: rows when the request came, purges since left out

exportVars == <<rows, named, cited, clock, writes, request, bundle, outcome, button, since>>
tables == <<rows, named, cited, clock, writes>>

NoRequest == [pc |-> "idle", limit |-> 1, cursor |-> Canonical, page |-> {},
              next |-> Canonical, paths |-> Canonical, evidence |-> Canonical]
NoBundle == [concepts |-> {}, pages |-> 0, skipped |-> {}]
NothingShown == [of |-> "none", status |-> "none"]
NoOutcome == [status |-> "none", archive |-> {}]

ExportInit ==
    /\ rows = << >> /\ named = << >> /\ cited = << >>
    /\ clock = 1
    /\ writes = [created |-> {}, merges |-> 0, purges |-> 0]
    /\ request = NoRequest
    /\ bundle = NoBundle
    /\ outcome = NoOutcome
    /\ button = [project |-> "mine", asked |-> "none", shown |-> NothingShown]
    /\ since = << >>

-----------------------------------------------------------------------------
(***************************************************************************)
(* The writers of the project, each one transaction (see Concepts).        *)
(***************************************************************************)
Adding(f, x, v) == [y \in DOMAIN f \union {x} |-> IF y = x THEN v ELSE f[y]]

\* A bound only: writers stop when nothing will be read any more.
Reading == outcome.status = "none" /\ request.pc # "audit"

ClockTick == /\ clock < 2 /\ Reading
             /\ clock' = clock + 1
             /\ UNCHANGED <<rows, named, cited, writes, request, bundle, outcome, button, since>>

\* created_at is when the transaction began, which may be before others committed.
Create(c, link) ==
    /\ Cardinality(writes.created) < MaxCreations
    /\ Reading
    /\ c \notin writes.created \* uuids are not used again
    /\ \E began \in 1..clock :
           rows' = Adding(rows, c, [at |-> began, body |-> 0, link |-> link])
    /\ named' = Adding(named, c, RelPath[c])
    /\ cited' = Adding(cited, c, {0})
    /\ writes' = [writes EXCEPT !.created = @ \union {c}]
    /\ UNCHANGED <<clock, request, bundle, outcome, button, since>>

Merge(c, e, link) ==
    /\ writes.merges < MaxMerges
    /\ Reading
    /\ c \in DOMAIN rows
    /\ rows' = [rows EXCEPT ![c].body = e, ![c].link = link]
    /\ cited' = [cited EXCEPT ![c] = @ \union {e}]
    /\ writes' = [writes EXCEPT !.merges = @ + 1]
    /\ UNCHANGED <<named, clock, request, bundle, outcome, button, since>>

PurgeProject ==
    /\ writes.purges < MaxPurged
    /\ Reading
    /\ rows # << >>
    /\ rows' = << >> /\ named' = << >> /\ cited' = << >>
    /\ writes' = [writes EXCEPT !.purges = @ + 1]
    /\ since' = << >>
    /\ UNCHANGED <<clock, request, bundle, outcome, button>>

-----------------------------------------------------------------------------
(***************************************************************************)
(* exportProject: a page of concepts and their children.                   *)
(***************************************************************************)
Sooner(x, y) == \/ rows[x].at < rows[y].at
                \/ rows[x].at = rows[y].at /\ x < y

Ordered(left) == {p \in left \X left : Sooner(p[1], p[2])}

Beyond(c, cursor) ==
    \/ cursor = Canonical
    \/ rows[c].at > cursor.at
    \/ rows[c].at = cursor.at /\ c > cursor.uuid

\* The existence of the project, the count, and, for a further page, the boundary.
Probe ==
    /\ request.pc = "probe"
    /\ IF \/ request.cursor = Canonical
          \/ /\ request.cursor.uuid \in DOMAIN rows
             /\ rows[request.cursor.uuid].at = request.cursor.at
       THEN /\ request' = [request EXCEPT !.pc = "page"]
            /\ UNCHANGED <<bundle, outcome, since>>
       ELSE /\ outcome' = [status |-> "invalid_cursor", archive |-> {}]
            /\ request' = NoRequest
            /\ bundle' = NoBundle
            /\ since' = << >>
    /\ UNCHANGED <<tables, button>>

Boundary(c) == [at |-> rows[c].at, uuid |-> c]

\* One row more than the page tells whether there is a further one.
ReadConcepts ==
    /\ request.pc = "page"
    /\ LET left == {c \in DOMAIN rows : Beyond(c, request.cursor)}
           visible == FirstOf(left, Ordered(left), request.limit)
       IN  request' = [request EXCEPT
               !.pc = "children",
               !.page = {[uuid |-> c, at |-> rows[c].at, body |-> rows[c].body,
                          link |-> rows[c].link] : c \in visible},
               !.next = IF Cardinality(left) > request.limit
                        THEN Boundary(LastOf(visible, Ordered(left))) ELSE Canonical]
    /\ UNCHANGED <<tables, bundle, outcome, button, since>>

OfPage(f) == [c \in DOMAIN f \intersect {row.uuid : row \in request.page} |-> f[c]]

\* The statements of one Promise.all, in any order on connections of their own.
ReadPaths == /\ request.pc = "children" /\ request.paths = Canonical
             /\ request' = [request EXCEPT !.paths = [of |-> OfPage(named)]]
             /\ UNCHANGED <<tables, bundle, outcome, button, since>>

ReadEvidence == /\ request.pc = "children" /\ request.evidence = Canonical
                /\ request' = [request EXCEPT !.evidence = [of |-> OfPage(cited)]]
                /\ UNCHANGED <<tables, bundle, outcome, button, since>>

\* A current path and at least one piece of evidence, as the schema requires.
AssembleValidated(row) == /\ row.uuid \in DOMAIN request.paths.of
                          /\ row.uuid \in DOMAIN request.evidence.of

Assembled(row) ==
    [uuid |-> row.uuid, name |-> request.paths.of[row.uuid], body |-> row.body,
     link |-> row.link, page |-> bundle.pages,
     evidence |-> IF row.uuid \in DOMAIN request.evidence.of
                  THEN request.evidence.of[row.uuid] ELSE {}]

\* The page joins the bundle; the walk goes on while there is a cursor.
TakePage ==
    /\ request.pc = "children"
    /\ request.paths # Canonical /\ request.evidence # Canonical
    /\ LET valid == {row \in request.page : AssembleValidated(row)}
       IN  bundle' = [concepts |-> bundle.concepts \union {Assembled(row) : row \in valid},
                      pages |-> bundle.pages + 1,
                      skipped |-> bundle.skipped \union {row.uuid : row \in request.page \ valid}]
    /\ request' = IF request.next # Canonical
                  THEN [NoRequest EXCEPT !.pc = "probe", !.limit = request.limit,
                                         !.cursor = request.next]
                  ELSE [NoRequest EXCEPT !.pc = "audit"]
    /\ UNCHANGED <<tables, outcome, button, since>>

-----------------------------------------------------------------------------
(***************************************************************************)
(* renderOkfBundle and buildOkfTar: pure functions of what was read.       *)
(***************************************************************************)

RelativeMarkdownLink(from, to) == [up |-> from.depth, to |-> to]

ResolveTeamemLinks(concept, paths) ==
    IF concept.link \in DOMAIN paths
    THEN RelativeMarkdownLink(concept.name, paths[concept.link])
    ELSE Canonical

PathsOf(concepts) ==
    [c \in {d.uuid : d \in concepts} |-> (CHOOSE d \in concepts : d.uuid = c).name]

\* Two concepts under one name, or one concept twice: nothing is rendered.
Collide(concepts) == \E c, d \in concepts : c # d /\ c.name = d.name

Index == [dir |-> "root", depth |-> 0, stem |-> 0, bytes |-> 8]

RenderBundleIndex(concepts) ==
    [name |-> Index, uuid |-> 0, body |-> 0, page |-> 0, evidence |-> {},
     links |-> {RelativeMarkdownLink(Index, c.name) : c \in concepts}]

RenderConceptPage(concept, paths) ==
    [name |-> concept.name, uuid |-> concept.uuid, body |-> concept.body,
     page |-> concept.page, evidence |-> concept.evidence,
     links |-> IF concept.link = 0 THEN {} ELSE {ResolveTeamemLinks(concept, paths)}]

\* The reserved file, and the pages in the directories of the types.
RenderOkfBundle(concepts) ==
    {RenderBundleIndex(concepts)} \union
        {RenderConceptPage(c, PathsOf(concepts)) : c \in {d \in concepts : d.name.dir \in OKF_TYPE_DIRS}}

\* A field keeps as much of a name as fits before its terminator.
WriteField(name) ==
    [name EXCEPT !.bytes = IF @ > NAME_FIELD - 1 THEN NAME_FIELD - 1 ELSE @]

\* Mutant: a name that fills the field to its last byte is not written long.
NeedsLongName_OffByOne(name) == name.bytes > NAME_FIELD

NeedsLongName(name) == name.bytes > NAME_FIELD - 1

\* A file is one entry, after another that holds its name if that is long.
ArchiveEntries(file) == [longName |-> IF NeedsLongName(file.name) THEN file.name ELSE Canonical,
                         name |-> WriteField(file.name), data |-> file]

BuildOkfTar(files) == {ArchiveEntries(f) : f \in files}

-----------------------------------------------------------------------------
(***************************************************************************)
(* The route and the button.                                               *)
(***************************************************************************)
\* A viewer downloads nothing; a key bound to a project has that one only, any other
\* caller must name one.
ResolveProject(caller, query) ==
    CASE caller = "viewer" -> "forbidden"
      [] caller = "project_key" -> IF query \in {"none", "mine"} THEN "mine" ELSE "forbidden"
      [] OTHER -> IF query = "none" THEN "invalid_request" ELSE query

\* A project of another team is answered like a missing one; a bound: one download.
GetExport(caller, query, limit) ==
    LET project == ResolveProject(caller, query) IN
    /\ outcome.status = "none" /\ request.pc = "idle"
    /\ IF project = "mine"
       THEN /\ request' = [NoRequest EXCEPT !.pc = "probe", !.limit = limit]
            /\ since' = [c \in DOMAIN rows |-> [name |-> named[c], evidence |-> cited[c]]]
            /\ UNCHANGED outcome
       ELSE /\ outcome' = [status |-> IF project \in {"foreign", "missing"}
                                     THEN "not_found" ELSE project,
                           archive |-> {}]
            /\ UNCHANGED <<request, since>>
    /\ UNCHANGED <<tables, bundle>>

\* The button is disabled while it is busy.
Download(limit) ==
    /\ button.asked = "none"
    /\ button' = [button EXCEPT !.asked = button.project, !.shown = NothingShown]
    /\ GetExport("member", button.project, limit)

Request(caller, query, limit) ==
    /\ GetExport(caller, query, limit)
    /\ button.asked = "none" /\ UNCHANGED button
    /\ button.project = "mine" /\ rows # << >> \* bounds only: one page shown, no empty project

\* The archive is made, and goes out only once the download is on record.
WriteAuditRecord ==
    /\ request.pc = "audit"
    /\ IF Collide(bundle.concepts)
       THEN outcome' = [status |-> "corrupted", archive |-> {}]
       ELSE \/ outcome' = [status |-> "ok",
                           archive |-> BuildOkfTar(RenderOkfBundle(bundle.concepts))]
            \/ outcome' = [status |-> "audit_failed", archive |-> {}]
    /\ request' = [request EXCEPT !.pc = "idle"]
    /\ UNCHANGED <<tables, bundle, button, since>>

\* The answer comes to the page that shows the project chosen by now.
ShowFeedback ==
    /\ outcome.status # "none" /\ button.asked # "none"
    /\ button' = [button EXCEPT !.shown = [of |-> button.asked, status |-> outcome.status],
                                !.asked = "none"]
    /\ UNCHANGED <<tables, request, bundle, outcome, since>>

SwitchProject ==
    /\ button.project = "mine" /\ request.pc \in {"idle", "audit"} \* a bound
    /\ button' = [button EXCEPT !.project = "missing"]
    /\ UNCHANGED <<tables, request, bundle, outcome, since>>

ExportNext ==
    \/ ClockTick \/ PurgeProject
    \/ \E c \in Concepts, link \in Links :
           Create(c, link) \/ \E e \in Citations : Merge(c, e, link)
    \/ \E limit \in PageLimits :
           \/ Download(limit)
           \/ \E caller \in {"viewer", "project_key", "team_key"},
                 query \in {"none", "mine", "foreign", "missing"} :
                 Request(caller, query, limit)
    \/ Probe \/ ReadConcepts \/ ReadPaths \/ ReadEvidence \/ TakePage
    \/ WriteAuditRecord \/ ShowFeedback \/ SwitchProject

ExportSpec == ExportInit /\ [][ExportNext]_exportVars

-----------------------------------------------------------------------------
(***************************************************************************)
(* Properties of what was downloaded, as tar extracts it.                  *)
(***************************************************************************)
\* A long name replaces that of the entry after it.
ExtractedName(entry) == IF entry.longName # Canonical THEN entry.longName ELSE entry.name

Extract(archive) == {[entry.data EXCEPT !.name = ExtractedName(entry)] : entry \in archive}

\* Where a relative link leads from a file: past the root, or short of it, nowhere.
Leads(file, link, target) == link.up = file.name.depth /\ link.to = target.name

\* Every concept there from the request on, with no purge since, is in the download
\* under its path with at least the evidence it had, once; no two files have one name, so
\* that no page is ever refused for it; and every relative link leads to a file in it (the
\* cursor of exportProject, renderOkfBundle, buildOkfTar).
DownloadIsWhole ==
    /\ outcome.status # "corrupted"
    /\ outcome.status = "ok" =>
        LET files == Extract(outcome.archive) IN
        /\ \A c \in DOMAIN since :
               \E f \in files : /\ f.uuid = c
                                /\ f.name = since[c].name
                                /\ since[c].evidence \subseteq f.evidence
        /\ \A f, g \in files : f.name = g.name \/ f.uuid = g.uuid => f = g
        /\ \A f \in files : \A link \in f.links \ {Canonical} :
               \E g \in files : Leads(f, link, g)

\* A page of the download cites the event its body comes from, though evidence is read
\* after the rows and writers commit in between (exportProject, assembleValidated).
PagesAreSupported == \A c \in bundle.concepts : c.body \in c.evidence

\* Counterexample only: the renderer never throws the repository's error of a cursor.
CursorStaysValid == outcome.status # "invalid_cursor"

\* Counterexample only: what the page says of a download is about the project it shows.
FeedbackIsOfProject == button.shown.of \in {"none", button.project}
=============================================================================
