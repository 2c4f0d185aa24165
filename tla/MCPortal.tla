------------------------------- MODULE MCPortal -------------------------------
(***************************************************************************)
(* What readers of a project's memory use: the lists and their pages,      *)
(* search and the context digest, the download, and the pages of one       *)
(* record.  A behaviour is one of the four; the others stay as one of      *)
(* their initial states has them.                                          *)
(***************************************************************************)
EXTENDS Listing, Retrieval, Export, Detail

\* Similarities: none, one that rounds up to 0.501, one below the range.
SimsUnderTest == {Absent, 5006, -1000}

\* Two that are distinct and are rounded to distinct third decimals.
SimsThatRound == {Absent, 5006, 4992}

\* Names that fill the name field of a tar header to its last bytes, and beyond.
RelPathUnderTest ==
    <<[dir |-> "decisions", depth |-> 2, stem |-> 2, bytes |-> 100],
      [dir |-> "decisions", depth |-> 1, stem |-> 1, bytes |-> 99],
      [dir |-> "concepts", depth |-> 1, stem |-> 1, bytes |-> 101]>>

(***************************************************************************)
(* The one initial state in which each part rests.                         *)
(***************************************************************************)
NoLists == /\ page = "jobs" /\ store = {} /\ used = {} /\ rewrites = 0 /\ ticks = 0 /\ view = Unopened
           /\ asks = {} /\ clicks = 0 /\ failures = 0 /\ calm = TRUE
NoQueries == /\ corpus = [c \in Found |-> [sim |-> Absent, rank |-> Absent, type |-> "one"]]
             /\ wired = FALSE
             /\ wish = [filter |-> "any", limit |-> CHOOSE n \in Limits : TRUE]
             /\ walk = NoWalk /\ edits = 0 /\ steady = Found
             /\ digest = NoDigest
NoDownload == ExportInit
NoPages == /\ role = "viewer" /\ purged = FALSE /\ job = [resets |-> 0, status |-> "failed"]
           /\ trail = {} /\ active = "mine" /\ sent = 1
           /\ tab = Mounted("job", CHOOSE id \in Records : TRUE, Missing)
           /\ calls = {Call(1, "load", tab, active)}

PortalInit == \/ ListInit /\ NoQueries /\ NoDownload /\ NoPages
              \/ NoLists /\ FindInit /\ NoDownload /\ NoPages
              \/ NoLists /\ NoQueries /\ NoDownload /\ DetailInit

PortalNext ==
    \/ NoQueries /\ NoDownload /\ NoPages /\ ListNext
       /\ UNCHANGED <<findVars, exportVars, detailVars>>
    \/ NoLists /\ NoDownload /\ NoPages /\ FindNext
       /\ UNCHANGED <<listVars, exportVars, detailVars>>
    \/ NoLists /\ NoQueries /\ NoPages /\ ExportNext
       /\ UNCHANGED <<listVars, findVars, detailVars>>
    \/ NoLists /\ NoQueries /\ NoDownload /\ DetailNext
       /\ UNCHANGED <<listVars, findVars, exportVars>>

PortalSpec == PortalInit /\ [][PortalNext]_<<listVars, findVars, exportVars, detailVars>>
=============================================================================
