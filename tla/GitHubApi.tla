------------------------------ MODULE GitHubApi ------------------------------
(***************************************************************************)
(* What the server asks of GitHub: the installation token and its cache,   *)
(* shared by all calls of a process; one GET and what its status is turned *)
(* into; the paged list of an installation's repositories; and the         *)
(* resolution of a commit to its pull requests and the issues they close.  *)
(*                                                                         *)
(* One step ends at an await.  Time passes in ticks; a request is on its   *)
(* way for at most Latency of them, so a tick waits for those that are due.*)
(***************************************************************************)
EXTENDS Integers, Sequences, FiniteSets, SequencesExt

CONSTANTS
  Calls,     \* calls to the client, each made once
  Pulls,     \* numbers of the pull requests that contain the commit
  Repos,     \* the repositories of the installation, in GitHub's order
  PageSize,  \* repositories on a page: 100
  MAX_PAGES, \* 20
  Life,      \* ticks a new token lives
  Margin,    \* TOKEN_EXPIRY_MARGIN_MS
  Latency,   \* ticks a request is on its way at most
  MaxNow,    \* bound: the last tick
  MaxEdits,  \* bound: changes on GitHub while calls run
  Nothing

\* Of the network: a request arrives within the margin of five minutes; a token
\* lives an hour.
ASSUME TimingAssumption ==
  /\ {PageSize, MAX_PAGES, Life, Margin, Latency, MaxNow, MaxEdits} \subseteq Nat
  /\ Latency <= Margin /\ Margin < Life /\ 2 * Latency < Life

ASSUME PagesAssumption == 0 \notin {PageSize, MAX_PAGES} /\ Repos \in Seq(Nat)

VARIABLES
  now,
  cached,  \* the provider's token: when it expires, or Nothing
  calls,   \* [kind, pc, ...] of each call
  pulls,   \* GitHub's pull requests: [state, tip, body],
           \* tip when the commit is its head
  repos,   \* the repositories the installation reaches, as GitHub lists them
  edits,   \* changes made on GitHub
  overdue  \* a request arrived with a token that had expired

apiVars == <<now, cached, calls, pulls, repos, edits, overdue>>

\* A body is its closing references in order; "apart" says what stands
\* between one and the next: a single separator, or more than one.
Bodies == {<< >>, <<[issue |-> 1, apart |-> TRUE]>>}
  \union {<<[issue |-> 1, apart |-> a], [issue |-> 2, apart |-> TRUE]>> : a \in BOOLEAN}

Idle == [kind |-> Nothing, pc |-> "idle"]
NewCall(kind) ==
  [kind |-> kind, pc |-> "headers", since |-> 0, token |-> Nothing,
   listed |-> Nothing, todo |-> << >>, read |-> << >>, refs |-> << >>,
   names |-> << >>, page |-> 1, asked |-> repos, shifted |-> FALSE, cut |-> FALSE]

ApiInit ==
  /\ now = 0
  /\ cached = Nothing
  /\ calls = [c \in Calls |-> Idle]
  \* the commit is the tip of the last pull request; the others hold it too
  /\ \E closing \in {b \in Bodies : Len(b) < 2} :
       pulls = [p \in Pulls |-> [state |-> "open", tip |-> \A q \in Pulls : q <= p, body |-> closing]]
  /\ repos = Repos
  /\ edits = 0
  /\ overdue = FALSE

Running(c) == calls[c].pc \notin {"idle", "done", "failed"}

-----------------------------------------------------------------------------
(* GitHub's side.                                                           *)

Edit ==
  /\ edits < MaxEdits
  /\ \E c \in Calls : Running(c)
  /\ \/ \E p \in Pulls, s \in {"closed", "merged"} :
          pulls[p].state = "open" /\ pulls' = [pulls EXCEPT ![p].state = s] /\ UNCHANGED <<repos, calls>>
     \/ \E p \in Pulls, b \in Bodies : pulls' = [pulls EXCEPT ![p].body = b] /\ UNCHANGED <<repos, calls>>
     \/ \E k \in DOMAIN repos :
          /\ repos' = RemoveAt(repos, k)
          /\ calls' = [c \in Calls |->
               IF Running(c) /\ calls[c].kind = "repos" THEN [calls[c] EXCEPT !.shifted = TRUE]
               ELSE calls[c]]
          /\ UNCHANGED pulls
  /\ edits' = edits + 1
  /\ UNCHANGED <<now, cached, overdue>>

Due(c) == calls[c].pc \in {"exchange", "sent"} /\ now >= calls[c].since + Latency

Tick ==
  /\ now < MaxNow
  /\ \A c \in Calls : ~ Due(c)
  /\ now' = now + 1
  /\ UNCHANGED <<cached, calls, pulls, repos, edits, overdue>>

\* The page GitHub shows: the next PageSize of the list, as it is when it is asked.
Slice(s, m, n) == SubSeq(s, m, IF n < Len(s) THEN n ELSE Len(s))
PageOf(n) == Slice(repos, (n - 1) * PageSize + 1, n * PageSize)

-----------------------------------------------------------------------------
(* The token.                                                               *)

Put(c, r) == calls' = [calls EXCEPT ![c] = r]

\* Mutant: a token is good until the moment it expires.
Fresh_NoMargin(expiresAt) == now < expiresAt

Fresh(expiresAt) == now < expiresAt - Margin

\* buildHeaders: the cached token if it has more than the margin left, else
\* an exchange; calls that find none at once each make their own.
GetInstallationToken(c) ==
  /\ calls[c].pc = "headers"
  /\ IF cached # Nothing /\ Fresh(cached)
       THEN Put(c, [calls[c] EXCEPT !.pc = "sent", !.since = now, !.token = cached])
       ELSE Put(c, [calls[c] EXCEPT !.pc = "exchange", !.since = now])
  /\ UNCHANGED <<now, cached, pulls, repos, edits, overdue>>

-----------------------------------------------------------------------------
(* What a call does with an answer: "data", "none" (404, 422), or "error"  *)
(* (401, 403, 429, 5xx, the network, a body of an unexpected shape, an     *)
(* exchange that failed).                                                  *)

Ended(r, pc) == [r EXCEPT !.pc = pc, !.token = Nothing, !.since = 0]
Again(r) == [r EXCEPT !.pc = "headers", !.token = Nothing, !.since = 0]

\* The regular expression wants a separator before a keyword and takes one
\* after the number: of two references a single separator apart, the second
\* has none left and is passed over.
ExtractIssueReferences(body, p) ==
  FoldLeft(LAMBDA s, ref :
      [ahead |-> s.ahead => ref.apart,
       found |-> IF s.ahead /\ \A x \in ToSet(s.found) : x.issue # ref.issue
                   THEN Append(s.found, [issue |-> ref.issue, via |-> p]) ELSE s.found],
    [ahead |-> TRUE, found |-> << >>], body).found

ComputeConfidence(pull) ==
  IF pull.state = "merged" THEN "merged"
  ELSE IF pull.state = "open" THEN "open_head" ELSE "closed_unmerged"

\* One reference per issue: through the lowest-numbered pull request.
EarliestByIssue(refs) ==
  { r \in ToSet(refs) : \A q \in ToSet(refs) : q.issue = r.issue => r.via <= q.via }

\* getPullRequestsForCommit, then the body of each in the order listed.
ResolveCommit(r, answer) ==
  IF r.listed = Nothing
    THEN IF answer = "error" THEN {Ended(r, "failed")}
         ELSE IF answer = "none" THEN {Ended([r EXCEPT !.listed = << >>], "done")}
         ELSE { Again([r EXCEPT !.todo = order,
                  !.listed = [i \in DOMAIN order |->
                     [pull |-> order[i], tip |-> pulls[order[i]].tip,
                      confidence |-> ComputeConfidence(pulls[order[i]])]]]) :
                order \in SetToSeqs(Pulls) }
    ELSE LET p == Head(r.todo)
             next == [r EXCEPT !.todo = Tail(@),
                        !.read = IF answer = "data" THEN Append(@, [pull |-> p, body |-> pulls[p].body]) ELSE @,
                        !.refs = IF answer = "data" THEN @ \o ExtractIssueReferences(pulls[p].body, p) ELSE @]
         IN {IF next.todo = << >> THEN Ended(next, "done") ELSE Again(next)}

\* Mutant: a full page is taken for the last one.
ListInstallationRepositories_StopsFull(r, answer) ==
  IF answer = "error" THEN Ended(r, "failed")
  ELSE IF answer = "none" THEN Ended([r EXCEPT !.cut = TRUE], "done")
  ELSE LET next == [r EXCEPT !.names = @ \o PageOf(r.page)] IN
       IF Len(PageOf(r.page)) <= PageSize \/ r.page = MAX_PAGES
         THEN Ended(next, "done") ELSE Again([next EXCEPT !.page = @ + 1])

ListInstallationRepositories(r, answer) ==
  IF answer = "error" THEN Ended(r, "failed")
  ELSE IF answer = "none" THEN Ended([r EXCEPT !.cut = TRUE], "done")
  ELSE LET next == [r EXCEPT !.names = @ \o PageOf(r.page)] IN
       IF Len(PageOf(r.page)) < PageSize \/ r.page = MAX_PAGES
         THEN Ended(next, "done") ELSE Again([next EXCEPT !.page = @ + 1])

Answered(c, answer) ==
  IF calls[c].kind = "commit"
    THEN \E r \in ResolveCommit(calls[c], answer) : Put(c, r)
    ELSE Put(c, ListInstallationRepositories(calls[c], answer))

-----------------------------------------------------------------------------
Call(c, kind) ==
  /\ calls[c].pc = "idle"
  /\ Put(c, NewCall(kind))
  /\ UNCHANGED <<now, cached, pulls, repos, edits, overdue>>

\* The exchange answers: the token it grants, whenever it was granted, is
\* what the cache holds from now on; or it throws.
RefreshToken(c) ==
  /\ calls[c].pc = "exchange"
  /\ \/ \E issued \in calls[c].since..now :
          /\ cached' = issued + Life
          /\ Put(c, [calls[c] EXCEPT !.pc = "sent", !.since = now, !.token = issued + Life])
     \/ Answered(c, "error") /\ UNCHANGED cached
  /\ UNCHANGED <<now, pulls, repos, edits, overdue>>

\* The request reaches GitHub and its answer comes back.
Request(c) ==
  /\ calls[c].pc = "sent"
  /\ \E answer \in {"data", "none", "error"} : Answered(c, answer)
  /\ overdue' = (overdue \/ calls[c].token <= now)
  /\ UNCHANGED <<now, cached, pulls, repos, edits>>

ApiNext ==
  \/ Edit \/ Tick
  \/ \E c \in Calls :
       \/ \E kind \in {"commit", "repos"} : Call(c, kind)
       \/ GetInstallationToken(c) \/ RefreshToken(c) \/ Request(c)

ApiSpec == ApiInit /\ [][ApiNext]_apiVars

-----------------------------------------------------------------------------
(* Properties.                                                             *)

\* No request reaches GitHub with a token that has expired on the way: the
\* margin covers the time a request may take, whichever of several exchanges
\* that ran at once filled the cache last.
TokensAreLive == ~ overdue

\* A listing that GitHub answered to the end, and during which nothing was
\* taken away, is GitHub's list, up to the cap.
ListingIsComplete ==
  \A c \in Calls : LET r == calls[c] IN
    r.kind = "repos" /\ r.pc = "done" /\ ~ r.shifted /\ ~ r.cut
    => r.names = Slice(r.asked, 1, MAX_PAGES * PageSize)

\* An issue is linked through a listed pull request whose body, as it was
\* read, closes it, and through no later one when an earlier also does.
LinksAreEarliest ==
  \A c \in Calls : LET r == calls[c]  linked == EarliestByIssue(r.refs) IN
    r.kind = "commit" /\ r.pc = "done" =>
      \A l \in linked :
        /\ \E x \in ToSet(r.listed) : x.pull = l.via
        /\ \E x \in ToSet(r.read) : x.pull = l.via /\ \E k \in DOMAIN x.body : x.body[k].issue = l.issue
        /\ \A x \in ToSet(r.read) : x.pull < l.via =>
             \A y \in ToSet(ExtractIssueReferences(x.body, x.pull)) : y.issue # l.issue

\* Every closing reference of a body that was read is linked
\* (anchor-resolver.ts: "Extract issue references from a PR body using
\* GitHub's closing keyword pattern").
ReferencesAreLinked ==
  \A c \in Calls : LET r == calls[c] IN
    r.kind = "commit" /\ r.pc = "done" =>
      \A x \in ToSet(r.read) : \A k \in DOMAIN x.body :
        \E l \in EarliestByIssue(r.refs) : l.issue = x.body[k].issue

\* An open pull request is an "open_head" of the commit at its tip
\* (anchor-resolver.ts: "the commit is at the tip of an open PR").
OpenHeadIsTip ==
  \A c \in Calls : calls[c].kind = "commit" /\ calls[c].pc = "done" =>
    \A x \in ToSet(calls[c].listed) : x.confidence = "open_head" => x.tip
=============================================================================
