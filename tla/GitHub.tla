-------------------------------- MODULE GitHub --------------------------------
(***************************************************************************)
(* What the GitHub connector makes of webhooks: the world on GitHub's side *)
(* (issues, pull requests, comments, reviews, pushes and the times they    *)
(* carry), the deliveries it sends, each possibly late, out of order or    *)
(* again, and the handler past the signature: the dispatch, the four       *)
(* normalizers, the redaction and the identity an event is stored under.   *)
(*                                                                         *)
(* The steps of one request against the database are Ingest's; here a      *)
(* delivery is handled in one step, some of whose items may fail.          *)
(***************************************************************************)
EXTENDS Naturals, Sequences, SequencesExt

CONSTANTS
  Numbers,     \* issue and pull request numbers: one space per repository
  Threads,     \* ids of comments, reviews and review comments
  Shas,        \* commits
  Deliveries,  \* X-GitHub-Delivery ids, by the order they are first sent in
  MaxArrivals, \* bound: arrivals at the server
  Nil         \* null, undefined or not there

ASSUME ArrivalsAssumption == MaxArrivals \in Nat /\ Deliveries \subseteq Nat

Open == "<private>"
Close == "</private>"
\* What people write: a region with a tag in it, and one that is never closed.
BODY == <<"said", Open, Open, "secret", Close, "said", Open, "secret">>

CommentEvents == {"issue_comment", "pull_request_review_comment", "pull_request_review"}
SUPPORTED_ISSUE_ACTIONS == {"opened", "edited", "closed", "deleted", "labeled"}
SUPPORTED_PR_ACTIONS == {"opened", "edited", "closed", "synchronize"}

VARIABLES
  kindOf,   \* what each number is, from its first day: "issue" or "pull_request"
  home,     \* where each thread hangs: [number, event]
  times,    \* [created, updated, dismissed] of every object, Nil before it exists;
            \* some are older than the installation
  clock,    \* in seconds, as GitHub's times are; many things may happen in one
  sent,     \* the body of each delivery, Nil before it is sent
  arrivals, \* how many requests the server has handled
  log,      \* stored events by identity <<delivery, item>>
  answers   \* how the items of the last request were answered

hookVars == <<kindOf, home, times, clock, sent, arrivals, log, answers>>

Objects == Numbers \union Threads
IsPull(n) == kindOf[n] = "pull_request"
Number(o) == IF o \in Threads THEN home[o].number ELSE o

HookInit ==
  /\ kindOf \in [Numbers -> {"issue", "pull_request"}]
  /\ home \in [Threads -> [number : Numbers, event : CommentEvents]]
  /\ \A t \in Threads : home[t].event # "issue_comment" => IsPull(home[t].number)
  /\ times \in [Objects -> {Nil, [created |-> 0, updated |-> 0, dismissed |-> Nil]}]
  /\ \A t \in Threads : times[t] # Nil => times[home[t].number] # Nil
  /\ clock = 0
  /\ sent = [d \in Deliveries |-> Nil]
  /\ arrivals = 0
  /\ log = << >>
  /\ answers = {}

-----------------------------------------------------------------------------
(* Redaction.  A text is a sequence of tags and words.                      *)

\* Everything from a tag to the next closing tag, or to the end, goes.
StripString(input) ==
  FoldLeft(LAMBDA s, token :
      IF s.inside THEN [s EXCEPT !.inside = token # Close]
      ELSE IF token = Open THEN [s EXCEPT !.inside = TRUE]
      ELSE [s EXCEPT !.kept = Append(@, token)],
    [inside |-> FALSE, kept |-> << >>], input).kept

-----------------------------------------------------------------------------
(* URLs.  A URL is <<host, kind segment, number, anchor>>.                  *)

\* A text new URL() cannot read.
NOT_A_URL == <<Nil, Nil, Nil, Nil>>
IsValidUrl(url) == url # NOT_A_URL

GithubPullRequestUrl(n) == <<"github.com", "pull", n, Nil>>
GithubIssueUrl(n) == <<"github.com", "issues", n, Nil>>
GithubCommitUrl(sha) == <<"github.com", "commit", sha, Nil>>

GithubCommentAnchor(event, id) == <<event, id>>

ParentUrl(parentType, n) ==
  IF parentType = "pull_request" THEN GithubPullRequestUrl(n) ELSE GithubIssueUrl(n)

GithubCommentPermalink(parentType, n, event, id) ==
  [ParentUrl(parentType, n) EXCEPT ![4] = GithubCommentAnchor(event, id)]

IsHtmlUrlConsistentWithFacts(url, parentType, n, event, id) ==
  /\ url[1] = "github.com"
  /\ url[2] = (IF parentType = "pull_request" THEN "pull" ELSE "issues")
  /\ url[3] = n
  /\ url[4] = GithubCommentAnchor(event, id)

\* Mutant: any github.com link is taken for the permalink.
ResolveCommentPermalink_AnyHtmlUrl(url, parentType, n, event, id) ==
  IF url # Nil /\ url[1] = "github.com"
    THEN url ELSE GithubCommentPermalink(parentType, n, event, id)

ResolveCommentPermalink(url, parentType, n, event, id) ==
  IF url # Nil /\ IsHtmlUrlConsistentWithFacts(url, parentType, n, event, id)
    THEN url ELSE GithubCommentPermalink(parentType, n, event, id)

\* The object a link leads to: GitHub serves a pull request under its number
\* and a comment under its anchor on its parent's page.
TrueUrl(o) ==
  IF o \in Threads
    THEN GithubCommentPermalink(kindOf[home[o].number], home[o].number, home[o].event, o)
    ELSE ParentUrl(kindOf[o], o)

-----------------------------------------------------------------------------
(* GitHub's side: something happens, and a delivery tells of it.            *)

FirstAction(o) ==
  IF o \notin Threads THEN "opened"
  ELSE IF home[o].event = "pull_request_review" THEN "submitted" ELSE "created"

LaterActions(o) ==
  IF o \notin Threads THEN {"edited", "closed", "milestoned"}
  ELSE IF home[o].event = "pull_request_review" THEN {"edited", "dismissed"}
  ELSE {"edited", "deleted"}

\* Of a pull request GitHub also sends what it sends of issues.
EventsOf(o) ==
  IF o \in Threads THEN {home[o].event}
  ELSE IF IsPull(o) THEN {"pull_request", "issues"} ELSE {"issues"}

\* Deleting an object does not touch its updated_at.
Touch(o, action, now) ==
  IF times[o] = Nil THEN [created |-> now, updated |-> now, dismissed |-> Nil]
  ELSE IF action = "deleted" THEN times[o]
  ELSE IF action = "dismissed" THEN [times[o] EXCEPT !.updated = now, !.dismissed = now]
  ELSE [times[o] EXCEPT !.updated = now]

\* The html_url of a payload: the object's own, its parent's page, a link to some
\* other host, a text that is no link; a comment may come without.
HtmlUrls(o) ==
  {TrueUrl(o), [TrueUrl(o) EXCEPT ![4] = Nil], [TrueUrl(o) EXCEPT ![1] = "elsewhere"], NOT_A_URL}
  \union (IF o \in Threads THEN {Nil} ELSE {})

\* The times of a payload: any of them may be missing (in an issue, whose schema
\* asks for them, be a text that is no time).  A review's first is submitted_at.
Stamps(t) ==
  [created : {t.created, Nil}, updated : {t.updated, Nil}, dismissed : {t.dismissed, Nil}]

\* Bound: a payload is odd in its link or in its times, not in both.
Odd(o, html, stamp, t) == html # TrueUrl(o) /\ stamp # t

\* Deliveries are named in the order in which they are first sent.
IsNext(d) == sent[d] = Nil /\ \A e \in Deliveries : e < d => sent[e] # Nil

Happens(d, o) ==
  /\ IsNext(d)
  /\ o \in Threads => times[home[o].number] # Nil
  /\ \E action \in IF times[o] = Nil THEN {FirstAction(o)} ELSE LaterActions(o),
        now \in {clock, clock + 1} :
       LET t == Touch(o, action, now) IN
       \E event \in EventsOf(o), html \in HtmlUrls(o), stamp \in Stamps(t) :
         /\ ~ Odd(o, html, stamp, t)
         /\ times' = [times EXCEPT ![o] = t]
         /\ sent' = [sent EXCEPT ![d] =
              [event |-> event, action |-> action, of |-> o, at |-> now, number |-> Number(o),
               pointer |-> IsPull(Number(o)), html |-> html, text |-> BODY, times |-> stamp]]
         /\ clock' = now
  /\ UNCHANGED <<kindOf, home, arrivals, log, answers>>

\* A commit's time is fixed when it is made; pushes carry it again and again.
CommitTime(sha) == 0

Pushed(d) ==
  /\ IsNext(d)
  /\ \E commits \in SUBSET Shas, branch, deleted \in BOOLEAN, bad \in SUBSET Shas :
       /\ bad \subseteq commits
       /\ deleted \/ ~ branch => bad = {}
       /\ deleted => commits = {} /\ branch
       /\ sent' = [sent EXCEPT ![d] =
            [event |-> "push", action |-> Nil, branch |-> branch, deleted |-> deleted,
             commits |-> commits, bad |-> bad, text |-> BODY, at |-> clock]]
  /\ UNCHANGED <<kindOf, home, times, clock, arrivals, log, answers>>

-----------------------------------------------------------------------------
(* The normalizers: from a body to the set of events it stands for.         *)

\* The first of two times that is there.
Else(first, second) == IF first # Nil THEN first ELSE second

LastTime(b) == Else(b.times.updated, b.times.created)

\* Mutant: an edited or dismissed review is dated by its submission.
ProviderTime_Submitted(b) ==
  IF b.event = "pull_request_review" THEN b.times.created
  ELSE IF b.action = "created" THEN Else(b.times.created, b.times.updated)
  ELSE LastTime(b)

\* submitted_at dates the submission only; what a later action has instead is a time
\* of its own, or none.
ProviderTime(b) ==
  IF b.event = "pull_request_review"
  THEN IF b.action = "submitted" THEN b.times.created
       ELSE Else(b.times.updated, b.times.dismissed)
  ELSE IF b.action = "created" THEN Else(b.times.created, b.times.updated)
  ELSE LastTime(b)

\* occurredAt and its provenance: the provider's time, else the server's.
Occurred(time, now) ==
  IF time # Nil THEN [at |-> time, by |-> "provider"] ELSE [at |-> now, by |-> "server"]

NormalizedEvent(d, kind, item, url, occurred, payload) ==
  [delivery |-> d, item |-> item, kind |-> kind, url |-> url, occurred |-> occurred,
   payload |-> payload]

NormalizePushEvent(d, b) ==
  IF b.deleted \/ ~ b.branch THEN {}
  ELSE { NormalizedEvent(d, "github_commit", sha, GithubCommitUrl(sha),
           [at |-> CommitTime(sha), by |-> "provider"], [text |-> StripString(b.text), facts |-> sha]) :
         sha \in b.commits \ b.bad }

\* Dated by updated_at: every supported action touches the pull request.
NormalizePullRequestEvent(d, b, now) ==
  IF b.action \notin SUPPORTED_PR_ACTIONS THEN {}
  ELSE {NormalizedEvent(d, "github_pr", b.number, GithubPullRequestUrl(b.number),
          Occurred(LastTime(b), now),
          [text |-> b.text, facts |-> <<b.action, b.times.created, b.times.updated>>])}

\* Any link that parses is kept; an issue without a time is refused.
NormalizeGithubIssueEvent(d, b) ==
  IF b.pointer \/ b.action \notin SUPPORTED_ISSUE_ACTIONS \/ LastTime(b) = Nil THEN {}
  ELSE {NormalizedEvent(d, "github_issue", b.number,
          IF IsValidUrl(b.html) THEN b.html ELSE GithubIssueUrl(b.number),
          [at |-> LastTime(b), by |-> "provider"],
          [text |-> StripString(b.text), facts |-> <<b.action, b.html, b.times>>])}

\* What a comment hangs on: a review's parent is a pull request, a comment's
\* is one when the issue carries the pointer.
ExtractParent(b) ==
  IF b.event = "issue_comment" /\ ~ b.pointer THEN "issue" ELSE "pull_request"

NormalizeCommentEvent(d, b, now) ==
  LET url == ResolveCommentPermalink(b.html, ExtractParent(b), b.number, b.event, b.of)
  IN {NormalizedEvent(d, "github_pr_comment", b.of, url, Occurred(ProviderTime(b), now),
        [text |-> b.text, facts |-> <<b.event, b.action, b.of, b.html, ExtractParent(b), b.number>>])}

\* The dispatch on x-github-event.
HandleWebhook(d, b, now) ==
  IF b.event = "push" THEN NormalizePushEvent(d, b)
  ELSE IF b.event = "pull_request" THEN NormalizePullRequestEvent(d, b, now)
  ELSE IF b.event = "issues" THEN NormalizeGithubIssueEvent(d, b)
  ELSE NormalizeCommentEvent(d, b, now)

-----------------------------------------------------------------------------
(* The route: redact, hash, find by identity, answer or store.             *)

Identity(e) == <<e.delivery, e.item>>

PayloadHash(e) == e.payload

Redact(e) == [e EXCEPT !.payload.text = StripString(@)]

AnswerTo(e) ==
  IF Identity(e) \notin DOMAIN log THEN "accepted"
  ELSE IF PayloadHash(log[Identity(e)]) = PayloadHash(e) THEN "duplicate" ELSE "conflict"

\* A delivery arrives, for the first time or again; the items of "failed"
\* hit an error of the database and are reported so.
Arrive(d) ==
  /\ sent[d] # Nil
  /\ arrivals < MaxArrivals
  /\ LET events == {Redact(e) : e \in HandleWebhook(d, sent[d], clock)} IN
     \E failed \in (SUBSET events \ {events}) \union {{}} :
       LET new == {e \in events \ failed : AnswerTo(e) = "accepted"} IN
       /\ log' = [id \in DOMAIN log \union {Identity(e) : e \in new} |->
                    IF id \in DOMAIN log THEN log[id] ELSE CHOOSE e \in new : Identity(e) = id]
       /\ answers' = {AnswerTo(e) : e \in events \ failed}
  /\ arrivals' = arrivals + 1
  /\ UNCHANGED <<kindOf, home, times, clock, sent>>

HookNext ==
  \/ \E d \in Deliveries, o \in Objects : Happens(d, o)
  \/ \E d \in Deliveries : Pushed(d) \/ Arrive(d)

HookSpec == HookInit /\ [][HookNext]_hookVars

-----------------------------------------------------------------------------
(* Properties.                                                             *)

\* Every event is about the thing it says: a number is stored as an issue only if
\* it is one, as a pull request only if it is one.  The link kept as evidence of a
\* pull request, a comment or a review leads to the very object whatever link the
\* payload carried; that of an issue is its own or the one GitHub sent, and a link.
EvidenceMatchesObject ==
  \A id \in DOMAIN log :
    LET e == log[id]
        b == sent[id[1]] IN
    /\ e.kind = "github_issue" => ~ IsPull(b.of) /\ IsValidUrl(e.url) /\ e.url \in {TrueUrl(b.of), b.html}
    /\ e.kind = "github_pr" => IsPull(b.of)
    /\ e.kind \in {"github_pr", "github_pr_comment"} => e.url = TrueUrl(b.of)

\* The payload has the time of what it tells, whatever else it lacks.
SaysWhen(b) == b.at \in {b.times.created, b.times.updated, b.times.dismissed} \ {Nil}

\* Where the provider's times are recorded they tell the order in which things
\* happened to an object, however the deliveries arrived, and strictly when they
\* happened in different seconds: what is recorded of a change whose payload has its
\* time is never before what is recorded of an earlier one, which may have lacked
\* its own (extractCommentFacts, normalizePullRequestEvent, normalizeGithubIssueEvent).
ProviderOrder ==
  \A i, j \in DOMAIN log :
    /\ log[i].kind # "github_commit" /\ log[j].kind # "github_commit"
    /\ sent[i[1]].of = sent[j[1]].of
    /\ log[i].occurred.by = "provider" /\ log[j].occurred.by = "provider"
    /\ sent[i[1]].at <= sent[j[1]].at /\ SaysWhen(sent[j[1]])
    => /\ log[i].occurred.at <= log[j].occurred.at
       /\ sent[i[1]].at < sent[j[1]].at => log[i].occurred.at < log[j].occurred.at

\* A delivery that comes again repeats itself: what was stored of it is
\* answered as a duplicate, never as a conflict, whenever it comes.
RedeliveryIsDuplicate == "conflict" \notin answers

\* What stands between private tags reaches no stored payload, whichever
\* normalizer it passed.
PrivateStaysOut ==
  \A id \in DOMAIN log : "secret" \notin ToSet(log[id].payload.text)
=============================================================================
