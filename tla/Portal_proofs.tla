---------------------------- MODULE Portal_proofs ----------------------------
(***************************************************************************)
(* The portal.  On the record pages (Detail) no payload is shown, now or   *)
(* since the page was mounted, whose read the audit log does not hold, and *)
(* an event page shows the event of its address and project.  Both follow  *)
(* from what a call that is still heard was made for: the cleanup of an    *)
(* effect is what makes a later answer to an earlier address unheard.      *)
(*                                                                         *)
(* On the lists (Listing) a walk through the pages shows every row that    *)
(* stays exactly once, and under the filter the page shows, as long as     *)
(* nobody acts while a request is under way: the pages up to the cursor    *)
(* hold what is not after it, and the next page is what comes next.  The   *)
(* same holds of a search decided by words (Retrieval), and of the read    *)
(* behind a download (Export), which therefore is whole.                   *)
(*                                                                         *)
(* The digest is assembled and read back one step after the other: what    *)
(* holds of the entries so far is carried over each by UpTo, an induction  *)
(* over a set of numbers.                                                  *)
(***************************************************************************)
EXTENDS Detail, Listing, Retrieval, Export, FiniteSetTheorems, TLAPS

\* An answer that is about what was asked for, and a payload's record in the log.
IsAbout(p, c) == p.n = c.n /\ p.id = c.id /\ p.for = c.for
Audited(p, log) == \E a \in log : a.n = p.n /\ a.id = p.id /\ CheckRole(a.as, "member")

\* Who is heard asked for the page that is shown, and only a retry is not heard.
\* An event's call has got as far as its role and the audit log let it.
CallGood(c, t, project, log) ==
  /\ {"n", "act", "kind", "id", "for", "heard", "pc", "as", "got"} \subseteq DOMAIN c
  /\ c.act \in {"load", "retry", "refetch"}
  /\ c.act # "load" => c.kind = "job"
  /\ c.heard => c.kind = t.kind
  /\ c.act # "retry" \/ c.pc = "answered" => c.heard
  /\ c.kind = "event" =>
       /\ c.id = t.id /\ c.for = UseProjectId(t, project)
       /\ c.pc \in {"authorized", "found"} => CheckRole(c.as, "member")
       /\ c.pc = "found" => IsAbout(c.got.is, c)
       /\ c.pc = "answered" /\ c.got.status = "ok" =>
            IsAbout(c.got.is, c) /\ Audited(c.got.is, log)

\* What an event page has ever shown since it was mounted was audited; what it
\* shows now is of its address.
PageGood(t, project, log) ==
  /\ {"kind", "id", "pinned", "shown", "loading", "error", "notFound", "locked", "retrying",
      "retryError", "after", "same"} \subseteq DOMAIN t
  /\ t.kind = "event" /\ t.shown # Missing => Audited(t.shown, log)
  /\ t.kind = "event" /\ Screen(t) = "record" =>
       t.shown.id = t.id /\ t.shown.for = UseProjectId(t, project)

DetailInv ==
  /\ \A c \in calls : CallGood(c, tab, active, trail)
  /\ PageGood(tab, active, trail)

----------------------------------------------------------------------------

LEMMA AuditedStays ==
  ASSUME NEW p, NEW log, NEW more, log \subseteq more, Audited(p, log)
  PROVE  Audited(p, more)
BY DEF Audited

LEMMA CallStaysGood ==
  ASSUME NEW c, NEW t, NEW u, NEW p, NEW log, NEW more, log \subseteq more,
         CallGood(c, t, p, log), u.kind = t.kind, u.id = t.id, u.pinned = t.pinned
  PROVE  CallGood(c, u, p, more)
BY AuditedStays DEF CallGood, UseProjectId

LEMMA PageStaysGood ==
  ASSUME NEW t, NEW p, NEW log, NEW more, log \subseteq more, PageGood(t, p, log)
  PROVE  PageGood(t, p, more)
BY AuditedStays DEF PageGood

\* A statement of the server: one call becomes another of the same request.
LEMMA StepKeeps ==
  ASSUME DetailInv, NEW c \in calls, NEW d, Step(c, d), trail \subseteq trail',
         UNCHANGED <<active, tab>>,
         {"n", "act", "kind", "id", "for", "heard", "pc", "as", "got"} \subseteq DOMAIN d,
         d.n = c.n, d.act = c.act, d.kind = c.kind, d.id = c.id, d.for = c.for,
         d.heard = c.heard,
         c.kind = "event" =>
           /\ d.pc \in {"authorized", "found"} => CheckRole(d.as, "member")
           /\ d.pc = "found" => IsAbout(d.got.is, d)
           /\ d.pc = "answered" /\ d.got.status = "ok" =>
                IsAbout(d.got.is, d) /\ Audited(d.got.is, trail')
  PROVE  DetailInv'
<1>1. \A e \in calls : CallGood(e, tab, active, trail')
  BY CallStaysGood DEF DetailInv
<1>2. PageGood(tab, active, trail')
  BY PageStaysGood DEF DetailInv
<1>3. (d.pc = "answered" => d.heard) => CallGood(d, tab, active, trail')
  BY <1>1 DEF CallGood
<1>4. \A e \in calls' : e \in calls \/ (e = d /\ (d.pc = "answered" => d.heard))
  BY DEF Step
<1>5. \A e \in calls' : CallGood(e, tab, active, trail')
  BY <1>1, <1>3, <1>4
<1> QED BY <1>2, <1>5 DEF DetailInv

\* An answer without a record, or about something else than an event.
LEMMA RefusalKeeps ==
  ASSUME DetailInv, NEW c \in calls, NEW status, NEW what, Step(c, Reply(c, status, what)),
         trail \subseteq trail', UNCHANGED <<active, tab>>,
         c.kind # "event" \/ status # "ok"
  PROVE  DetailInv'
<1> DEFINE d == Reply(c, status, what)
<1>1. {"n", "act", "kind", "id", "for", "heard", "pc", "as", "got"} \subseteq DOMAIN c
  BY DEF DetailInv, CallGood
<1>2. /\ {"n", "act", "kind", "id", "for", "heard", "pc", "as", "got"} \subseteq DOMAIN d
      /\ d.n = c.n /\ d.act = c.act /\ d.kind = c.kind /\ d.id = c.id /\ d.for = c.for
      /\ d.heard = c.heard /\ d.pc = "answered" /\ d.got.status = status
  BY <1>1 DEF Reply
<1>3. Step(c, d)
  OBVIOUS
<1> HIDE DEF d
<1> QED BY <1>2, <1>3, StepKeeps

\* Only a member is authorized to read a payload.
LEMMA MembersReadPayloads ==
  ASSUME NEW c, c.kind = "event", RequireScope(c, role)
  PROVE  CheckRole(role, "member")
BY DEF RequireScope, RequiredScopes, SessionScopes

LEMMA ServerKeeps ==
  ASSUME DetailInv, NEW c \in calls,
         \/ RequireAuthOrWebSession(c)
         \/ GetEventDetail(c) \/ GetJobDetail(c) \/ GetConceptByUuidHandler(c)
         \/ RespondPayload(c) \/ RetryJob(c) \/ FailCall(c)
  PROVE  DetailInv'
<1>0. CallGood(c, tab, active, trail)
  BY DEF DetailInv
<1>a. {"n", "act", "kind", "id", "for", "heard", "pc", "as", "got"} \subseteq DOMAIN c
  BY <1>0 DEF CallGood
<1>1. CASE RequireAuthOrWebSession(c)
  <2> DEFINE d == [[c EXCEPT !.pc = "authorized"] EXCEPT !.as = role]
  <2>0. UNCHANGED <<active, tab, trail>>
    BY <1>1 DEF RequireAuthOrWebSession
  <2>1. \/ \E status \in {"unauthorized", "absent", "forbidden"} : Step(c, Reply(c, status, Missing))
        \/ RequireScope(c, role) /\ Step(c, d)
    BY <1>1 DEF RequireAuthOrWebSession
  <2>2. /\ {"n", "act", "kind", "id", "for", "heard", "pc", "as", "got"} \subseteq DOMAIN d
        /\ d.n = c.n /\ d.act = c.act /\ d.kind = c.kind /\ d.id = c.id /\ d.for = c.for
        /\ d.heard = c.heard /\ d.pc = "authorized" /\ d.as = role
    BY <1>a
  <2> HIDE DEF d
  <2>3. CASE RequireScope(c, role) /\ Step(c, d)
    BY <2>0, <2>2, <2>3, StepKeeps, MembersReadPayloads
  <2>4. ASSUME NEW status \in {"unauthorized", "absent", "forbidden"},
               Step(c, Reply(c, status, Missing))
        PROVE  DetailInv'
    BY <2>0, <2>4, RefusalKeeps
  <2> QED BY <2>1, <2>3, <2>4
<1>2. CASE GetEventDetail(c)
  <2> DEFINE d == [[c EXCEPT !.pc = "found"] EXCEPT !.got = [status |-> "ok", is |-> Record(c)]]
  <2>0. UNCHANGED <<active, tab, trail>> /\ c.pc = "authorized" /\ c.kind = "event"
    BY <1>2 DEF GetEventDetail
  <2>1. Step(c, Reply(c, "absent", Missing)) \/ Step(c, d)
    BY <1>2 DEF GetEventDetail
  <2>2. /\ {"n", "act", "kind", "id", "for", "heard", "pc", "as", "got"} \subseteq DOMAIN d
        /\ d.n = c.n /\ d.act = c.act /\ d.kind = c.kind /\ d.id = c.id /\ d.for = c.for
        /\ d.heard = c.heard /\ d.pc = "found" /\ d.as = c.as
        /\ d.got.is = Record(c)
    BY <1>a
  <2>3. IsAbout(d.got.is, d)
    BY <2>2 DEF IsAbout, Record
  <2> HIDE DEF d
  <2>4. CheckRole(d.as, "member")
    BY <1>0, <2>0, <2>2 DEF CallGood
  <2>5. CASE Step(c, d)
    BY <2>0, <2>2, <2>3, <2>4, <2>5, StepKeeps
  <2>6. CASE Step(c, Reply(c, "absent", Missing))
    BY <2>0, <2>6, RefusalKeeps
  <2> QED BY <2>1, <2>5, <2>6
<1>3. CASE RespondPayload(c)
  <2> DEFINE d == Reply(c, "ok", c.got.is)
  <2>0. UNCHANGED <<active, tab>> /\ c.pc = "found" /\ AuditPayloadRead(c)
    BY <1>3 DEF RespondPayload
  <2>1. CASE UNCHANGED trail /\ Step(c, Reply(c, "audit failed", Missing))
    BY <2>0, <2>1, RefusalKeeps
  <2>2. CASE WriteAuditRow(c) /\ Step(c, d)
    <3>1. /\ {"n", "act", "kind", "id", "for", "heard", "pc", "as", "got"} \subseteq DOMAIN d
          /\ d.n = c.n /\ d.act = c.act /\ d.kind = c.kind /\ d.id = c.id /\ d.for = c.for
          /\ d.heard = c.heard /\ d.pc = "answered" /\ d.got.is = c.got.is
      BY <1>a DEF Reply
    <3> HIDE DEF d
    <3>2. trail \subseteq trail' /\ [n |-> c.n, id |-> c.id, as |-> c.as] \in trail'
      BY <2>2 DEF WriteAuditRow
    <3>3. c.kind = "event" => CheckRole(c.as, "member") /\ IsAbout(c.got.is, c)
      BY <1>0, <2>0 DEF CallGood
    <3>4. c.kind = "event" => IsAbout(d.got.is, d) /\ Audited(d.got.is, trail')
      BY <3>1, <3>2, <3>3 DEF IsAbout, Audited
    <3> QED BY <2>0, <2>2, <3>1, <3>2, <3>4, StepKeeps
  <2> QED BY <2>0, <2>1, <2>2 DEF AuditPayloadRead
<1>4. CASE GetJobDetail(c) \/ GetConceptByUuidHandler(c)
  BY <1>4, RefusalKeeps DEF GetJobDetail, GetConceptByUuidHandler
<1>5. CASE RetryJob(c)
  <2>1. c.kind # "event"
    BY <1>0, <1>5 DEF RetryJob, CallGood
  <2> QED BY <1>5, <2>1, RefusalKeeps DEF RetryJob
<1>6. CASE FailCall(c)
  BY <1>6, RefusalKeeps DEF FailCall
<1> QED BY <1>1, <1>2, <1>3, <1>4, <1>5, <1>6

----------------------------------------------------------------------------

\* A page, and what it asks for, when the effect runs or it is mounted.
LEMMA NewCallGood ==
  ASSUME NEW t, NEW p, NEW log, NEW n, NEW act \in {"load", "retry", "refetch"},
         act # "load" => t.kind = "job"
  PROVE  CallGood(Call(n, act, t, p), t, p, log)
BY DEF CallGood, Call

LEMMA MountedGood ==
  ASSUME NEW kind, NEW id, NEW pinned, NEW p, NEW log
  PROVE  PageGood(Mounted(kind, id, pinned), p, log)
BY DEF PageGood, Mounted, Screen, EventDetailPage

LEMMA LeaveKeeps ==
  ASSUME DetailInv, Leave
  PROVE  DetailInv'
<1>1. PICK kind \in KINDS, id \in Records, pinned \in {"mine", Missing} :
        /\ tab' = Mounted(kind, id, pinned)
        /\ Send("load", tab', active, Unheard(calls))
        /\ UNCHANGED <<trail, active>>
  BY DEF Leave
<1>2. PageGood(tab', active, trail)
  BY <1>1, MountedGood
<1>3. calls' = Unheard(calls) \union {Call(sent + 1, "load", tab', active)}
  BY <1>1 DEF Send
<1>4. CallGood(Call(sent + 1, "load", tab', active), tab', active, trail)
  BY NewCallGood
<1>5. ASSUME NEW c \in Unheard(calls) PROVE CallGood(c, tab', active, trail)
  <2>1. PICK d \in calls : d.act = "retry" /\ d.pc # "answered" /\ c = [d EXCEPT !.heard = FALSE]
    BY <1>5 DEF Unheard
  <2>2. CallGood(d, tab, active, trail)
    BY DEF DetailInv
  <2>3. /\ {"n", "act", "kind", "id", "for", "heard", "pc", "as", "got"} \subseteq DOMAIN c
        /\ c.act = "retry" /\ c.kind = "job" /\ ~c.heard /\ c.pc # "answered"
    BY <2>1, <2>2 DEF CallGood
  <2> QED BY <2>3 DEF CallGood
<1> QED BY <1>1, <1>2, <1>3, <1>4, <1>5 DEF DetailInv

\* A page other than an event's, whatever happens to it.
LEMMA OtherPages ==
  ASSUME DetailInv, tab.kind # "event", UNCHANGED trail,
         {"kind", "id", "pinned", "shown", "loading", "error", "notFound", "locked", "retrying",
          "retryError", "after", "same"} \subseteq DOMAIN tab',
         tab'.kind = tab.kind,
         \A c \in calls' : c \in calls \/ CallGood(c, tab', active', trail)
  PROVE  DetailInv'
<1>1. ASSUME NEW c \in calls PROVE CallGood(c, tab', active', trail)
  <2>1. CallGood(c, tab, active, trail)
    BY DEF DetailInv
  <2>2. c.kind # "event"
    BY <2>1 DEF CallGood
  <2> QED BY <2>1, <2>2 DEF CallGood
<1>2. PageGood(tab', active', trail)
  BY DEF PageGood
<1> QED BY <1>1, <1>2 DEF DetailInv

LEMMA ClearedIs ==
  ASSUME NEW t, NEW p, NEW log, PageGood(t, p, log)
  PROVE  LET u == Cleared(t) IN
         /\ {"kind", "id", "pinned", "shown", "loading", "error", "notFound", "locked", "retrying",
             "retryError", "after", "same"} \subseteq DOMAIN u
         /\ u.kind = t.kind /\ u.id = t.id /\ u.pinned = t.pinned /\ u.shown = t.shown
         /\ u.loading = TRUE
BY DEF PageGood, Cleared

LEMMA ProjectKeeps ==
  ASSUME DetailInv, NEW p \in Projects, ChooseProject(p)
  PROVE  DetailInv'
<1>0. /\ PageGood(tab, active, trail) /\ active' = p /\ UNCHANGED trail
      /\ \A c \in calls : CallGood(c, tab, active, trail)
  BY DEF DetailInv, ChooseProject
<1>1. CASE UseProjectId(tab, p) = UseProjectId(tab, active)
  <2>1. UNCHANGED <<tab, calls>>
    BY <1>1 DEF ChooseProject
  <2>2. \A c \in calls : CallGood(c, tab, p, trail)
    BY <1>0, <1>1 DEF CallGood
  <2>3. PageGood(tab, p, trail)
    BY <1>0, <1>1 DEF PageGood
  <2> QED BY <1>0, <2>1, <2>2, <2>3 DEF DetailInv
<1>2. CASE UseProjectId(tab, p) # UseProjectId(tab, active)
  <2> DEFINE u == [Cleared(tab) EXCEPT !.same = FALSE]
  <2>1. /\ {"kind", "id", "pinned", "shown", "loading", "error", "notFound", "locked", "retrying",
             "retryError", "after", "same"} \subseteq DOMAIN u
        /\ u.kind = tab.kind /\ u.id = tab.id /\ u.pinned = tab.pinned /\ u.shown = tab.shown
        /\ u.loading = TRUE
    BY <1>0, ClearedIs
  <2>2. tab' = u /\ Send("load", tab', p, Cleanup(tab, calls))
    BY <1>2 DEF ChooseProject
  <2> HIDE DEF u
  <2>3. calls' = Cleanup(tab, calls) \union {Call(sent + 1, "load", tab', p)}
    BY <2>2 DEF Send
  <2>4. CallGood(Call(sent + 1, "load", tab', p), tab', p, trail)
    BY NewCallGood
  <2>5. Cleanup(tab, calls) \subseteq calls
    BY DEF Cleanup
  <2>6. CASE tab.kind # "event"
    BY <1>0, <2>1, <2>2, <2>3, <2>4, <2>5, <2>6, OtherPages
  <2>7. CASE tab.kind = "event"
    <3>1. PageGood(u, p, trail)
      BY <1>0, <2>1 DEF PageGood, Screen, EventDetailPage
    <3>2. ASSUME NEW c \in Cleanup(tab, calls) PROVE CallGood(c, tab', p, trail)
      <4>1. c \in calls /\ c.act # "load"
        BY <2>7, <3>2 DEF Cleanup
      <4>2. CallGood(c, tab, active, trail) /\ c.kind = "job"
        BY <1>0, <4>1 DEF CallGood
      <4> QED BY <2>1, <2>2, <4>2 DEF CallGood
    <3> QED BY <1>0, <2>2, <2>3, <2>4, <3>1, <3>2 DEF DetailInv
  <2> QED BY <2>6, <2>7
<1> QED BY <1>1, <1>2

LEMMA ClicksKeep ==
  ASSUME DetailInv, LoadAgain \/ HandleRetry \/ \E id \in Records : HandleBodyClick(id)
  PROVE  DetailInv'
<1>0. PageGood(tab, active, trail)
  BY DEF DetailInv
<1>1. CASE LoadAgain
  <2>1. /\ tab.kind = "concept" /\ tab' = Cleared(tab) /\ UNCHANGED <<trail, active>>
        /\ calls' = calls \union {Call(sent + 1, "load", tab', active)}
    BY <1>1 DEF LoadAgain, Send
  <2>2. CallGood(Call(sent + 1, "load", tab', active), tab', active, trail)
    BY NewCallGood
  <2> QED BY <1>0, <2>1, <2>2, ClearedIs, OtherPages
<1>2. CASE HandleRetry
  <2> DEFINE u == [[[tab EXCEPT !.retrying = TRUE] EXCEPT !.retryError = FALSE] EXCEPT !.same = TRUE]
  <2>1. /\ tab.kind = "job" /\ tab' = u /\ UNCHANGED <<trail, active>>
        /\ calls' = calls \union {Call(sent + 1, "retry", tab', active)}
    BY <1>2 DEF HandleRetry, Offer, Send
  <2>2. /\ {"kind", "id", "pinned", "shown", "loading", "error", "notFound", "locked", "retrying",
            "retryError", "after", "same"} \subseteq DOMAIN u
        /\ u.kind = tab.kind
    BY <1>0 DEF PageGood
  <2> HIDE DEF u
  <2>3. CallGood(Call(sent + 1, "retry", tab', active), tab', active, trail)
    BY <2>1, <2>2, NewCallGood
  <2> QED BY <2>1, <2>2, <2>3, OtherPages
<1>3. ASSUME NEW id \in Records, HandleBodyClick(id) PROVE DetailInv'
  <2> DEFINE u == [Cleared(tab) EXCEPT !.id = id]
  <2>1. /\ tab.kind = "concept" /\ tab' = u /\ UNCHANGED <<trail, active>>
        /\ calls' = calls \union {Call(sent + 1, "load", tab', active)}
    BY <1>3 DEF HandleBodyClick, Send
  <2>2. /\ {"kind", "id", "pinned", "shown", "loading", "error", "notFound", "locked", "retrying",
            "retryError", "after", "same"} \subseteq DOMAIN u
        /\ u.kind = tab.kind
    BY <1>0, ClearedIs
  <2> HIDE DEF u
  <2>3. CallGood(Call(sent + 1, "load", tab', active), tab', active, trail)
    BY NewCallGood
  <2> QED BY <2>1, <2>2, <2>3, OtherPages
<1> QED BY <1>1, <1>2, <1>3

LEMMA TakeKeeps ==
  ASSUME DetailInv, NEW c \in calls, Take(c)
  PROVE  DetailInv'
<1>0. /\ CallGood(c, tab, active, trail) /\ PageGood(tab, active, trail)
      /\ UNCHANGED <<trail, active>> /\ c.pc = "answered"
      /\ c.act \in {"load", "retry", "refetch"}
  BY DEF DetailInv, Take, CallGood
<1>1. c.kind = tab.kind
  BY <1>0 DEF CallGood
<1>2. CASE tab.kind = "event"
  <2>1. c.act = "load" /\ calls' = calls \ {c} /\ tab' = LoadEvent(tab, c.got)
    BY <1>0, <1>1, <1>2 DEF Take, CallGood
  <2>2. /\ tab'.kind = tab.kind /\ tab'.id = tab.id /\ tab'.pinned = tab.pinned
    BY <1>0, <2>1 DEF LoadEvent, PageGood
  <2>3. PageGood(tab', active, trail)
    <3>1. CASE c.got.status = "ok"
      <4> DEFINE u == [[tab EXCEPT !.shown = c.got.is] EXCEPT !.loading = FALSE]
      <4>1. tab' = u
        BY <2>1, <3>1 DEF LoadEvent
      <4>2. /\ {"kind", "id", "pinned", "shown", "loading", "error", "notFound", "locked",
                "retrying", "retryError", "after", "same"} \subseteq DOMAIN u
            /\ u.kind = tab.kind /\ u.id = tab.id /\ u.pinned = tab.pinned
            /\ u.shown = c.got.is
        BY <1>0 DEF PageGood
      <4> HIDE DEF u
      <4>3. Audited(c.got.is, trail) /\ c.got.is.id = tab.id
            /\ c.got.is.for = UseProjectId(tab, active)
        BY <1>0, <1>1, <1>2, <3>1 DEF CallGood, IsAbout
      <4> QED BY <4>1, <4>2, <4>3 DEF PageGood, UseProjectId
    <3>2. CASE c.got.status = "audit failed"
      <4> DEFINE u == [[tab EXCEPT !.locked = TRUE] EXCEPT !.loading = FALSE]
      <4>1. tab' = u
        BY <2>1, <3>2 DEF LoadEvent
      <4>2. /\ {"kind", "id", "pinned", "shown", "loading", "error", "notFound", "locked",
                "retrying", "retryError", "after", "same"} \subseteq DOMAIN u
            /\ u.kind = tab.kind /\ u.shown = tab.shown /\ u.locked = TRUE
        BY <1>0 DEF PageGood
      <4> HIDE DEF u
      <4> QED BY <1>0, <4>1, <4>2 DEF PageGood, Screen, EventDetailPage
    <3>3. CASE c.got.status \notin {"ok", "audit failed"}
      <4> DEFINE u == [[tab EXCEPT !.error = "message"] EXCEPT !.loading = FALSE]
      <4>1. tab' = u
        BY <2>1, <3>3 DEF LoadEvent
      <4>2. /\ {"kind", "id", "pinned", "shown", "loading", "error", "notFound", "locked",
                "retrying", "retryError", "after", "same"} \subseteq DOMAIN u
            /\ u.kind = tab.kind /\ u.shown = tab.shown /\ u.error = "message"
        BY <1>0 DEF PageGood
      <4> HIDE DEF u
      <4> QED BY <1>0, <4>1, <4>2 DEF PageGood, Screen, EventDetailPage
    <3> QED BY <3>1, <3>2, <3>3
  <2>4. \A d \in calls' : CallGood(d, tab', active, trail)
    <3>1. \A d \in calls' : CallGood(d, tab, active, trail)
      BY <2>1 DEF DetailInv
    <3> QED BY <2>2, <3>1, CallStaysGood
  <2> QED BY <1>0, <2>3, <2>4 DEF DetailInv
<1>3. CASE tab.kind # "event"
  <2>1. /\ {"kind", "id", "pinned", "shown", "loading", "error", "notFound", "locked", "retrying",
            "retryError", "after", "same"} \subseteq DOMAIN tab'
        /\ tab'.kind = tab.kind
    <3>1. CASE c.act = "load"
      BY <1>0, <1>3, <3>1 DEF Take, LoadJob, LoadConcept, PageGood
    <3>2. CASE c.act = "retry"
      BY <1>0, <3>2 DEF Take, Refetch, PageGood
    <3>3. CASE c.act = "refetch"
      BY <1>0, <3>3 DEF Take, PageGood
    <3> QED BY <1>0, <3>1, <3>2, <3>3
  <2>2. \A d \in calls' : d \in calls \/ CallGood(d, tab', active', trail)
    <3>1. CASE calls' = calls \ {c}
      BY <3>1
    <3>2. CASE calls' # calls \ {c}
      <4> DEFINE d == [Call(sent + 1, "refetch", tab, active) EXCEPT !.for = c.for]
      <4>1. calls' = (calls \ {c}) \union {d} /\ c.act = "retry"
        BY <3>2 DEF Take, Refetch
      <4>2. tab.kind = "job"
        BY <1>0, <1>1, <4>1 DEF CallGood
      <4>3. CallGood(d, tab', active', trail)
        <5>1. /\ {"n", "act", "kind", "id", "for", "heard", "pc", "as", "got"} \subseteq DOMAIN d
              /\ d.act = "refetch" /\ d.kind = "job" /\ d.heard = TRUE /\ d.pc = "sent"
          BY <4>2 DEF Call
        <5> HIDE DEF d
        <5> QED BY <2>1, <4>2, <5>1 DEF CallGood
      <4> QED BY <4>1, <4>3
    <3> QED BY <3>1, <3>2
  <2> QED BY <1>0, <1>3, <2>1, <2>2, OtherPages
<1> QED BY <1>2, <1>3

----------------------------------------------------------------------------

LEMMA DetailStart == DetailInit => DetailInv
<1> SUFFICES ASSUME DetailInit PROVE DetailInv
  OBVIOUS
<1>1. PageGood(tab, active, trail)
  BY MountedGood DEF DetailInit
<1>2. CallGood(Call(1, "load", tab, active), tab, active, trail)
  BY NewCallGood
<1> QED BY <1>1, <1>2 DEF DetailInit, DetailInv

LEMMA DetailStep == DetailInv /\ [DetailNext]_detailVars => DetailInv'
<1> SUFFICES ASSUME DetailInv, [DetailNext]_detailVars PROVE DetailInv'
  OBVIOUS
<1>1. CASE UNCHANGED detailVars
  BY <1>1 DEF detailVars, DetailInv
<1>2. CASE Others /\ UNCHANGED <<trail, active, tab, calls, sent>>
  BY <1>2 DEF DetailInv
<1> QED BY <1>1, <1>2, ServerKeeps, TakeKeeps, LeaveKeeps, ClicksKeep, ProjectKeeps DEF DetailNext

\* No payload is on the page, or on its way there, without its own record in the
\* audit log of a reader who was a member or more when the request came, whatever
\* failed in between (auditPayloadRead, requireAuthOrWebSession).
THEOREM PayloadsLeaveAudited == DetailSpec => []PayloadsAreAudited
<1>1. DetailInv => PayloadsAreAudited
  BY DEF DetailInv, CallGood, PageGood, Audited, PayloadsAreAudited
<1> QED BY <1>1, DetailStart, DetailStep, PTL DEF DetailSpec

\* An event page shows the event and the project of its address, in whatever order
\* answers come and projects are chosen (the effect's `cancelled`).
THEOREM EventsAreOfTheirAddress == DetailSpec => []EventIsOfItsAddress
<1>1. DetailInv => EventIsOfItsAddress
  BY DEF DetailInv, PageGood, EventIsOfItsAddress
<1> QED BY <1>1, DetailStart, DetailStep, PTL DEF DetailSpec

----------------------------------------------------------------------------
(* Pages of an ordered query                                                *)

Orders(order, S) ==
  /\ \A x \in S, y \in S : x # y => <<x, y>> \in order \/ <<y, x>> \in order
  /\ \A x \in S : <<x, x>> \notin order
  /\ \A x \in S, y \in S, z \in S : <<x, y>> \in order /\ <<y, z>> \in order => <<x, z>> \in order

\* How many come before a row tells the rows apart, and any number below the size of
\* the answer is that of a row.
LEMMA RanksTell ==
  ASSUME NEW S, IsFiniteSet(S), NEW order, Orders(order, S)
  PROVE  /\ \A x \in S : /\ IsFiniteSet(Ahead(S, order, x))
                         /\ Cardinality(Ahead(S, order, x)) \in 0 .. Cardinality(S) - 1
         /\ \A x \in S, y \in S : <<x, y>> \in order =>
              Cardinality(Ahead(S, order, x)) < Cardinality(Ahead(S, order, y))
         /\ \A n \in 0 .. Cardinality(S) - 1 : \E x \in S : Cardinality(Ahead(S, order, x)) = n
<1> DEFINE rank == [x \in S |-> Cardinality(Ahead(S, order, x))]
           N == Cardinality(S)
<1>0. N \in Nat
  BY FS_CardinalityType
<1>1. ASSUME NEW x \in S
      PROVE  IsFiniteSet(Ahead(S, order, x)) /\ Cardinality(Ahead(S, order, x)) \in 0 .. N - 1
  <2>1. Ahead(S, order, x) \in SUBSET S /\ x \notin Ahead(S, order, x)
    BY DEF Ahead, Orders
  <2>2. IsFiniteSet(Ahead(S, order, x)) /\ Cardinality(Ahead(S, order, x)) \in Nat
        /\ Cardinality(Ahead(S, order, x)) <= N /\ Cardinality(Ahead(S, order, x)) # N
    BY <2>1, FS_Subset, FS_CardinalityType
  <2> QED BY <1>0, <2>2
<1>2. ASSUME NEW x \in S, NEW y \in S, <<x, y>> \in order
      PROVE  Cardinality(Ahead(S, order, x)) < Cardinality(Ahead(S, order, y))
  <2>1. Ahead(S, order, x) \in SUBSET Ahead(S, order, y)
    BY <1>2 DEF Ahead, Orders
  <2>2. x \in Ahead(S, order, y) /\ x \notin Ahead(S, order, x)
    BY <1>2 DEF Ahead, Orders
  <2>3. IsFiniteSet(Ahead(S, order, y))
    BY <1>1
  <2>4. Cardinality(Ahead(S, order, x)) <= Cardinality(Ahead(S, order, y))
        /\ Cardinality(Ahead(S, order, x)) # Cardinality(Ahead(S, order, y))
    BY <2>1, <2>2, <2>3, FS_Subset
  <2> QED BY <1>1, <2>4
<1>3. rank \in Injection(S, 0 .. N - 1)
  <2>1. rank \in [S -> 0 .. N - 1]
    BY <1>1
  <2>2. ASSUME NEW x \in S, NEW y \in S, rank[x] = rank[y] PROVE x = y
    <3>1. Cardinality(Ahead(S, order, x)) = Cardinality(Ahead(S, order, y))
          /\ Cardinality(Ahead(S, order, x)) \in Int
      BY <1>1, <2>2
    <3>2. <<x, y>> \notin order /\ <<y, x>> \notin order
      BY <1>2, <3>1
    <3> QED BY <3>2 DEF Orders
  <2> HIDE DEF rank
  <2> QED BY <2>1, <2>2 DEF Injection, IsInjective
<1>4. IsFiniteSet(0 .. N - 1) /\ Cardinality(0 .. N - 1) = N
  BY <1>0, FS_Interval
<1>5. rank \in Surjection(S, 0 .. N - 1)
  <2> HIDE DEF rank
  <2> QED BY <1>3, <1>4, FS_Injection
<1>6. \A n \in 0 .. N - 1 : \E x \in S : rank[x] = n
  <2> HIDE DEF rank
  <2> QED BY <1>5 DEF Surjection
<1> QED BY <1>1, <1>2, <1>6

\* A page is what does not come after its last row; a short one is everything.
LEMMA FirstPage ==
  ASSUME NEW S, IsFiniteSet(S), NEW order, Orders(order, S), NEW n \in Nat \ {0}
  PROVE  /\ FirstOf(S, order, n) \subseteq S
         /\ ~(Cardinality(S) > n) => FirstOf(S, order, n) = S
         /\ Cardinality(S) > n =>
              /\ LastOf(FirstOf(S, order, n), order) \in S
              /\ \A x \in S : x \in FirstOf(S, order, n) <=>
                   \/ x = LastOf(FirstOf(S, order, n), order)
                   \/ <<x, LastOf(FirstOf(S, order, n), order)>> \in order
<1> DEFINE P == FirstOf(S, order, n)
           Place(x) == Cardinality(Ahead(S, order, x))
<1>0. Cardinality(S) \in Nat
  BY FS_CardinalityType
<1>1. /\ \A x \in S : Place(x) \in 0 .. Cardinality(S) - 1
      /\ \A x \in S, y \in S : <<x, y>> \in order => Place(x) < Place(y)
      /\ \A m \in 0 .. Cardinality(S) - 1 : \E x \in S : Place(x) = m
  BY RanksTell
<1>2. P = {x \in S : Place(x) < n}
  BY DEF FirstOf
<1> HIDE DEF P, Place
<1>3. ~(Cardinality(S) > n) => P = S
  BY <1>0, <1>1, <1>2
<1>4. ASSUME Cardinality(S) > n
      PROVE  LastOf(P, order) \in S /\ \A x \in S : x \in P <=> x = LastOf(P, order)
                                                              \/ <<x, LastOf(P, order)>> \in order
  <2>1. n - 1 \in 0 .. Cardinality(S) - 1
    BY <1>0, <1>4
  <2>2. PICK l \in S : Place(l) = n - 1
    BY <1>1, <2>1
  <2>3. l \in P /\ \A x \in P : x = l \/ <<x, l>> \in order
    <3>1. l \in P
      BY <1>2, <2>2
    <3>2. ASSUME NEW x \in P, x # l PROVE <<x, l>> \in order
      <4>1. x \in S /\ Place(x) < n /\ Place(x) \in Int
        BY <1>1, <1>2
      <4>2. <<x, l>> \in order \/ <<l, x>> \in order
        BY <3>2, <4>1 DEF Orders
      <4>3. <<l, x>> \notin order
        BY <1>1, <2>2, <4>1
      <4> QED BY <4>2, <4>3
    <3> QED BY <3>1, <3>2
  <2>4. LastOf(P, order) = l
    <3>1. \A x \in P : (\A y \in P \ {x} : <<y, x>> \in order) => x = l
      <4> SUFFICES ASSUME NEW x \in P, \A y \in P \ {x} : <<y, x>> \in order, x # l PROVE FALSE
        OBVIOUS
      <4>1. <<l, x>> \in order /\ <<x, l>> \in order /\ x \in S
        BY <1>2, <2>3
      <4> QED BY <4>1 DEF Orders
    <3>2. \A y \in P \ {l} : <<y, l>> \in order
      BY <2>3
    <3> QED BY <2>3, <3>1, <3>2 DEF LastOf
  <2>5. ASSUME NEW x \in S, <<x, l>> \in order PROVE x \in P
    BY <1>1, <1>2, <2>2, <2>5
  <2> QED BY <2>2, <2>3, <2>4, <2>5
<1> QED BY <1>2, <1>3, <1>4 DEF P
----------------------------------------------------------------------------
(* The lists                                                                *)

\* A row that was read can come back to the table only as what it was.
Known(r) == r \in Rows /\ r.id \in used /\ r.version <= rewrites

StoreOK ==
  /\ page \in Pages
  /\ IsFiniteSet(store) /\ \A r \in store : Known(r)
  /\ \A r \in store, s \in store : r.id = s.id => r = s
  /\ rewrites \in 0 .. MaxRewrites /\ ticks \in 0 .. MaxTime

Views == [filter : {"", "one", "github_group"}, pages : Seq(SUBSET Rows),
          cursor : Cursors \cup {NoValue}, loading : BOOLEAN, loadingMore : BOOLEAN,
          error : {NoValue, "failed", "cursor_invalid"}, first : SUBSET Rows]
Asked == [n : 1 .. 2, filter : Tags \cup {""}, cursor : Cursors \cup {NoValue},
          append : BOOLEAN, answer : Answers \cup {NoValue}, there : SUBSET Rows]

\* How far the pages before a cursor go.
Reached(r, cursor) == cursor = NoValue \/ r = cursor.row \/ Precedes(r, cursor.row)

Here(first) == first \cap store

\* The pages up to the cursor: the rows there from the first one on are in one page of
\* them if they come before the cursor, and else in none.
Walked(pages, cursor, first, filter) ==
  /\ cursor # NoValue => cursor.filter = filter
  /\ \A i \in DOMAIN pages, r \in Rows : r \in pages[i] => Passes(r, filter)
  /\ \A r \in first : Known(r) /\ Passes(r, filter)
  /\ \A r \in Here(first) :
       /\ cursor # NoValue /\ r.id = cursor.row.id => r = cursor.row
       /\ Reached(r, cursor) => \E i \in DOMAIN pages : /\ r \in pages[i]
                                                        /\ \A j \in DOMAIN pages : r \in pages[j] => j = i
       /\ ~Reached(r, cursor) => \A i \in DOMAIN pages : r \notin pages[i]

\* An answer, to those that were there from the first page on, is what comes next.
Continued(answer, cursor, first, filter) ==
  /\ answer.error = NoValue
  /\ answer.cursor # NoValue => answer.cursor.filter = filter
  /\ \A r \in answer.rows : Passes(r, filter)
  /\ cursor # NoValue /\ answer.cursor # NoValue => Precedes(cursor.row, answer.cursor.row)
  /\ \A r \in first : Known(r) /\ Passes(r, filter)
  /\ \A r \in Here(first) :
       /\ answer.cursor # NoValue /\ r.id = answer.cursor.row.id => r = answer.cursor.row
       /\ r \in answer.rows <=> /\ cursor = NoValue \/ Precedes(cursor.row, r)
                                /\ Reached(r, answer.cursor)

WalkOf(v) == Walked(v.pages, v.cursor, v.first, ServerFilter(v.filter))

\* Nobody acted while a request was under way: there is one at most, made of what the
\* page shows.
AskedOf(a, v) ==
  /\ a.filter = ServerFilter(v.filter)
  /\ IF a.append
     THEN /\ a.cursor = v.cursor /\ v.cursor # NoValue /\ WalkOf(v)
          /\ a.answer # NoValue /\ a.answer.error # "failed" => Continued(a.answer, a.cursor, v.first, a.filter)
     ELSE /\ a.cursor = NoValue
          /\ a.answer # NoValue => Continued(a.answer, NoValue, a.there, a.filter)

Calm(v, A) ==
  /\ v.error # "cursor_invalid"
  /\ \A a \in A, b \in A : a = b
  /\ A = {} => WalkOf(v)
  /\ \A a \in A : AskedOf(a, v)

CalmNow == \A v \in {view}, A \in {asks} : calm => Calm(v, A)

ListInv ==
  /\ StoreOK
  /\ view \in Views /\ asks \subseteq Asked /\ calm \in BOOLEAN
  /\ CalmNow

LEMMA ListConstants ==
  /\ MaxTime \in Nat /\ MaxRewrites \in Nat /\ Ids \subseteq Nat /\ Limit \in Nat \ {0}
  /\ NoValue \notin Cursors /\ NoValue \notin Answers /\ NoValue # "failed" /\ NoValue # "cursor_invalid"
BY ListingAssumption

LEMMA PrecedesOrders ==
  ASSUME NEW a \in Rows, NEW b \in Rows
  PROVE  /\ ~(Precedes(a, b) /\ Precedes(b, a)) /\ ~Precedes(a, a)
         /\ a.id # b.id => Precedes(a, b) \/ Precedes(b, a)
         /\ \A c \in Rows : Precedes(a, b) /\ Precedes(b, c) => Precedes(a, c)
<1>1. ASSUME NEW r \in Rows PROVE r.at \in Int /\ r.id \in Int
  <2>1. r.at \in 0 .. MaxTime /\ r.id \in Ids
    BY DEF Rows
  <2>2. r.at \in Int
    BY <2>1
  <2>3. r.id \in Int
    <3>1. Ids \subseteq Nat
      BY ListConstants
    <3>2. r.id \in Nat
      BY <2>1, <3>1
    <3> QED BY <3>2
  <2> QED BY <2>2, <2>3
<1> QED BY <1>1 DEF Precedes

LEMMA LeftIsOrdered ==
  ASSUME StoreOK, NEW left, left \subseteq store
  PROVE  IsFiniteSet(left) /\ Orders(Order(left), left)
         /\ \A a \in left, b \in left : <<a, b>> \in Order(left) <=> Precedes(a, b)
<1>1. IsFiniteSet(left)
  BY FS_Subset DEF StoreOK
<1>2. \A a \in left, b \in left : <<a, b>> \in Order(left) <=> Precedes(a, b)
  BY DEF Order
<1>3. left \subseteq Rows /\ \A a \in left, b \in left : a # b => a.id # b.id
  BY DEF StoreOK, Known
<1>4. /\ \A x \in left, y \in left : x # y => Precedes(x, y) \/ Precedes(y, x)
      /\ \A x \in left : ~Precedes(x, x)
      /\ \A x \in left, y \in left, z \in left : Precedes(x, y) /\ Precedes(y, z) => Precedes(x, z)
  BY <1>3, PrecedesOrders
<1> QED BY <1>1, <1>2, <1>4 DEF Orders

\* A page of the list continues after the cursor, and its own cursor is its last row.
LEMMA PageContinues ==
  ASSUME StoreOK, NEW cursor \in Cursors \cup {NoValue}, NEW filter \in Tags \cup {""}, NEW first,
         \A r \in first : Known(r) /\ Passes(r, filter)
  PROVE  /\ ReadPage("own", cursor, filter) \in Answers
         /\ Continued(ReadPage("own", cursor, filter), cursor, first, filter)
<1> DEFINE left == {r \in store : Passes(r, filter) /\ (cursor = NoValue \/ Precedes(cursor.row, r))}
           order == Order(left)
           listed == FirstOf(left, order, Limit)
           last == LastOf(listed, order)
           more == Cardinality(left) > Limit
           next == IF more THEN [row |-> last, filter |-> filter] ELSE NoValue
           answer == [rows |-> listed, cursor |-> next, error |-> NoValue]
<1>1. ReadPage("own", cursor, filter) = answer
  BY DEF ReadPage, Scoped
<1>2. IsFiniteSet(left) /\ Orders(order, left)
      /\ \A a \in left, b \in left : <<a, b>> \in order <=> Precedes(a, b)
  BY LeftIsOrdered
<1>3. left \subseteq store /\ left \subseteq Rows /\ store \subseteq Rows
  BY DEF StoreOK, Known
<1>4. \A r \in left : Passes(r, filter) /\ (cursor # NoValue => Precedes(cursor.row, r))
  OBVIOUS
<1>5. \A r \in Here(first) : r \in left <=> cursor = NoValue \/ Precedes(cursor.row, r)
  BY DEF Here
<1> HIDE DEF left, order
<1>6. /\ listed \subseteq left
      /\ ~more => listed = left
      /\ more => last \in left /\ \A x \in left : x \in listed <=> x = last \/ <<x, last>> \in order
  BY <1>2, FirstPage, ListConstants
<1> HIDE DEF listed, last, more
<1>7. more => next \in Cursors /\ next.row = last /\ next.filter = filter /\ next # NoValue
  <2>1. more => last \in Rows
    BY <1>3, <1>6
  <2>2. more => [row |-> last, filter |-> filter] \in Cursors
    BY <2>1 DEF Cursors
  <2> QED BY <2>2, ListConstants
<1>8. ~more => next = NoValue
  OBVIOUS
<1> HIDE DEF next
<1>9. answer \in Answers /\ answer.rows = listed /\ answer.cursor = next /\ answer.error = NoValue
  BY <1>3, <1>6, <1>7, <1>8 DEF Answers
<1> HIDE DEF answer
<1>10. \A r \in Here(first) :
         /\ next # NoValue /\ r.id = next.row.id => r = next.row
         /\ r \in listed <=> (cursor = NoValue \/ Precedes(cursor.row, r)) /\ Reached(r, next)
  <2> TAKE r \in Here(first)
  <2>1. r \in store /\ r \in Rows
    BY <1>3 DEF Here
  <2>2. CASE more
    <3>1. last \in store /\ last \in left
      BY <1>3, <1>6, <2>2
    <3>2. r.id = last.id => r = last
      BY <2>1, <3>1 DEF StoreOK
    <3>3. r \in left => (r \in listed <=> r = last \/ Precedes(r, last))
      BY <1>2, <1>6, <2>2, <3>1
    <3> QED BY <1>5, <1>6, <1>7, <2>2, <3>2, <3>3 DEF Reached
  <2>3. CASE ~more
    BY <1>5, <1>6, <1>8, <2>3 DEF Reached
  <2> QED BY <2>2, <2>3
<1>11. cursor # NoValue /\ next # NoValue => Precedes(cursor.row, next.row)
  BY <1>4, <1>6, <1>7, <1>8
<1>12. Continued(answer, cursor, first, filter)
  BY <1>4, <1>6, <1>7, <1>8, <1>9, <1>10, <1>11 DEF Continued
<1> QED BY <1>1, <1>9, <1>12

\* Every list's route answers its own page with a page of the list, or refuses a cursor
\* of another filter.
LEMMA AnsweredAlike ==
  ASSUME page \in Pages, NEW cursor, NEW filter
  PROVE  Respond(Reader, "own", cursor, filter) =
           IF Continues(cursor, filter) THEN ReadPage("own", cursor, filter)
           ELSE Refusal("cursor_invalid")
<1>1. page \in {"events", "jobs", "audit", "knowledge", "timeline"}
  BY ListingAssumption
<1>2. CASE page = "events"
  BY <1>2 DEF Respond, Reader, GetEventsListHandler, ListEvents
<1>3. CASE page = "jobs"
  BY <1>3 DEF Respond, Reader, ListJobsHandler, ListJobs, OfTeam
<1>4. CASE page = "audit"
  BY <1>4 DEF Respond, Reader, GetAuditListHandler, ListAuditRecords
<1>5. CASE page = "knowledge"
  BY <1>5 DEF Respond, Reader, GetConceptsListHandler, ListConcepts, OfTeam
<1>6. CASE page = "timeline"
  BY <1>6 DEF Respond, Reader, TimelineHandler, QueryTimeline
<1> QED BY <1>1, <1>2, <1>3, <1>4, <1>5, <1>6

\* Writers bring rows nobody has read.
Older ==
  /\ page' = page /\ used \subseteq used' /\ rewrites <= rewrites'
  /\ \A r \in store' : Known(r) => r \in store

LEMMA WalkGoesOn ==
  ASSUME StoreOK, StoreOK', Older, NEW pages, NEW cursor, NEW first, NEW filter
  PROVE  /\ Walked(pages, cursor, first, filter) => Walked(pages, cursor, first, filter)'
         /\ \A answer : Continued(answer, cursor, first, filter)
                          => Continued(answer, cursor, first, filter)'
<1>1. \A r \in Rows : Known(r) => Known(r)'
  BY DEF Known, Older, Rows, StoreOK
<1>2. \A r : Known(r) => r \in Rows
  BY DEF Known
<1>3. (\A r \in first : Known(r)) => (\A r \in first : Known(r)') /\ Here(first)' \subseteq Here(first)
  BY <1>1, <1>2 DEF Here, Older
<1>4. \A a, b : Precedes(a, b)' <=> Precedes(a, b)
  BY DEF Precedes, Older
<1>5. \A r : Reached(r, cursor)' <=> Reached(r, cursor)
  BY <1>4 DEF Reached
<1>6. Walked(pages, cursor, first, filter) => Walked(pages, cursor, first, filter)'
  BY <1>3, <1>5 DEF Walked
<1>7. ASSUME NEW answer, Continued(answer, cursor, first, filter)
      PROVE  Continued(answer, cursor, first, filter)'
  <2>1. \A r : Reached(r, answer.cursor)' <=> Reached(r, answer.cursor)
    BY <1>4 DEF Reached
  <2> QED BY <1>3, <1>4, <1>7, <2>1 DEF Continued
<1> QED BY <1>6, <1>7

LEMMA CalmGoesOn ==
  ASSUME StoreOK, StoreOK', Older, NEW v, NEW A, Calm(v, A)
  PROVE  Calm(v, A)'
<1>1. WalkOf(v) => WalkOf(v)'
  BY WalkGoesOn DEF WalkOf
<1>2. ASSUME NEW a, AskedOf(a, v) PROVE AskedOf(a, v)'
  <2>1. CASE a.append
    BY <1>1, <1>2, <2>1, WalkGoesOn DEF AskedOf
  <2>2. CASE ~a.append
    BY <1>2, <2>2, WalkGoesOn DEF AskedOf
  <2> QED BY <2>1, <2>2
<1> QED BY <1>1, <1>2 DEF Calm

LEMMA WritersKeep ==
  ASSUME ListInv, StoreOK', Older, UNCHANGED <<view, asks, calm>>
  PROVE  ListInv'
<1>1. StoreOK /\ CalmNow
  BY DEF ListInv
<1>2. CalmNow'
  BY <1>1, CalmGoesOn DEF CalmNow
<1> QED BY <1>2 DEF ListInv

LEMMA RowsAre ==
  ASSUME NEW id \in Ids, NEW at \in 0 .. MaxTime, NEW tag \in Tags, NEW version \in 0 .. MaxRewrites
  PROVE  [id |-> id, at |-> at, tag |-> tag, version |-> version] \in Rows
BY DEF Rows

LEMMA WriteKeepsLists ==
  ASSUME ListInv, NEW id \in Ids, NEW at \in 0 .. MaxTime, NEW tag \in Tags, Write(id, at, tag)
  PROVE  ListInv'
<1> DEFINE r == [id |-> id, at |-> at, tag |-> tag, version |-> 0]
<1>1. StoreOK
  BY DEF ListInv
<1>2. /\ store' = store \cup {r} /\ used' = used \cup {id} /\ id \notin used
      /\ UNCHANGED <<page, rewrites, ticks, view, asks, calm>>
  BY DEF Write
<1>3. r \in Rows /\ r.id = id /\ r.version = 0
  BY RowsAre, ListConstants
<1> HIDE DEF r
<1>4. StoreOK'
  <2>1. IsFiniteSet(store')
    BY <1>1, <1>2, FS_AddElement DEF StoreOK
  <2>2. \A s \in store' : Known(s)'
    BY <1>1, <1>2, <1>3 DEF StoreOK, Known
  <2>3. \A s \in store', t \in store' : s.id = t.id => s = t
    BY <1>1, <1>2, <1>3 DEF StoreOK, Known
  <2> QED BY <1>1, <1>2, <2>1, <2>2, <2>3 DEF StoreOK
<1>5. Older
  BY <1>1, <1>2, <1>3 DEF Older, StoreOK, Known
<1> QED BY <1>2, <1>4, <1>5, WritersKeep

LEMMA RewriteKeepsLists ==
  ASSUME ListInv, NEW r \in store, Rewrite(r)
  PROVE  ListInv'
<1>1. StoreOK /\ r \in Rows /\ r.id \in used
  BY DEF ListInv, StoreOK, Known
<1>2. PICK at \in 0 .. MaxTime, tag \in Tags :
        store' = (store \ {r}) \cup {[r EXCEPT !.at = at, !.tag = tag, !.version = rewrites']}
  <2>1. r.at \in 0 .. MaxTime /\ 0 .. ticks \subseteq 0 .. MaxTime
    BY <1>1, ListConstants DEF Rows, StoreOK
  <2> QED BY <2>1 DEF Rewrite
<1>3. /\ rewrites < MaxRewrites /\ rewrites' = rewrites + 1
      /\ UNCHANGED <<page, used, ticks, view, asks, calm>>
  BY DEF Rewrite
<1>4. rewrites \in Nat /\ rewrites' \in 0 .. MaxRewrites
  BY <1>1, <1>3, ListConstants DEF StoreOK
<1> DEFINE s == [[[r EXCEPT !.at = at] EXCEPT !.tag = tag] EXCEPT !.version = rewrites']
<1>5. store' = (store \ {r}) \cup {s}
  BY <1>1, <1>2 DEF Rows
<1>6. s \in Rows /\ s.id = r.id /\ s.version = rewrites + 1
  BY <1>1, <1>3, <1>4 DEF Rows
<1> HIDE DEF s
<1>7. StoreOK'
  <2>1. IsFiniteSet(store')
    BY <1>1, <1>5, FS_AddElement, FS_RemoveElement DEF StoreOK
  <2>2. \A t \in store' : Known(t)'
    BY <1>1, <1>3, <1>4, <1>5, <1>6 DEF StoreOK, Known, Rows
  <2>3. \A t \in store', u \in store' : t.id = u.id => t = u
    BY <1>1, <1>5, <1>6 DEF StoreOK
  <2> QED BY <1>1, <1>3, <1>4, <2>1, <2>2, <2>3 DEF StoreOK
<1>8. Older
  BY <1>3, <1>4, <1>5, <1>6 DEF Older, Known
<1> QED BY <1>3, <1>7, <1>8, WritersKeep

LEMMA PurgeKeepsLists ==
  ASSUME ListInv, Purge PROVE ListInv'
<1>1. store' = {} /\ UNCHANGED <<page, used, rewrites, ticks, view, asks, calm>> /\ StoreOK
  BY DEF Purge, ListInv
<1>2. StoreOK' /\ Older
  BY <1>1, FS_EmptySet DEF StoreOK, Older
<1> QED BY <1>1, <1>2, WritersKeep

LEMMA TickKeepsLists ==
  ASSUME ListInv, Tick PROVE ListInv'
<1>1. /\ ticks < MaxTime /\ ticks' = ticks + 1 /\ StoreOK
      /\ UNCHANGED <<page, store, used, rewrites, view, asks, calm>>
  BY DEF Tick, ListInv
<1>2. StoreOK'
  BY <1>1, ListConstants DEF StoreOK, Known
<1>3. Older
  BY <1>1 DEF StoreOK, Older
<1> QED BY <1>1, <1>2, <1>3, WritersKeep

\* The store stays, and what the page has and asks for is calm if it says so.
LEMMA PageMoves ==
  ASSUME ListInv, UNCHANGED <<page, store, used, rewrites, ticks>>,
         NEW v \in Views, view' = v, NEW A \in SUBSET Asked, asks' = A,
         calm' \in BOOLEAN, calm' => Calm(v, A)
  PROVE  ListInv'
<1>1. StoreOK /\ StoreOK' /\ Older
  BY DEF ListInv, StoreOK, Older, Known
<1>2. calm' => Calm(v, A)'
  BY <1>1, CalmGoesOn
<1>3. CalmNow'
  BY <1>2 DEF CalmNow
<1> QED BY <1>1, <1>3 DEF ListInv

LEMMA FiltersKnown ==
  \A f \in {"", "one", "github_group"} : ServerFilter(f) \in Tags \cup {""}
BY DEF ServerFilter, Tags

LEMMA LoadKeepsLists ==
  ASSUME ListInv, UNCHANGED <<page, store, used, rewrites, ticks>>,
         NEW b \in Views, NEW cursor \in Cursors \cup {NoValue}, NEW append \in BOOLEAN,
         LoadPage(b, cursor, append),
         append => b = view /\ cursor = view.cursor /\ cursor # NoValue,
         ~append => cursor = NoValue
  PROVE  ListInv'
<1> DEFINE v == IF append THEN [[b EXCEPT !.loadingMore = TRUE] EXCEPT !.error = NoValue]
                ELSE [[b EXCEPT !.loading = TRUE] EXCEPT !.error = NoValue]
<1>1. view' = v
  BY DEF LoadPage, Views
<1>2. /\ v \in Views /\ v.error = NoValue /\ v.filter = b.filter /\ v.pages = b.pages
      /\ v.cursor = b.cursor /\ v.first = b.first
  BY DEF Views
<1>3. Ask(b.filter, cursor, append)
  BY DEF LoadPage
<1>4. PICK n \in 1 .. 2 :
        asks' = asks \cup {[n |-> n, filter |-> ServerFilter(b.filter), cursor |-> cursor,
                            append |-> append, answer |-> NoValue, there |-> {}]}
  BY <1>3 DEF Ask
<1> DEFINE a == [n |-> n, filter |-> ServerFilter(b.filter), cursor |-> cursor,
                 append |-> append, answer |-> NoValue, there |-> {}]
<1>5. /\ a \in Asked /\ a.filter = ServerFilter(b.filter) /\ a.cursor = cursor
      /\ a.append = append /\ a.answer = NoValue
  BY FiltersKnown DEF Asked, Views
<1>6. asks' = asks \cup {a}
  BY <1>4
<1>7. calm' = (IF append THEN calm /\ asks = {} ELSE asks = {})
  BY <1>3 DEF Ask
<1> HIDE DEF v, a
<1>8. ASSUME calm' PROVE Calm(v, asks \cup {a})
  <2>1. asks = {}
    BY <1>7, <1>8
  <2>2. append => WalkOf(v)
    <3>1. append => calm
      BY <1>7, <1>8
    <3>2. calm => Calm(view, asks)
      BY DEF ListInv, CalmNow
    <3> QED BY <1>2, <2>1, <3>1, <3>2 DEF Calm, WalkOf
  <2>3. AskedOf(a, v)
    BY <1>2, <1>5, <2>2 DEF AskedOf
  <2> QED BY <1>2, <2>1, <2>3, ListConstants DEF Calm
<1>9. calm' \in BOOLEAN /\ asks \cup {a} \in SUBSET Asked
  BY <1>5, <1>7 DEF ListInv
<1> QED BY <1>1, <1>2, <1>6, <1>8, <1>9, PageMoves

LEMMA LoadIsPage ==
  ASSUME page \in Pages, NEW b, NEW cursor, NEW append, Load(b, cursor, append)
  PROVE  LoadPage(b, cursor, append)
<1>1. page \in {"events", "jobs", "audit", "knowledge", "timeline"}
  BY ListingAssumption
<1> QED BY <1>1 DEF Load, LoadEvents, LoadJobs, LoadConcepts, FetchAudit

LEMMA OpenKeepsLists ==
  ASSUME ListInv, Open PROVE ListInv'
<1>1. Load(view, NoValue, FALSE) /\ UNCHANGED <<page, store, used, rewrites, ticks>>
  BY DEF Open, Click
<1>2. page \in Pages /\ view \in Views
  BY DEF ListInv, StoreOK
<1>3. LoadPage(view, NoValue, FALSE)
  BY <1>1, <1>2, LoadIsPage
<1> QED BY <1>1, <1>2, <1>3, LoadKeepsLists

LEMMA LoadMoreKeepsLists ==
  ASSUME ListInv, HandleLoadMore PROVE ListInv'
<1>1. /\ Load(view, view.cursor, TRUE) /\ UNCHANGED <<page, store, used, rewrites, ticks>>
      /\ "more" \in Offered
  BY DEF HandleLoadMore, Click
<1>2. page \in Pages /\ view \in Views /\ view.cursor \in Cursors \cup {NoValue}
  BY DEF ListInv, StoreOK, Views
<1>3. page \in {"events", "jobs", "audit", "knowledge", "timeline"}
  BY <1>2, ListingAssumption
<1>4. view.cursor # NoValue
  BY <1>1, <1>3 DEF Offered, EventsScreen, JobsScreen, AuditScreen, KnowledgeScreen, AgentScreen, More
<1>5. LoadPage(view, view.cursor, TRUE)
  BY <1>1, <1>2, LoadIsPage
<1> QED BY <1>1, <1>2, <1>4, <1>5, LoadKeepsLists

LEMMA KeptIsPages ==
  ASSUME NEW v \in Views, NEW gone \in BOOLEAN
  PROVE  [v EXCEPT !.pages = IF gone THEN << >> ELSE v.pages] \in Views
<1> DEFINE kept == IF gone THEN << >> ELSE v.pages
<1>1. v.pages \in Seq(SUBSET Rows)
  BY DEF Views
<1>2. kept \in Seq(SUBSET Rows)
  <2>1. << >> \in Seq(SUBSET Rows)
    OBVIOUS
  <2> QED BY <1>1, <2>1
<1> HIDE DEF kept
<1>3. [v EXCEPT !.pages = kept] \in Views
  BY <1>2 DEF Views
<1> QED BY <1>3 DEF kept

LEMMA RetryKeepsLists ==
  ASSUME ListInv, Retry PROVE ListInv'
<1> DEFINE kept == IF page = "timeline" THEN << >> ELSE view.pages
           b == [view EXCEPT !.pages = kept]
<1>1. page \in Pages /\ view \in Views
  BY DEF ListInv, StoreOK
<1>2. Load(b, NoValue, FALSE) /\ UNCHANGED <<page, store, used, rewrites, ticks>>
  BY <1>1 DEF Retry, Click
<1>3. b \in Views
  BY <1>1, KeptIsPages
<1> HIDE DEF b
<1>4. LoadPage(b, NoValue, FALSE)
  BY <1>1, <1>2, LoadIsPage
<1> QED BY <1>2, <1>3, <1>4, LoadKeepsLists

LEMMA FilterChangeKeepsLists ==
  ASSUME ListInv, NEW filter \in Filters(page), HandleFilterChange(filter) PROVE ListInv'
<1>1. page \in Pages /\ view \in Views /\ asks \in SUBSET Asked /\ calm \in BOOLEAN
  BY DEF ListInv, StoreOK
<1>2. UNCHANGED <<page, store, used, rewrites, ticks>> /\ filter \in {"", "one", "github_group"}
  BY DEF HandleFilterChange, Click, Filters
<1>3. CASE ServerFilter(filter) = ServerFilter(view.filter)
  <2> DEFINE v == [view EXCEPT !.filter = filter]
  <2>1. view' = v /\ UNCHANGED <<asks, calm>>
    BY <1>3 DEF HandleFilterChange
  <2>2. /\ v \in Views /\ v.filter = filter /\ v.pages = view.pages /\ v.error = view.error
        /\ v.cursor = view.cursor /\ v.first = view.first
    BY <1>1, <1>2 DEF Views
  <2> HIDE DEF v
  <2>3. WalkOf(view) => WalkOf(v)
    BY <1>3, <2>2 DEF WalkOf
  <2>4. \A a : AskedOf(a, view) => AskedOf(a, v)
    BY <1>3, <2>2, <2>3 DEF AskedOf
  <2>5. calm => Calm(v, asks)
    BY <2>2, <2>3, <2>4 DEF ListInv, CalmNow, Calm
  <2> QED BY <1>1, <1>2, <2>1, <2>2, <2>5, PageMoves
<1>4. CASE ServerFilter(filter) # ServerFilter(view.filter)
  <2> DEFINE v == [view EXCEPT !.filter = filter]
             b == [v EXCEPT !.pages = IF page = "knowledge" THEN << >> ELSE v.pages]
  <2>1. Load(b, NoValue, FALSE)
    BY <1>1, <1>4 DEF HandleFilterChange, Views
  <2>2. b \in Views
    <3>1. v \in Views
      BY <1>1, <1>2 DEF Views
    <3> HIDE DEF v
    <3> QED BY <3>1, KeptIsPages
  <2> HIDE DEF b
  <2>3. LoadPage(b, NoValue, FALSE)
    BY <1>1, <2>1, LoadIsPage
  <2> QED BY <1>2, <2>2, <2>3, LoadKeepsLists
<1> QED BY <1>3, <1>4

\* The page after the cursor lengthens a walk.
LEMMA WalkLengthens ==
  ASSUME StoreOK, NEW pages \in Seq(SUBSET Rows), NEW cursor \in Cursors, NEW first, NEW filter,
         Walked(pages, cursor, first, filter), NEW answer \in Answers,
         Continued(answer, cursor, first, filter)
  PROVE  Walked(Append(pages, answer.rows), answer.cursor, first, filter)
<1> DEFINE n == Len(pages)
           listed == answer.rows
           next == answer.cursor
           longer == Append(pages, listed)
<1>1. /\ n \in Nat /\ DOMAIN pages = 1 .. n /\ DOMAIN longer = 1 .. n + 1
      /\ \A i \in 1 .. n : longer[i] = pages[i]
      /\ longer[n + 1] = listed
  <2>1. listed \in SUBSET Rows
    BY DEF Answers
  <2> HIDE DEF listed
  <2> QED BY <2>1
<1>2. /\ answer.error = NoValue /\ (next # NoValue => next.filter = filter)
      /\ \A r \in listed : Passes(r, filter)
      /\ next # NoValue => Precedes(cursor.row, next.row)
      /\ \A r \in Here(first) :
           /\ next # NoValue /\ r.id = next.row.id => r = next.row
           /\ r \in listed <=> Precedes(cursor.row, r) /\ Reached(r, next)
  BY ListConstants DEF Continued
<1>3. /\ \A i \in 1 .. n, r \in Rows : r \in pages[i] => Passes(r, filter)
      /\ \A r \in first : Known(r) /\ Passes(r, filter)
      /\ \A r \in Here(first) :
           /\ r.id = cursor.row.id => r = cursor.row
           /\ Reached(r, cursor) => \E i \in 1 .. n : /\ r \in pages[i]
                                                     /\ \A j \in 1 .. n : r \in pages[j] => j = i
           /\ ~Reached(r, cursor) => \A i \in 1 .. n : r \notin pages[i]
  BY <1>1, ListConstants DEF Walked
<1>4. cursor.row \in Rows /\ (next # NoValue => next.row \in Rows)
  BY DEF Cursors, Answers
<1> HIDE DEF n, listed, next, longer
<1>5. \A i \in 1 .. n + 1, r \in Rows : r \in longer[i] => Passes(r, filter)
  <2> TAKE i \in 1 .. n + 1, r \in Rows
  <2>1. i \in 1 .. n \/ i = n + 1
    BY <1>1
  <2> QED BY <2>1, <1>1, <1>2, <1>3
<1>6. ASSUME NEW r \in Here(first)
      PROVE  /\ Reached(r, next) => \E i \in 1 .. n + 1 :
                  r \in longer[i] /\ \A j \in 1 .. n + 1 : r \in longer[j] => j = i
             /\ ~Reached(r, next) => \A i \in 1 .. n + 1 : r \notin longer[i]
  <2>1. r \in Rows
    BY DEF Here, StoreOK, Known
  <2>2. Reached(r, cursor) <=> r = cursor.row \/ Precedes(r, cursor.row)
    BY ListConstants DEF Reached
  <2>3. \A i \in 1 .. n + 1 : i \in 1 .. n \/ i = n + 1
    BY <1>1
  <2>4. n + 1 \in 1 .. n + 1 /\ \A i \in 1 .. n : i \in 1 .. n + 1
    BY <1>1
  <2>5. CASE Reached(r, cursor)
    <3>1. r \notin listed
      BY <1>2, <1>4, <2>1, <2>2, <2>5, PrecedesOrders
    <3>2. Reached(r, next)
      BY <1>2, <1>4, <2>1, <2>2, <2>5, PrecedesOrders DEF Reached
    <3>3. PICK i \in 1 .. n : r \in pages[i] /\ \A j \in 1 .. n : r \in pages[j] => j = i
      BY <1>3, <2>5
    <3>4. r \in longer[i] /\ \A j \in 1 .. n + 1 : r \in longer[j] => j = i
      BY <1>1, <2>3, <3>1, <3>3
    <3> QED BY <2>4, <3>2, <3>4
  <2>6. CASE ~Reached(r, cursor)
    <3>1. \A i \in 1 .. n : r \notin longer[i]
      BY <1>1, <1>3, <2>6
    <3>2. Precedes(cursor.row, r)
      BY <1>3, <1>4, <2>1, <2>2, <2>6, PrecedesOrders
    <3>3. r \in longer[n + 1] <=> Reached(r, next)
      BY <1>1, <1>2, <3>2
    <3> QED BY <2>3, <2>4, <3>1, <3>3
  <2> QED BY <2>5, <2>6
<1>7. Walked(longer, next, first, filter)
  BY <1>1, <1>2, <1>3, <1>5, <1>6 DEF Walked
<1> QED BY <1>7 DEF longer, next, listed

\* A first page begins a walk.
LEMMA WalkBegins ==
  ASSUME NEW there, NEW filter, NEW answer \in Answers,
         Continued(answer, NoValue, there, filter)
  PROVE  Walked(<<answer.rows>>, answer.cursor, there, filter)
<1> DEFINE listed == answer.rows
           next == answer.cursor
           one == <<listed>>
<1>1. DOMAIN one = {1} /\ one[1] = listed
  <2> HIDE DEF listed
  <2> QED OBVIOUS
<1> HIDE DEF one
<1>2. /\ next # NoValue => next.filter = filter
      /\ \A r \in listed : Passes(r, filter)
      /\ \A r \in there : Known(r) /\ Passes(r, filter)
      /\ \A r \in Here(there) :
           /\ next # NoValue /\ r.id = next.row.id => r = next.row
           /\ r \in listed <=> Reached(r, next)
  BY DEF Continued
<1> HIDE DEF listed, next
<1>3. \A i \in DOMAIN one : i = 1 /\ one[i] = listed
  BY <1>1
<1>4. 1 \in DOMAIN one
  BY <1>1
<1>5. \A i \in DOMAIN one, r \in Rows : r \in one[i] => Passes(r, filter)
  BY <1>2, <1>3
<1>6. \A r \in Here(there) :
        /\ Reached(r, next) => \E i \in DOMAIN one : /\ r \in one[i]
                                                   /\ \A j \in DOMAIN one : r \in one[j] => j = i
        /\ ~Reached(r, next) => \A i \in DOMAIN one : r \notin one[i]
  <2> TAKE r \in Here(there)
  <2>1. r \in listed <=> Reached(r, next)
    BY <1>2
  <2>2. \A i \in DOMAIN one : r \in one[i] <=> Reached(r, next)
    BY <1>3, <2>1
  <2>3. Reached(r, next) => /\ r \in one[1]
                            /\ \A j \in DOMAIN one : r \in one[j] => j = 1
    BY <1>3, <1>4, <2>2
  <2> QED BY <1>4, <2>2, <2>3
<1>7. /\ next # NoValue => next.filter = filter
      /\ \A r \in there : Known(r) /\ Passes(r, filter)
      /\ \A r \in Here(there) : next # NoValue /\ r.id = next.row.id => r = next.row
  BY <1>2
<1>8. Walked(one, next, there, filter)
  BY <1>5, <1>6, <1>7, Zenon DEF Walked
<1> QED BY <1>8 DEF one, next, listed

\* One of the requests is exchanged.
LEMMA ExchangeKeepsLists ==
  ASSUME ListInv, UNCHANGED <<page, store, used, rewrites, ticks, view>>,
         NEW a \in asks, NEW b \in Asked, asks' = (asks \ {a}) \cup {b},
         calm' \in BOOLEAN, calm' => calm,
         calm' /\ AskedOf(a, view) => AskedOf(b, view)
  PROVE  ListInv'
<1>1. view \in Views /\ (asks \ {a}) \cup {b} \in SUBSET Asked
  BY DEF ListInv
<1>2. calm' => Calm(view, (asks \ {a}) \cup {b})
  <2> SUFFICES ASSUME calm' PROVE Calm(view, (asks \ {a}) \cup {b})
    OBVIOUS
  <2>1. Calm(view, asks)
    BY DEF ListInv, CalmNow
  <2>2. (asks \ {a}) \cup {b} = {b} /\ AskedOf(b, view)
    BY <2>1 DEF Calm
  <2>3. view.error # "cursor_invalid"
    BY <2>1 DEF Calm
  <2> QED BY <2>2, <2>3 DEF Calm
<1> QED BY <1>1, <1>2, PageMoves

LEMMA RefusalIsAnswer ==
  \A code \in {"failed", "cursor_invalid"} : /\ Refusal(code) \in Answers
                                             /\ Refusal(code).error = code
BY DEF Refusal, Answers

LEMMA FailKeepsLists ==
  ASSUME ListInv, NEW a \in asks, FailRequest(a) PROVE ListInv'
<1> DEFINE b == [a EXCEPT !.answer = Refusal("failed")]
<1>1. /\ UNCHANGED <<page, store, used, rewrites, ticks, view>>
      /\ asks' = (asks \ {a}) \cup {b} /\ calm' = (calm /\ a.append)
  BY DEF FailRequest
<1>2. a \in Asked /\ calm \in BOOLEAN
  BY DEF ListInv
<1>3. /\ b \in Asked /\ b.filter = a.filter /\ b.append = a.append /\ b.cursor = a.cursor
      /\ b.answer.error = "failed"
  BY <1>2, RefusalIsAnswer DEF Asked
<1> HIDE DEF b
<1>4. calm' /\ AskedOf(a, view) => AskedOf(b, view)
  BY <1>1, <1>3 DEF AskedOf
<1> QED BY <1>1, <1>2, <1>3, <1>4, ExchangeKeepsLists

LEMMA AnswerKeepsLists ==
  ASSUME ListInv, NEW a \in asks, Answer(a) PROVE ListInv'
<1> DEFINE given == Respond(Reader, "own", a.cursor, a.filter)
           there == IF a.append THEN {} ELSE {r \in store : Passes(r, a.filter)}
           b == [[a EXCEPT !.answer = given] EXCEPT !.there = there]
<1>1. StoreOK /\ page \in Pages /\ a \in Asked /\ calm \in BOOLEAN
  BY DEF ListInv, StoreOK
<1>2. a.cursor \in Cursors \cup {NoValue} /\ a.filter \in Tags \cup {""} /\ a.append \in BOOLEAN
  BY <1>1 DEF Asked
<1>3. \A r \in store : r \in Rows /\ Known(r)
  BY <1>1 DEF StoreOK, Known
<1>4. /\ UNCHANGED <<page, store, used, rewrites, ticks, view, calm>>
      /\ asks' = (asks \ {a}) \cup {b}
  BY <1>1 DEF Answer, Asked
<1>5. given = IF Continues(a.cursor, a.filter) THEN ReadPage("own", a.cursor, a.filter)
              ELSE Refusal("cursor_invalid")
  BY <1>1, AnsweredAlike
<1>6. given \in Answers /\ given # NoValue
  <2>1. ReadPage("own", a.cursor, a.filter) \in Answers
    <3> DEFINE none == {}
    <3>1. \A r \in none : Known(r) /\ Passes(r, a.filter)
      OBVIOUS
    <3> HIDE DEF none
    <3> QED BY <1>1, <1>2, <3>1, PageContinues
  <2> QED BY <1>5, <2>1, RefusalIsAnswer, ListConstants
<1>7. there \in SUBSET Rows /\ \A r \in there : Known(r) /\ Passes(r, a.filter)
  BY <1>3
<1>8. ~a.append => there = {r \in store : Passes(r, a.filter)}
  OBVIOUS
<1> HIDE DEF given, there
<1>9. /\ b \in Asked /\ b.filter = a.filter /\ b.append = a.append /\ b.cursor = a.cursor
      /\ b.answer = given /\ b.there = there
  BY <1>1, <1>6, <1>7 DEF Asked
<1> HIDE DEF b
<1>10. ASSUME AskedOf(a, view) PROVE AskedOf(b, view)
  <2>1. CASE a.append
    <3>1. a.cursor = view.cursor /\ a.cursor # NoValue /\ WalkOf(view) /\ a.filter = ServerFilter(view.filter)
      BY <1>10, <2>1 DEF AskedOf
    <3>2. Continues(a.cursor, a.filter) /\ \A r \in view.first : Known(r) /\ Passes(r, a.filter)
      BY <3>1 DEF WalkOf, Walked, Continues
    <3>3. Continued(given, a.cursor, view.first, a.filter)
      BY <1>1, <1>2, <1>5, <3>2, PageContinues
    <3> QED BY <1>9, <2>1, <3>1, <3>3 DEF AskedOf
  <2>2. CASE ~a.append
    <3>1. a.cursor = NoValue /\ a.filter = ServerFilter(view.filter)
      BY <1>10, <2>2 DEF AskedOf
    <3>2. Continues(a.cursor, a.filter)
      BY <3>1 DEF Continues
    <3>3. Continued(given, a.cursor, there, a.filter)
      BY <1>1, <1>2, <1>5, <1>7, <3>2, PageContinues
    <3> QED BY <1>9, <2>2, <3>1, <3>3 DEF AskedOf
  <2> QED BY <2>1, <2>2
<1> QED BY <1>1, <1>4, <1>9, <1>10, ExchangeKeepsLists

LEMMA ArriveKeepsLists ==
  ASSUME ListInv, NEW a \in asks, Arrive(a) PROVE ListInv'
<1> DEFINE l == IF page = "audit" /\ a.append THEN view.loading ELSE FALSE
           m == IF page = "audit" /\ ~a.append THEN view.loadingMore ELSE FALSE
           read == [[view EXCEPT !.loading = l] EXCEPT !.loadingMore = m]
           failed == [read EXCEPT !.error = a.answer.error]
           pages == IF a.append THEN Append(view.pages, a.answer.rows) ELSE <<a.answer.rows>>
           first == IF a.append THEN view.first ELSE a.there
           got == [[[read EXCEPT !.pages = pages] EXCEPT !.cursor = a.answer.cursor]
                     EXCEPT !.first = first]
           v == IF a.answer.error # NoValue THEN failed ELSE got
<1>1. StoreOK /\ view \in Views /\ a \in Asked /\ calm \in BOOLEAN /\ asks \in SUBSET Asked
  BY DEF ListInv
<1>2. a.answer \in Answers /\ a.append \in BOOLEAN /\ a.there \in SUBSET Rows
  BY <1>1 DEF Arrive, Asked
<1>3. /\ a.answer.rows \in SUBSET Rows /\ a.answer.cursor \in Cursors \cup {NoValue}
      /\ a.answer.error \in {NoValue, "failed", "cursor_invalid"}
  BY <1>2 DEF Answers
<1>4. view.pages \in Seq(SUBSET Rows) /\ view.first \in SUBSET Rows
  BY <1>1 DEF Views
<1>5. UNCHANGED <<page, store, used, rewrites, ticks, calm>> /\ asks' = asks \ {a} /\ a.answer # NoValue
  BY DEF Arrive
<1>6. view' = v
  BY <1>1 DEF Arrive, Views
<1>7. pages \in Seq(SUBSET Rows) /\ first \in SUBSET Rows
  <2> DEFINE listed == a.answer.rows
  <2>1. listed \in SUBSET Rows
    BY <1>3
  <2> HIDE DEF listed
  <2>2. Append(view.pages, listed) \in Seq(SUBSET Rows) /\ <<listed>> \in Seq(SUBSET Rows)
    BY <1>4, <2>1
  <2>3. pages = IF a.append THEN Append(view.pages, listed) ELSE <<listed>>
    BY DEF listed
  <2> HIDE DEF pages
  <2> QED BY <1>2, <1>4, <2>2, <2>3
<1>8. l \in BOOLEAN /\ m \in BOOLEAN
  BY <1>1 DEF Views
<1> HIDE DEF l, m
<1>9. /\ read \in Views /\ read.filter = view.filter /\ read.pages = view.pages
      /\ read.cursor = view.cursor /\ read.first = view.first /\ read.error = view.error
  BY <1>1, <1>8 DEF Views
<1>10. pages = IF a.append THEN Append(view.pages, a.answer.rows) ELSE <<a.answer.rows>>
  OBVIOUS
<1>11. first = IF a.append THEN view.first ELSE a.there
  OBVIOUS
<1> HIDE DEF read, pages, first
<1>12. /\ failed \in Views /\ failed.filter = view.filter /\ failed.pages = view.pages
       /\ failed.cursor = view.cursor /\ failed.first = view.first /\ failed.error = a.answer.error
  BY <1>3, <1>9 DEF Views
<1>13. /\ got \in Views /\ got.filter = view.filter /\ got.pages = pages
       /\ got.cursor = a.answer.cursor /\ got.first = first /\ got.error = view.error
  BY <1>3, <1>7, <1>9 DEF Views
<1> HIDE DEF failed, got
<1>14. ASSUME calm PROVE Calm(v, asks \ {a})
  <2>1. Calm(view, asks)
    BY <1>14 DEF ListInv, CalmNow
  <2>2. asks \ {a} = {} /\ AskedOf(a, view) /\ view.error # "cursor_invalid"
    BY <2>1 DEF Calm
  <2>3. v.error # "cursor_invalid" /\ WalkOf(v)
    <3>1. CASE a.append
      <4>1. /\ a.cursor = view.cursor /\ a.cursor # NoValue /\ WalkOf(view)
            /\ a.filter = ServerFilter(view.filter)
            /\ a.answer.error # "failed" => Continued(a.answer, a.cursor, view.first, a.filter)
        BY <1>5, <2>2, <3>1 DEF AskedOf
      <4>2. a.cursor \in Cursors
        BY <1>1, <4>1 DEF Asked
      <4>3. CASE a.answer.error = "failed"
        <5>1. v = failed
          BY <4>3, ListConstants
        <5> QED BY <1>12, <4>1, <4>3, <5>1 DEF WalkOf
      <4>4. CASE a.answer.error # "failed"
        <5>1. Continued(a.answer, a.cursor, view.first, a.filter)
          BY <4>1, <4>4
        <5>2. a.answer.error = NoValue
          BY <5>1 DEF Continued
        <5>3. v = got
          BY <5>2
        <5>4. Walked(view.pages, a.cursor, view.first, a.filter)
          BY <4>1 DEF WalkOf
        <5>5. Walked(Append(view.pages, a.answer.rows), a.answer.cursor, view.first, a.filter)
          BY <1>1, <1>2, <1>4, <4>2, <5>1, <5>4, WalkLengthens
        <5> QED BY <1>10, <1>11, <1>13, <2>2, <3>1, <4>1, <5>3, <5>5 DEF WalkOf
      <4> QED BY <4>3, <4>4
    <3>2. CASE ~a.append
      <4>1. Continued(a.answer, NoValue, a.there, a.filter) /\ a.filter = ServerFilter(view.filter)
        BY <1>5, <2>2, <3>2 DEF AskedOf
      <4>2. a.answer.error = NoValue
        BY <4>1 DEF Continued
      <4>3. v = got
        BY <4>2
      <4>4. Walked(<<a.answer.rows>>, a.answer.cursor, a.there, a.filter)
        BY <1>2, <4>1, WalkBegins
      <4> QED BY <1>10, <1>11, <1>13, <2>2, <3>2, <4>1, <4>3, <4>4 DEF WalkOf
    <3> QED BY <3>1, <3>2
  <2> HIDE DEF v
  <2> QED BY <2>2, <2>3 DEF Calm
<1>15. v \in Views /\ asks \ {a} \in SUBSET Asked
  BY <1>1, <1>12, <1>13
<1> HIDE DEF v
<1> QED BY <1>1, <1>5, <1>6, <1>14, <1>15, PageMoves

LEMMA ListStarts == ListInit => ListInv
<1> SUFFICES ASSUME ListInit PROVE ListInv
  OBVIOUS
<1>1. StoreOK
  BY FS_EmptySet, ListConstants DEF ListInit, StoreOK
<1>2. /\ view.pages = << >> /\ view.cursor = NoValue /\ view.first = {} /\ view.error = NoValue
      /\ view \in Views
  <2>1. << >> \in Seq(SUBSET Rows)
    OBVIOUS
  <2>2. Unopened \in Views
    BY <2>1 DEF Unopened, Views
  <2> QED BY <2>2 DEF ListInit, Unopened
<1>3. WalkOf(view)
  BY <1>2 DEF WalkOf, Walked, Here
<1>4. CalmNow
  BY <1>2, <1>3, ListConstants DEF ListInit, CalmNow, Calm
<1> QED BY <1>1, <1>2, <1>4 DEF ListInit, ListInv

\* The lists keep ListInv: as long as nobody acts out of turn, the pages a list holds
\* cover the rows up to its cursor that were there from its first page on.
THEOREM ListInvariant == ListSpec => []ListInv
<1>1. ListInv /\ [ListNext]_listVars => ListInv'
  <2> SUFFICES ASSUME ListInv, [ListNext]_listVars PROVE ListInv'
    OBVIOUS
  <2>1. CASE UNCHANGED listVars
    <3>1. StoreOK' /\ Older
      BY <2>1 DEF listVars, ListInv, StoreOK, Older, Known
    <3> QED BY <2>1, <3>1, WritersKeep DEF listVars
  <2>2. CASE Open
    BY <2>2, OpenKeepsLists
  <2>3. CASE HandleLoadMore
    BY <2>3, LoadMoreKeepsLists
  <2>4. CASE Retry
    BY <2>4, RetryKeepsLists
  <2>5. CASE Tick
    BY <2>5, TickKeepsLists
  <2>6. CASE Purge
    BY <2>6, PurgeKeepsLists
  <2>7. CASE \E f \in Filters(page) : HandleFilterChange(f)
    BY <2>7, FilterChangeKeepsLists
  <2>8. CASE \E a \in asks : Answer(a) \/ FailRequest(a) \/ Arrive(a)
    BY <2>8, AnswerKeepsLists, FailKeepsLists, ArriveKeepsLists
  <2>9. CASE \E id \in Ids, at \in 0 .. MaxTime, tag \in Tags : Write(id, at, tag)
    BY <2>9, WriteKeepsLists
  <2>10. CASE \E r \in store : Rewrite(r)
    BY <2>10, RewriteKeepsLists
  <2> QED BY <2>1, <2>2, <2>3, <2>4, <2>5, <2>6, <2>7, <2>8, <2>9, <2>10 DEF ListNext
<1> QED BY <1>1, ListStarts, PTL DEF ListSpec

\* A calm walk that came to its last page shows every row that was there from its first
\* page on exactly once (the list routes with their pages).
THEOREM WalksAreExact == ListSpec => []WalkIsExact
<1>1. ListInv => WalkIsExact
  <2> SUFFICES ASSUME ListInv, Settled, calm, view.cursor = NoValue,
                      NEW r \in view.first \cap store
               PROVE  Cardinality({i \in DOMAIN view.pages : r \in view.pages[i]}) = 1
    BY DEF WalkIsExact
  <2>1. Calm(view, asks) /\ asks = {}
    BY DEF ListInv, CalmNow, Settled
  <2>2. Walked(view.pages, view.cursor, view.first, ServerFilter(view.filter))
    BY <2>1 DEF Calm, WalkOf
  <2>3. PICK i \in DOMAIN view.pages :
          r \in view.pages[i] /\ \A j \in DOMAIN view.pages : r \in view.pages[j] => j = i
    BY <2>2 DEF Walked, Here, Reached
  <2>4. {j \in DOMAIN view.pages : r \in view.pages[j]} = {i}
    BY <2>3
  <2> QED BY <2>4, FS_Singleton
<1> QED BY <1>1, ListInvariant, PTL

\* While nobody acts out of turn a page shows rows of the filter it shows, and never
\* meets cursor_invalid (handleFilterChange, handleLoadMore and the list routes).
THEOREM CalmPagesAreOfTheirFilter == ListSpec => []CalmPageIsOfItsFilter
<1>1. ListInv => CalmPageIsOfItsFilter
  <2> SUFFICES ASSUME ListInv, calm
               PROVE  /\ view.error # "cursor_invalid"
                      /\ asks = {} => \A r \in Held : Passes(r, ServerFilter(view.filter))
    BY DEF CalmPageIsOfItsFilter
  <2>1. Calm(view, asks)
    BY DEF ListInv, CalmNow
  <2>2. ASSUME NEW r \in Held
        PROVE  r \in Rows /\ \E i \in DOMAIN view.pages : r \in view.pages[i]
    <3>1. PICK i \in DOMAIN view.pages : r \in view.pages[i]
      BY DEF Held
    <3>2. view.pages \in Seq(SUBSET Rows)
      BY DEF ListInv, Views
    <3>3. view.pages[i] \in SUBSET Rows
      BY <3>1, <3>2
    <3> QED BY <3>1, <3>3
  <2>3. asks = {} => \A r \in Held : Passes(r, ServerFilter(view.filter))
    BY <2>1, <2>2 DEF Calm, WalkOf, Walked
  <2> QED BY <2>1, <2>3 DEF Calm
<1> QED BY <1>1, ListInvariant, PTL

----------------------------------------------------------------------------
(* Search                                                                   *)

\* The pages so far go as far as this concept.
Passed(c, v) == v.ways # {} /\ (v.cursor = Absent \/ ~After(10 * corpus[c].rank, c, v.cursor))

InPage(c, these) == \E row \in these : row.id = c

Ones(these) == \A row \in these : row.relevance = 100000

\* A page that another follows, or may, has rows of relevance 1 only.
Blunt(v) == \E i \in DOMAIN v.pages : Ones(v.pages[i]) /\ (v.cursor # Absent \/ i # Len(v.pages))

ShownOnce(c, v) ==
  /\ \A i \in DOMAIN v.pages, j \in DOMAIN v.pages :
        InPage(c, v.pages[i]) /\ InPage(c, v.pages[j]) => i = j
  /\ \A i \in DOMAIN v.pages : InPage(c, v.pages[i]) => Matches(c) /\ Passed(c, v)
  /\ Matches(c) /\ Passed(c, v) /\ (corpus[c].rank < 10000 \/ ~Blunt(v)) =>
        \E i \in DOMAIN v.pages : InPage(c, v.pages[i])

\* A walk by words shows, of the unedited concepts, those it has passed once, unless their
\* rank is 1 or more and a page is blunt, and no other.
WordsWalked(v) ==
  /\ v.cursor \in Places \cup {Absent}
  /\ v.ways = {} => v.cursor = Absent
  /\ v.done => v.ways = {} \/ v.cursor = Absent
  /\ v.ways # {} /\ v.cursor = Absent => v.done
  /\ \A c \in steady : ShownOnce(c, v)

Hits == [id : Found, relevance : Int, ftsFallback : BOOLEAN]

WordsOK == \A v \in {walk} :
  v.ways \subseteq {"words"} => v.pages \in Seq(SUBSET Hits) /\ WordsWalked(v)

FindInv ==
  /\ corpus \in [Found -> [sim : Sims \cup {Absent}, rank : Ranks \cup {Absent}, type : Types]]
  /\ wish.limit \in Nat \ {0}
  /\ steady \subseteq Found
  /\ WordsOK

LEMMA Relevances ==
  ASSUME FindInv, NEW c \in Found, corpus[c].rank # Absent
  PROVE  corpus[c].rank \in Nat /\ 10 * corpus[c].rank \in Int /\ c \in Int
<1>1. corpus[c].rank \in Ranks /\ Found \subseteq Nat
  BY RetrievalAssumption DEF FindInv
<1>2. \A x \in Ranks \ {Absent} : x \in Nat
  BY RetrievalAssumption
<1> DEFINE r == corpus[c].rank
<1>3. r \in Nat
  <2>1. r \in Ranks \ {Absent}
    BY <1>1
  <2> QED BY <1>2, <2>1
<1>4. c \in Nat
  BY <1>1
<1> HIDE DEF r
<1>5. 10 * r \in Int
  BY <1>3
<1> QED BY <1>3, <1>4, <1>5 DEF r

LEMMA BestOrders ==
  ASSUME NEW these, IsFiniteSet(these), \A x \in these : x.id \in Int /\ x.relevance \in Int,
         \A x \in these, y \in these : x.id = y.id => x = y
  PROVE  /\ Orders(ByRelevance(these), these)
         /\ \A x \in these, y \in these : <<x, y>> \in ByRelevance(these) <=> Best(x, y)
<1>1. \A x \in these, y \in these : <<x, y>> \in ByRelevance(these) <=> Best(x, y)
  BY DEF ByRelevance
<1>2. /\ \A x \in these, y \in these : x # y => Best(x, y) \/ Best(y, x)
      /\ \A x \in these : ~Best(x, x)
      /\ \A x \in these, y \in these, z \in these : Best(x, y) /\ Best(y, z) => Best(x, z)
  BY DEF Best
<1> QED BY <1>1, <1>2 DEF Orders

\* What the query finds is what matches after the cursor, up to its own end.
LEMMA WordsPage ==
  ASSUME FindInv, NEW cursor \in Places \cup {Absent}
  PROVE  LET found == Cut(MatchesAfter(wish.filter, cursor), wish.limit)
         IN  /\ found.end \in Places \cup {Absent}
             /\ \A row \in found.rows : row.id \in Found /\ Matches(row.id)
             /\ found.end # Absent => /\ Matches(found.end.id)
                                     /\ found.end.relevance = 10 * corpus[found.end.id].rank
             /\ found.end # Absent /\ cursor # Absent =>
                  After(found.end.relevance, found.end.id, cursor)
             /\ \A c \in Found : InPage(c, found.rows) <=>
                  /\ Matches(c) /\ After(10 * corpus[c].rank, c, cursor)
                  /\ found.end = Absent \/ ~After(10 * corpus[c].rank, c, found.end)
<1> DEFINE left == {d \in Found : /\ corpus[d].rank # Absent /\ Chosen(d, wish.filter)
                                  /\ After(10 * corpus[d].rank, d, cursor)}
           Hit(c) == [id |-> c, relevance |-> 10 * corpus[c].rank]
           hits == {Hit(c) : c \in left}
           n == wish.limit
           order == ByRelevance(hits)
           first == FirstOf(hits, order, n)
           final == LastOf(first, order)
           end == IF Cardinality(hits) > n
                  THEN [relevance |-> final.relevance, id |-> final.id] ELSE Absent
<1>1. Cut(MatchesAfter(wish.filter, cursor), wish.limit) = [rows |-> first, end |-> end]
  BY DEF MatchesAfter, Cut
<1>2. left \subseteq Found /\ IsFiniteSet(left)
  BY RetrievalAssumption, FS_Subset
<1>3. \A c \in left : 10 * corpus[c].rank \in Int /\ c \in Int
  BY Relevances
<1>4. IsFiniteSet(hits)
  <2> DEFINE f == [c \in left |-> Hit(c)]
  <2>1. f \in Surjection(left, hits)
    BY DEF Surjection
  <2> HIDE DEF f, hits, left
  <2> QED BY <1>2, <2>1, FS_Surjection
<1>5. \A x \in hits : /\ x.id \in left /\ x = Hit(x.id) /\ x.relevance = 10 * corpus[x.id].rank
                      /\ x.id \in Int /\ x.relevance \in Int
  BY <1>3
<1>6. \A c \in left : Hit(c) \in hits /\ Hit(c).id = c
  OBVIOUS
<1>7. \A c \in Found : c \in left <=> Matches(c) /\ After(10 * corpus[c].rank, c, cursor)
  BY DEF Matches
<1> HIDE DEF left, Hit, hits
<1>8. /\ Orders(order, hits)
      /\ \A x \in hits, y \in hits : <<x, y>> \in order <=> Best(x, y)
  BY <1>4, <1>5, BestOrders
<1>9. n \in Nat \ {0}
  BY DEF FindInv
<1> HIDE DEF order, n
<1>10. /\ first \subseteq hits
       /\ ~(Cardinality(hits) > n) => first = hits
       /\ Cardinality(hits) > n =>
            final \in hits /\ \A x \in hits : x \in first <=> x = final \/ <<x, final>> \in order
  BY <1>4, <1>8, <1>9, FirstPage
<1> HIDE DEF first, final
<1>11. Cardinality(hits) > n => /\ end = [relevance |-> final.relevance, id |-> final.id]
                               /\ end \in Places /\ end # Absent
  <2>1. Cardinality(hits) > n => final.relevance \in Int /\ final.id \in Found
    BY <1>2, <1>5, <1>10
  <2>2. Cardinality(hits) > n => [relevance |-> final.relevance, id |-> final.id] \in Places
    BY <2>1 DEF Places
  <2> QED BY <2>2, RetrievalAssumption
<1>12. ~(Cardinality(hits) > n) => end = Absent
  OBVIOUS
<1> HIDE DEF end
<1>13. \A row \in first : row.id \in Found /\ Matches(row.id)
  BY <1>2, <1>5, <1>7, <1>10
<1>14. end # Absent /\ cursor # Absent => After(end.relevance, end.id, cursor)
  <2> SUFFICES ASSUME Cardinality(hits) > n PROVE After(end.relevance, end.id, cursor)
    BY <1>12
  <2>1. final.id \in left /\ end.relevance = 10 * corpus[final.id].rank /\ end.id = final.id
    BY <1>5, <1>10, <1>11
  <2> QED BY <1>2, <1>7, <2>1
<1>15. ASSUME NEW c \in left
       PROVE  InPage(c, first) <=> end = Absent \/ ~After(10 * corpus[c].rank, c, end)
  <2>1. InPage(c, first) <=> Hit(c) \in first
    BY <1>5, <1>6, <1>10 DEF InPage
  <2>2. CASE Cardinality(hits) > n
    <3>1. Hit(c) \in hits /\ Hit(c).id = c /\ Hit(c).relevance = 10 * corpus[c].rank
      BY <1>5, <1>6
    <3>2. Hit(c) \in first <=> Hit(c) = final \/ Best(Hit(c), final)
      BY <1>8, <1>10, <2>2, <3>1
    <3>3. Hit(c) = final <=> c = final.id
      BY <1>5, <1>10, <2>2, <3>1
    <3>4. final.id \in Int /\ final.relevance \in Int /\ c \in Int /\ 10 * corpus[c].rank \in Int
          /\ final.relevance = 10 * corpus[final.id].rank
      BY <1>3, <1>5, <1>10, <2>2
    <3>5. After(10 * corpus[c].rank, c, end) <=>
            \/ 10 * corpus[c].rank < final.relevance
            \/ 10 * corpus[c].rank = final.relevance /\ c > final.id
      BY <1>11, <2>2 DEF After
    <3>6. Best(Hit(c), final) <=> \/ 10 * corpus[c].rank > final.relevance
                                  \/ 10 * corpus[c].rank = final.relevance /\ c < final.id
      BY <3>1 DEF Best
    <3>7. c = final.id => 10 * corpus[c].rank = final.relevance
      BY <3>4
    <3>8. Hit(c) \in first <=> ~After(10 * corpus[c].rank, c, end)
      <4> DEFINE x == 10 * corpus[c].rank
                 y == final.relevance
                 z == final.id
      <4>1. x \in Int /\ y \in Int /\ z \in Int /\ c \in Int
        BY <3>4
      <4>2. c = z => x = y
        BY <3>7
      <4>3. Hit(c) \in first <=> c = z \/ x > y \/ (x = y /\ c < z)
        BY <3>2, <3>3, <3>6
      <4>4. After(x, c, end) <=> x < y \/ (x = y /\ c > z)
        BY <3>5
      <4> HIDE DEF x, y, z
      <4>5. (c = z \/ x > y \/ (x = y /\ c < z)) <=> ~(x < y \/ (x = y /\ c > z))
        BY <4>1, <4>2
      <4>6. Hit(c) \in first <=> ~After(x, c, end)
        BY <4>3, <4>4, <4>5
      <4> QED BY <4>6 DEF x
    <3> QED BY <1>11, <2>1, <2>2, <3>8
  <2>3. CASE ~(Cardinality(hits) > n)
    BY <1>6, <1>10, <1>12, <2>1, <2>3
  <2> QED BY <2>2, <2>3
<1>16. \A c \in Found : InPage(c, first) => c \in left
  BY <1>5, <1>10 DEF InPage
<1>17. \A c \in Found : InPage(c, first) <=> /\ Matches(c) /\ After(10 * corpus[c].rank, c, cursor)
                                             /\ end = Absent \/ ~After(10 * corpus[c].rank, c, end)
  BY <1>7, <1>15, <1>16
<1>18. end \in Places \cup {Absent}
  BY <1>11, <1>12
<1>19. end # Absent => Matches(end.id) /\ end.relevance = 10 * corpus[end.id].rank
  <2> SUFFICES ASSUME Cardinality(hits) > n
               PROVE  Matches(end.id) /\ end.relevance = 10 * corpus[end.id].rank
    BY <1>12
  <2>1. final.id \in left /\ end.relevance = 10 * corpus[final.id].rank /\ end.id = final.id
    BY <1>5, <1>10, <1>11
  <2> QED BY <1>2, <1>7, <2>1
<1> QED BY <1>1, <1>13, <1>14, <1>17, <1>18, <1>19

\* The answer has the same rows with clamped ranks, and a clamped end: it says as much
\* of the concepts whose rank is below 1, and of the others unless its rows are all ones.
LEMMA AnsweredPage ==
  ASSUME FindInv, NEW cursor \in Places \cup {Absent}
  PROVE  LET found == FtsSearchConcepts(wish.filter, wish.limit, cursor)
         IN  /\ found.end \in Places \cup {Absent}
             /\ found.rows \subseteq [id : Found, relevance : Int]
             /\ found.end # Absent /\ cursor # Absent =>
                  After(found.end.relevance, found.end.id, cursor)
             /\ \A c \in Found : InPage(c, found.rows) =>
                  /\ Matches(c) /\ After(10 * corpus[c].rank, c, cursor)
                  /\ found.end = Absent \/ ~After(10 * corpus[c].rank, c, found.end)
             /\ \A c \in Found :
                  /\ Matches(c) /\ After(10 * corpus[c].rank, c, cursor)
                  /\ found.end = Absent \/ ~After(10 * corpus[c].rank, c, found.end)
                  /\ corpus[c].rank < 10000 \/ found.end = Absent \/ ~Ones(found.rows)
                  => InPage(c, found.rows)
<1> DEFINE raw == Cut(MatchesAfter(wish.filter, cursor), wish.limit)
           answered == {Clamped(row) : row \in raw.rows}
           end == IF raw.end = Absent THEN Absent ELSE Clamped(raw.end)
           R(c) == 10 * corpus[c].rank
<1>1. FtsSearchConcepts(wish.filter, wish.limit, cursor) = [rows |-> answered, end |-> end]
  BY DEF FtsSearchConcepts
<1>2. /\ raw.end \in Places \cup {Absent}
      /\ \A row \in raw.rows : row.id \in Found /\ Matches(row.id)
      /\ raw.end # Absent => Matches(raw.end.id) /\ raw.end.relevance = R(raw.end.id)
      /\ raw.end # Absent /\ cursor # Absent => After(raw.end.relevance, raw.end.id, cursor)
      /\ \A c \in Found : InPage(c, raw.rows) <=>
           /\ Matches(c) /\ After(R(c), c, cursor)
           /\ raw.end = Absent \/ ~After(R(c), c, raw.end)
  BY WordsPage
<1> HIDE DEF raw
<1>3. ASSUME NEW c \in Found, Matches(c)
      PROVE  /\ corpus[c].rank \in Nat /\ R(c) \in Int /\ c \in Int
             /\ R(c) > 100000 <=> corpus[c].rank > 10000
             /\ R(c) < 100000 <=> corpus[c].rank < 10000
             /\ 10 * ClampRank(corpus[c].rank) = IF R(c) > 100000 THEN 100000 ELSE R(c)
  <2>1. corpus[c].rank \in Nat /\ c \in Int
    BY <1>3, Relevances DEF Matches
  <2> QED BY <2>1 DEF ClampRank
<1>4. \A x \in answered : \E row \in raw.rows :
         x = [id |-> row.id, relevance |-> 10 * ClampRank(corpus[row.id].rank)]
  BY DEF Clamped
<1>5. \A row \in raw.rows : \E x \in answered : x.id = row.id
  <2>1. \A row \in raw.rows : Clamped(row) \in answered /\ Clamped(row).id = row.id
    BY DEF Clamped
  <2> QED BY <2>1
<1>6. answered \subseteq [id : Found, relevance : Int]
  <2> SUFFICES ASSUME NEW x \in answered PROVE x \in [id : Found, relevance : Int]
    OBVIOUS
  <2>1. PICK row \in raw.rows :
          x = [id |-> row.id, relevance |-> 10 * ClampRank(corpus[row.id].rank)]
    BY <1>4
  <2>2. row.id \in Found /\ 10 * ClampRank(corpus[row.id].rank) \in Int
    BY <1>2, <1>3
  <2> QED BY <2>1, <2>2
<1>7. \A c : InPage(c, answered) <=> InPage(c, raw.rows)
  <2>1. ASSUME NEW c, InPage(c, answered) PROVE InPage(c, raw.rows)
    BY <1>4, <2>1 DEF InPage
  <2>2. ASSUME NEW c, InPage(c, raw.rows) PROVE InPage(c, answered)
    BY <1>5, <2>2 DEF InPage
  <2> QED BY <2>1, <2>2
<1> DEFINE e == raw.end.id
<1>8. raw.end # Absent =>
        /\ e \in Found /\ Matches(e) /\ raw.end.relevance = R(e)
        /\ end # Absent /\ end \in Places /\ end.id = e
        /\ end.relevance = IF R(e) > 100000 THEN 100000 ELSE R(e)
  <2> SUFFICES ASSUME raw.end # Absent
               PROVE  /\ e \in Found /\ Matches(e) /\ raw.end.relevance = R(e)
                      /\ end # Absent /\ end \in Places /\ end.id = e
                      /\ end.relevance = IF R(e) > 100000 THEN 100000 ELSE R(e)
    OBVIOUS
  <2>1. e \in Found /\ Matches(e) /\ raw.end.relevance = R(e)
    BY <1>2 DEF Places
  <2>2. end = [id |-> e, relevance |-> 10 * ClampRank(corpus[e].rank)]
    BY DEF Clamped
  <2>3. 10 * ClampRank(corpus[e].rank) = (IF R(e) > 100000 THEN 100000 ELSE R(e))
        /\ 10 * ClampRank(corpus[e].rank) \in Int
    BY <1>3, <2>1
  <2> HIDE DEF end, e, R
  <2>4. end.id = e /\ end.relevance = IF R(e) > 100000 THEN 100000 ELSE R(e)
    BY <2>2, <2>3
  <2>5. end \in Places
    BY <2>1, <2>2, <2>3 DEF Places
  <2>6. end # Absent
    BY <2>5, RetrievalAssumption
  <2> QED BY <2>1, <2>4, <2>5, <2>6
<1>9. raw.end = Absent => end = Absent
  OBVIOUS
<1> HIDE DEF end, answered, e
<1>10. ASSUME NEW c \in Found, Matches(c), raw.end # Absent
       PROVE  /\ After(R(c), c, raw.end) <=> R(c) < R(e) \/ (R(c) = R(e) /\ c > e)
              /\ After(R(c), c, end) <=> R(c) < end.relevance \/ (R(c) = end.relevance /\ c > e)
  BY <1>8, <1>10 DEF After, e
<1>11. ASSUME end # Absent, cursor # Absent PROVE After(end.relevance, end.id, cursor)
  <2>1. raw.end # Absent
    BY <1>9, <1>11
  <2>2. R(e) < cursor.relevance \/ (R(e) = cursor.relevance /\ e > cursor.id)
    BY <1>2, <1>8, <1>11, <2>1 DEF After, e
  <2>3. end.relevance <= R(e) /\ R(e) \in Int /\ end.relevance \in Int /\ cursor.relevance \in Int
    <3>1. R(e) \in Int
      BY <1>3, <1>8, <2>1
    <3>2. cursor.relevance \in Int
      BY <1>11 DEF Places
    <3> HIDE DEF R
    <3> QED BY <1>8, <2>1, <3>1, <3>2
  <2>4. end.relevance < cursor.relevance \/ (end.relevance = cursor.relevance /\ e > cursor.id)
    <3> HIDE DEF R
    <3> QED BY <2>2, <2>3
  <2> QED BY <1>8, <1>11, <2>1, <2>4 DEF After
<1>12. ASSUME NEW c \in Found, InPage(c, answered)
       PROVE  /\ Matches(c) /\ After(R(c), c, cursor)
              /\ end = Absent \/ ~After(R(c), c, end)
  <2>1. Matches(c) /\ After(R(c), c, cursor) /\ (raw.end = Absent \/ ~After(R(c), c, raw.end))
    BY <1>2, <1>7, <1>12
  <2>2. ASSUME raw.end # Absent PROVE ~After(R(c), c, end)
    <3>1. R(c) \in Int /\ R(e) \in Int /\ c \in Int /\ e \in Int
      BY <1>3, <1>8, <2>1, <2>2
    <3>2. ~(R(c) < R(e) \/ (R(c) = R(e) /\ c > e))
      BY <1>10, <2>1, <2>2
    <3>3. end.relevance = IF R(e) > 100000 THEN 100000 ELSE R(e)
      BY <1>8, <2>2
    <3>4. After(R(c), c, end) <=> R(c) < end.relevance \/ (R(c) = end.relevance /\ c > e)
      BY <1>10, <2>1, <2>2
    <3> HIDE DEF R
    <3> QED BY <3>1, <3>2, <3>3, <3>4
  <2> QED BY <1>9, <2>1, <2>2
<1>13. ASSUME NEW c \in Found, Matches(c), After(R(c), c, cursor),
              end = Absent \/ ~After(R(c), c, end),
              corpus[c].rank < 10000 \/ end = Absent \/ ~Ones(answered)
       PROVE  InPage(c, answered)
  <2>1. CASE raw.end = Absent
    BY <1>2, <1>7, <1>13, <2>1
  <2>2. CASE raw.end # Absent
    <3>1. R(c) \in Int /\ R(e) \in Int /\ c \in Int /\ e \in Int
          /\ (R(c) < 100000 <=> corpus[c].rank < 10000)
      BY <1>3, <1>8, <1>13, <2>2
    <3>2. end # Absent /\ end.relevance = IF R(e) > 100000 THEN 100000 ELSE R(e)
      BY <1>8, <2>2
    <3>3. /\ After(R(c), c, raw.end) <=> R(c) < R(e) \/ (R(c) = R(e) /\ c > e)
          /\ After(R(c), c, end) <=> R(c) < end.relevance \/ (R(c) = end.relevance /\ c > e)
      BY <1>10, <1>13, <2>2
    <3>4. ~(R(e) > 100000)
      <4> SUFFICES ASSUME R(e) > 100000 PROVE FALSE
        OBVIOUS
      <4>1. ~(R(c) < 100000)
        BY <1>13, <3>2, <3>3
      <4>2. PICK x \in answered : x.relevance # 100000
        BY <1>13, <3>1, <3>2, <4>1 DEF Ones
      <4>3. PICK row \in raw.rows :
              x = [id |-> row.id, relevance |-> 10 * ClampRank(corpus[row.id].rank)]
        BY <1>4 DEF answered
      <4> DEFINE d == row.id
      <4>4. d \in Found /\ Matches(d) /\ InPage(d, raw.rows)
        BY <1>2 DEF InPage
      <4>5. R(d) \in Int /\ 10 * ClampRank(corpus[d].rank) = IF R(d) > 100000 THEN 100000 ELSE R(d)
        BY <1>3, <4>4
      <4>6. ~(R(d) < R(e))
        BY <1>2, <1>10, <2>2, <4>4
      <4>7. x.relevance = 10 * ClampRank(corpus[d].rank)
        BY <4>3
      <4> HIDE DEF R, d
      <4> QED BY <3>1, <4>2, <4>5, <4>6, <4>7
    <3>5. ~After(R(c), c, raw.end)
      <4> HIDE DEF R
      <4> QED BY <1>13, <3>2, <3>3, <3>4
    <3> QED BY <1>2, <1>7, <1>13, <3>5
  <2> QED BY <2>1, <2>2
<1>14. end \in Places \cup {Absent}
  BY <1>8, <1>9
<1> QED BY <1>1, <1>6, <1>11, <1>12, <1>13, <1>14

LEMMA AppendOnce ==
  ASSUME NEW S, NEW s \in Seq(S), NEW x \in S
  PROVE  /\ Append(s, x) \in Seq(S) /\ Len(s) \in Nat
         /\ DOMAIN s = 1 .. Len(s) /\ DOMAIN Append(s, x) = 1 .. Len(s) + 1
         /\ \A i \in 1 .. Len(s) : Append(s, x)[i] = s[i]
         /\ Append(s, x)[Len(s) + 1] = x
OBVIOUS

\* Where the cursor moves on, what it had passed stays passed.
LEMMA StillPassed ==
  ASSUME NEW old \in Places, NEW new \in Places, After(new.relevance, new.id, old),
         NEW r \in Int, NEW c \in Found, ~After(r, c, old)
  PROVE  ~After(r, c, new)
<1>1. Found \subseteq Nat /\ old # Absent /\ new # Absent
  BY RetrievalAssumption
<1>2. /\ old.relevance \in Int /\ new.relevance \in Int /\ old.id \in Nat /\ new.id \in Nat /\ c \in Nat
  BY <1>1 DEF Places
<1> DEFINE a == old.relevance
           b == new.relevance
           i == old.id
           j == new.id
<1>3. b < a \/ (b = a /\ j > i)
  BY <1>1 DEF After
<1>4. ~(r < a \/ (r = a /\ c > i))
  BY <1>1 DEF After
<1>5. After(r, c, new) <=> r < b \/ (r = b /\ c > j)
  BY <1>1 DEF After
<1> HIDE DEF a, b, i, j
<1>6. a \in Int /\ b \in Int /\ i \in Int /\ j \in Int /\ c \in Int
  BY <1>2 DEF a, b, i, j
<1> QED BY <1>3, <1>4, <1>5, <1>6

\* The next page of a walk by words.
LEMMA WordsGoOn ==
  ASSUME FindInv, ~walk.done, walk.ways \subseteq {"words"},
         NEW found, found = FtsSearchConcepts(wish.filter, wish.limit, walk.cursor),
         NEW these \in SUBSET Hits, \A c \in Found : InPage(c, these) <=> InPage(c, found.rows),
         Ones(found.rows) => Ones(these),
         NEW v, v.pages = Append(walk.pages, these), v.cursor = found.end,
         v.done = (found.end = Absent), v.ways = {"words"}
  PROVE  v.pages \in Seq(SUBSET Hits) /\ WordsWalked(v)
<1> DEFINE cursor == walk.cursor
           n == Len(walk.pages)
           end == found.end
<1>1. walk.pages \in Seq(SUBSET Hits) /\ WordsWalked(walk)
  BY DEF FindInv, WordsOK
<1>2. cursor \in Places \cup {Absent} /\ (walk.ways = {} => cursor = Absent)
      /\ (walk.ways # {} => cursor # Absent)
  BY <1>1 DEF WordsWalked
<1>3. /\ end \in Places \cup {Absent}
      /\ end # Absent /\ cursor # Absent => After(end.relevance, end.id, cursor)
      /\ \A c \in Found : InPage(c, these) =>
           /\ Matches(c) /\ After(10 * corpus[c].rank, c, cursor)
           /\ end = Absent \/ ~After(10 * corpus[c].rank, c, end)
      /\ \A c \in Found :
           /\ Matches(c) /\ After(10 * corpus[c].rank, c, cursor)
           /\ end = Absent \/ ~After(10 * corpus[c].rank, c, end)
           /\ corpus[c].rank < 10000 \/ end = Absent \/ ~Ones(these)
           => InPage(c, these)
  <2> HIDE DEF cursor
  <2>1. cursor \in Places \cup {Absent} /\ found = FtsSearchConcepts(wish.filter, wish.limit, cursor)
    BY <1>2 DEF cursor
  <2> QED BY <2>1, AnsweredPage
<1>4. /\ v.pages \in Seq(SUBSET Hits) /\ n \in Nat
      /\ DOMAIN walk.pages = 1 .. n /\ DOMAIN v.pages = 1 .. n + 1
      /\ \A i \in 1 .. n : v.pages[i] = walk.pages[i]
      /\ v.pages[n + 1] = these
  BY <1>1, AppendOnce
<1>5. /\ \A i \in 1 .. n + 1 : i \in 1 .. n \/ i = n + 1
      /\ \A i \in 1 .. n : i \in 1 .. n + 1 /\ i # n + 1
      /\ n + 1 \in 1 .. n + 1 /\ Len(v.pages) = n + 1
  BY <1>1, <1>4
<1>6. (Blunt(walk) => Blunt(v)) /\ (end # Absent /\ Ones(these) => Blunt(v))
  <2>1. ASSUME Blunt(walk) PROVE Blunt(v)
    <3>1. PICK i \in 1 .. n : Ones(walk.pages[i])
      BY <1>4, <2>1 DEF Blunt
    <3>2. i \in DOMAIN v.pages /\ Ones(v.pages[i]) /\ i # Len(v.pages)
      BY <1>4, <1>5, <3>1
    <3> QED BY <3>2 DEF Blunt
  <2>2. ASSUME end # Absent, Ones(these) PROVE Blunt(v)
    <3>1. n + 1 \in DOMAIN v.pages /\ Ones(v.pages[n + 1]) /\ v.cursor # Absent
      BY <1>4, <1>5, <2>2
    <3> QED BY <3>1 DEF Blunt
  <2> QED BY <2>1, <2>2
<1>7. ASSUME NEW c \in steady PROVE ShownOnce(c, v)
  <2> DEFINE sharp == corpus[c].rank < 10000
  <2>1. c \in Found
    BY DEF FindInv
  <2>2. /\ \A i \in 1 .. n, j \in 1 .. n :
             InPage(c, walk.pages[i]) /\ InPage(c, walk.pages[j]) => i = j
        /\ \A i \in 1 .. n : InPage(c, walk.pages[i]) => Matches(c) /\ Passed(c, walk)
        /\ Matches(c) /\ Passed(c, walk) /\ (sharp \/ ~Blunt(walk)) =>
             \E i \in 1 .. n : InPage(c, walk.pages[i])
    BY <1>1, <1>4 DEF WordsWalked, ShownOnce
  <2>3. Passed(c, v) <=> end = Absent \/ ~After(10 * corpus[c].rank, c, end)
    BY DEF Passed
  <2>4. Passed(c, walk) <=> ~After(10 * corpus[c].rank, c, cursor)
    BY <1>2 DEF Passed, After
  <2>5. InPage(c, these) => Matches(c) /\ ~Passed(c, walk) /\ Passed(c, v)
    BY <1>3, <2>1, <2>3, <2>4
  <2>6. Matches(c) /\ ~Passed(c, walk) /\ Passed(c, v) /\ (sharp \/ ~Blunt(v)) => InPage(c, these)
    BY <1>3, <1>6, <2>1, <2>3, <2>4
  <2>7. Matches(c) /\ Passed(c, walk) => Passed(c, v)
    <3> SUFFICES ASSUME Matches(c), Passed(c, walk), end # Absent PROVE Passed(c, v)
      BY <2>3
    <3>1. 10 * corpus[c].rank \in Int
      BY <2>1, Relevances DEF Matches
    <3>2. ~After(10 * corpus[c].rank, c, cursor) /\ cursor # Absent /\ cursor \in Places
      BY <1>2, <2>4 DEF After
    <3>3. ~After(10 * corpus[c].rank, c, end)
      BY <1>3, <2>1, <3>1, <3>2, StillPassed
    <3> QED BY <2>3, <3>3
  <2> HIDE DEF sharp
  <2>8. \A i \in 1 .. n + 1 : InPage(c, v.pages[i]) =>
          \/ i \in 1 .. n /\ InPage(c, walk.pages[i])
          \/ i = n + 1 /\ InPage(c, these)
    BY <1>4, <1>5
  <2>9. ASSUME NEW i \in 1 .. n + 1, NEW j \in 1 .. n + 1, InPage(c, v.pages[i]), InPage(c, v.pages[j])
        PROVE  i = j
    BY <2>2, <2>5, <2>8, <2>9
  <2>10. \A i \in 1 .. n + 1 : InPage(c, v.pages[i]) => Matches(c) /\ Passed(c, v)
    BY <2>2, <2>5, <2>7, <2>8
  <2>11. ASSUME Matches(c), Passed(c, v), sharp \/ ~Blunt(v)
         PROVE  \E i \in 1 .. n + 1 : InPage(c, v.pages[i])
    <3>1. CASE Passed(c, walk)
      <4>1. PICK i \in 1 .. n : InPage(c, walk.pages[i])
        BY <1>6, <2>2, <2>11, <3>1
      <4>2. i \in 1 .. n + 1 /\ InPage(c, v.pages[i])
        BY <1>4, <1>5, <4>1
      <4> QED BY <4>2
    <3>2. CASE ~Passed(c, walk)
      <4>1. InPage(c, v.pages[n + 1])
        BY <1>4, <2>6, <2>11, <3>2
      <4> QED BY <1>5, <4>1
    <3> QED BY <3>1, <3>2
  <2> QED BY <1>4, <2>9, <2>10, <2>11 DEF ShownOnce, sharp
<1>8. WordsWalked(v)
  <2>1. v.cursor \in Places \cup {Absent}
    BY <1>3
  <2>2. v.ways # {} /\ (v.done <=> v.cursor = Absent)
    OBVIOUS
  <2> QED BY <1>7, <2>1, <2>2 DEF WordsWalked
<1> QED BY <1>4, <1>8

\* What a walk holds, and the concepts left alone, stay as they are.
LEMMA WordsStay ==
  ASSUME FindInv, UNCHANGED <<wish, walk>>, steady' \subseteq steady,
         \A c \in steady' : corpus'[c] = corpus[c]
  PROVE  WordsOK'
<1>1. \A c \in steady' : /\ Matches(c)' <=> Matches(c)
                         /\ \A v \in {walk} : Passed(c, v)' <=> Passed(c, v)
  BY DEF Matches, Passed, Chosen, After
<1>2. \A v \in {walk} : WordsWalked(v) => WordsWalked(v)'
  BY <1>1 DEF WordsWalked, ShownOnce
<1> QED BY <1>2 DEF FindInv, WordsOK

LEMMA WalkMoves ==
  ASSUME UNCHANGED <<corpus, wish, steady>>, NEW v, walk' = v,
         v.ways \subseteq {"words"} => v.pages \in Seq(SUBSET Hits) /\ WordsWalked(v)
  PROVE  WordsOK'
<1>1. WordsWalked(v)' <=> WordsWalked(v)
  <2>1. \A c : /\ Matches(c)' <=> Matches(c)
               /\ Passed(c, v)' <=> Passed(c, v)
    BY DEF Matches, Passed, Chosen, After
  <2> QED BY <2>1 DEF WordsWalked, ShownOnce
<1> QED BY <1>1 DEF WordsOK

LEMMA SearchKeepsWalks ==
  ASSUME FindInv, NEW e \in BOOLEAN, NEW x \in BOOLEAN, NEW w \in BOOLEAN, Search(e, x, w)
  PROVE  FindInv'
<1> DEFINE answer == HybridSearch(e, walk.cursor, x, w)
           way == IF wired /\ e THEN "fused" ELSE "words"
           ways == walk.ways \cup {IF x \/ w THEN "poor" ELSE way}
           v == [pages |-> Append(walk.pages, answer.rows), cursor |-> answer.end,
                 done |-> answer.end = Absent, last |-> answer, ways |-> ways]
<1>1. /\ ~walk.done /\ (x => wired /\ e) /\ UNCHANGED <<corpus, wish, steady>>
      /\ walk' = IF answer.error # Absent THEN walk ELSE v
  BY DEF Search
<1>2. ASSUME ways \subseteq {"words"}
      PROVE  v.pages \in Seq(SUBSET Hits) /\ WordsWalked(v)
  <2>1. ~x /\ ~w /\ ~(wired /\ e) /\ walk.ways \subseteq {"words"} /\ ways = {"words"}
    BY <1>2
  <2> DEFINE found == FtsSearchConcepts(wish.filter, wish.limit, walk.cursor)
  <2>2. answer = [error |-> Absent, rows |-> {FromWords(row) : row \in found.rows},
                  degraded |-> TRUE, end |-> found.end]
    BY <2>1 DEF HybridSearch, FallBack
  <2>3. found.rows \subseteq [id : Found, relevance : Int]
    <3>1. walk.cursor \in Places \cup {Absent}
      BY <2>1 DEF FindInv, WordsOK, WordsWalked
    <3> QED BY <3>1, AnsweredPage
  <2> HIDE DEF found
  <2> DEFINE these == {FromWords(row) : row \in found.rows}
  <2>4. these \in SUBSET Hits /\ \A c \in Found : InPage(c, these) <=> InPage(c, found.rows)
    <3>1. \A row \in found.rows : /\ row.id \in Found /\ row.relevance \in Int
                                  /\ FromWords(row) \in Hits /\ FromWords(row).id = row.id
      BY <2>3 DEF FromWords, Hits
    <3> QED BY <3>1 DEF InPage
  <2>7. Ones(found.rows) => Ones(these)
    BY DEF Ones, FromWords
  <2>5. /\ v.pages = Append(walk.pages, these) /\ v.cursor = found.end
        /\ v.done = (found.end = Absent) /\ v.ways = {"words"}
    BY <2>1, <2>2
  <2>6. found = FtsSearchConcepts(wish.filter, wish.limit, walk.cursor)
    BY DEF found
  <2> HIDE DEF these, v
  <2> QED BY <1>1, <2>1, <2>4, <2>5, <2>6, <2>7, WordsGoOn
<1>3. v.ways = ways
  OBVIOUS
<1> HIDE DEF v, ways
<1>4. WordsOK'
  <2>1. CASE walk' = walk
    BY <1>1, <2>1, WordsStay
  <2>2. CASE walk' = v
    BY <1>1, <1>2, <1>3, <2>2, WalkMoves
  <2> QED BY <1>1, <2>1, <2>2
<1> QED BY <1>1, <1>4 DEF FindInv

LEMMA EditKeepsWalks ==
  ASSUME FindInv, NEW c \in Found, Edit(c)
  PROVE  FindInv'
<1>1. /\ UNCHANGED <<wish, walk>> /\ steady' = steady \ {c}
      /\ \E to \in [sim : {corpus[c].sim}, rank : Ranks, type : Types] :
            corpus' = [corpus EXCEPT ![c] = to]
  BY DEF Edit
<1>2. PICK to \in [sim : {corpus[c].sim}, rank : Ranks, type : Types] :
        corpus' = [corpus EXCEPT ![c] = to]
  BY <1>1
<1> DEFINE Entries == [sim : Sims \cup {Absent}, rank : Ranks \cup {Absent}, type : Types]
<1>3. corpus \in [Found -> Entries] /\ steady \subseteq Found
  BY DEF FindInv
<1>4. to \in Entries
  <2>1. corpus[c] \in Entries
    BY <1>3
  <2> QED BY <2>1
<1> HIDE DEF Entries
<1>5. corpus' \in [Found -> Entries] /\ \A d \in Found \ {c} : corpus'[d] = corpus[d]
  BY <1>2, <1>3, <1>4
<1>6. WordsOK'
  BY <1>1, <1>3, <1>5, WordsStay
<1> QED BY <1>1, <1>3, <1>5, <1>6 DEF FindInv, Entries

LEMMA WalksStart == FindInit => FindInv
<1> SUFFICES ASSUME FindInit PROVE FindInv
  OBVIOUS
<1> DEFINE Entries == [sim : Sims \cup {Absent}, rank : Ranks \cup {Absent}, type : Types]
<1>1. corpus \in [Found -> Entries]
  <2>1. CASE SearchInit
    <3>1. corpus \in [Found -> [sim : Sims, rank : Ranks, type : Types]]
      BY <2>1 DEF SearchInit
    <3>2. \A x \in [sim : Sims, rank : Ranks, type : Types] : x \in Entries
      OBVIOUS
    <3> HIDE DEF Entries
    <3> QED BY <3>1, <3>2
  <2>2. CASE corpus = [c \in Found |-> [sim |-> Absent, rank |-> Absent, type |-> "one"]]
    BY <2>2 DEF Types
  <2> QED BY <2>1, <2>2 DEF FindInit
<1>2. wish.limit \in Nat \ {0}
  <2>1. Limits \subseteq Nat \ {0} /\ 1 \in Nat \ {0}
    BY RetrievalAssumption
  <2>2. CASE SearchInit
    <3>1. wish.limit \in Limits
      BY <2>2 DEF SearchInit
    <3> QED BY <2>1, <3>1
  <2>3. CASE wish = [filter |-> "any", limit |-> 1]
    BY <2>1, <2>3
  <2> QED BY <2>2, <2>3 DEF FindInit
<1>3. walk.ways = {} /\ walk.pages = << >> /\ walk.cursor = Absent /\ steady \subseteq Found
  <2>1. walk = NoWalk \/ walk = [NoWalk EXCEPT !.done = TRUE]
    BY DEF FindInit, SearchInit
  <2>2. steady = Found
    BY DEF FindInit, SearchInit
  <2> QED BY <2>1, <2>2 DEF NoWalk
<1>4. walk.pages \in Seq(SUBSET Hits)
  <2>1. << >> \in Seq(SUBSET Hits)
    OBVIOUS
  <2> QED BY <1>3, <2>1
<1>5. WordsWalked(walk)
  BY <1>3 DEF WordsWalked, ShownOnce, Passed
<1> QED BY <1>1, <1>2, <1>3, <1>4, <1>5 DEF FindInv, WordsOK

\* The searches keep FindInv: a walk by words has shown the concepts before its cursor
\* that were left alone.
THEOREM FindInvariant == FindSpec => []FindInv
<1>1. FindInv /\ [FindNext]_findVars => FindInv'
  <2> SUFFICES ASSUME FindInv, [FindNext]_findVars PROVE FindInv'
    OBVIOUS
  <2>1. CASE UNCHANGED <<corpus, wish, walk, steady>>
    BY <2>1, WordsStay DEF FindInv
  <2>2. CASE \E e, x, w \in BOOLEAN : Search(e, x, w)
    BY <2>2, SearchKeepsWalks
  <2>3. CASE \E c \in Found : Edit(c)
    BY <2>3, EditKeepsWalks
  <2> QED BY <2>1, <2>2, <2>3 DEF FindNext, SearchNext, GetContext, ContextPreview, findVars
<1> QED BY <1>1, WalksStart, PTL DEF FindSpec

\* A walk that the words alone decided shows, at its last page, no unedited concept twice
\* and none that does not match, and every one that does if its rank is below 1 or no page
\* before the last was all of relevance 1 (ftsSearchConcepts with the cursor of search).
THEOREM KeywordWalksAreExact == FindSpec => []KeywordWalkIsExact
<1>1. FindInv => KeywordWalkIsExact
  <2> SUFFICES ASSUME FindInv, walk.done, walk.ways = {"words"}, NEW c \in steady
               PROVE  /\ Shows(c) <= 1
                      /\ Shows(c) = 1 => Matches(c)
                      /\ Matches(c) /\ (corpus[c].rank < 10000 \/ ~Topped) => Shows(c) = 1
    BY DEF KeywordWalkIsExact
  <2>1. walk.pages \in Seq(SUBSET Hits) /\ WordsWalked(walk)
    BY DEF FindInv, WordsOK
  <2>2. walk.cursor = Absent /\ Passed(c, walk) /\ ShownOnce(c, walk)
    BY <2>1 DEF WordsWalked, Passed
  <2>3. Blunt(walk) => Topped
    <3>1. Len(walk.pages) \in Nat /\ DOMAIN walk.pages = 1 .. Len(walk.pages)
      BY <2>1
    <3>2. ASSUME NEW i \in 1 .. Len(walk.pages), i # Len(walk.pages)
          PROVE  i \in 1 .. (Len(walk.pages) - 1)
      BY <3>1, <3>2
    <3> QED BY <2>2, <3>1, <3>2 DEF Blunt, Topped, Ones
  <2> DEFINE places == {i \in DOMAIN walk.pages : InPage(c, walk.pages[i])}
  <2>4. Shows(c) = Cardinality(places)
    BY DEF Shows, InPage
  <2>5. CASE \E i \in DOMAIN walk.pages : InPage(c, walk.pages[i])
    <3>1. PICK i \in DOMAIN walk.pages : InPage(c, walk.pages[i])
      BY <2>5
    <3>2. places = {i} /\ Matches(c)
      BY <2>2, <3>1 DEF ShownOnce
    <3> HIDE DEF places
    <3>3. Shows(c) = 1
      BY <2>4, <3>2, FS_Singleton
    <3> QED BY <3>2, <3>3
  <2>6. CASE ~\E i \in DOMAIN walk.pages : InPage(c, walk.pages[i])
    <3>1. places = {} /\ ~(Matches(c) /\ (corpus[c].rank < 10000 \/ ~Topped))
      BY <2>2, <2>3, <2>6 DEF ShownOnce
    <3> HIDE DEF places
    <3>2. Shows(c) = 0
      BY <2>4, <3>1, FS_EmptySet
    <3> QED BY <3>1, <3>2
  <2> QED BY <2>5, <2>6
<1> QED BY <1>1, FindInvariant, PTL

\* A batch holds what scores higher than anything it holds.
LEMMA BatchIsUpward ==
  ASSUME NEW good \in SUBSET Found, NEW score \in [good -> Int], NEW n \in Nat,
         NEW hits, \A x \in hits : x.id \in good /\ x = [id |-> x.id, relevance |-> score[x.id]],
         \A c \in good : [id |-> c, relevance |-> score[c]] \in hits,
         NEW batch, batch = Cut(hits, n).rows
  PROVE  /\ \A row \in batch : row.id \in good
         /\ \A row \in batch, c \in good : score[c] > score[row.id] =>
              \E other \in batch : other.id = c
<1> DEFINE Hit(c) == [id |-> c, relevance |-> score[c]]
           order == ByRelevance(hits)
<1>1. batch = FirstOf(hits, order, n)
  BY DEF Cut
<1>2. IsFiniteSet(good) /\ good \subseteq Nat
  <2>1. IsFiniteSet(Found) /\ Found \subseteq Nat
    BY RetrievalAssumption
  <2> QED BY <2>1, FS_Subset
<1>3. IsFiniteSet(hits)
  <2> DEFINE f == [c \in good |-> Hit(c)]
  <2>1. f \in Surjection(good, hits)
    BY DEF Surjection
  <2> HIDE DEF f
  <2> QED BY <1>2, <2>1, FS_Surjection
<1>4. \A x \in hits : /\ x.id \in good /\ x.relevance = score[x.id] /\ x = Hit(x.id)
                      /\ x.id \in Int /\ x.relevance \in Int
  BY <1>2
<1>5. \A c \in good : Hit(c) \in hits /\ Hit(c).id = c /\ Hit(c).relevance = score[c]
  OBVIOUS
<1> HIDE DEF Hit
<1>6. /\ Orders(order, hits)
      /\ \A x \in hits, y \in hits : <<x, y>> \in order <=> Best(x, y)
  BY <1>3, <1>4, BestOrders
<1>7. ASSUME NEW x \in batch, NEW y \in hits, <<y, x>> \in order PROVE y \in batch
  <2> HIDE DEF order
  <2>1. x \in hits /\ Cardinality(Ahead(hits, order, x)) < n
    BY <1>1 DEF FirstOf
  <2>2. /\ Cardinality(Ahead(hits, order, y)) < Cardinality(Ahead(hits, order, x))
        /\ Cardinality(Ahead(hits, order, y)) \in Int /\ Cardinality(Ahead(hits, order, x)) \in Int
    BY <1>3, <1>6, <1>7, <2>1, RanksTell
  <2>3. Cardinality(Ahead(hits, order, y)) < n
    BY <2>1, <2>2
  <2> QED BY <1>1, <2>3 DEF FirstOf
<1>8. batch \subseteq hits
  BY <1>1 DEF FirstOf
<1> HIDE DEF order
<1>9. ASSUME NEW row \in batch, NEW c \in good, score[c] > score[row.id]
      PROVE  Hit(c) \in batch
  <2>1. Best(Hit(c), row)
    BY <1>4, <1>5, <1>8, <1>9 DEF Best
  <2> QED BY <1>5, <1>6, <1>7, <1>8, <2>1
<1> QED BY <1>4, <1>5, <1>8, <1>9

LEMMA RoundKeepsOrder ==
  ASSUME NEW a \in Int, NEW b \in Int, a >= b PROVE Round(a) >= Round(b)
<1>1. (a + 50) \div 100 \in Int /\ (b + 50) \div 100 \in Int
  OBVIOUS
<1>2. (a + 50) \div 100 >= (b + 50) \div 100
  OBVIOUS
<1> QED BY <1>1, <1>2 DEF Round

LEMMA ScoreKeepsOrder ==
  ASSUME NEW s, NEW t, s = Absent \/ s \in Int, t = Absent \/ t \in Int, Above(s, t),
         NEW q, NEW r, q = Absent \/ q \in Nat, r = Absent \/ r \in Nat, Above(q, r)
  PROVE  /\ CombinedScore(s, q) >= CombinedScore(t, r)
         /\ CombinedScore(s, q) \in Int /\ CombinedScore(t, r) \in Int
<1> DEFINE Near(x) == IF x = Absent THEN 0 ELSE 7 * ClampSimilarity(x)
           Said(x) == IF x = Absent THEN 0 ELSE 3 * ClampRank(x)
<1>1. Near(s) \in Int /\ Near(t) \in Int /\ Near(s) >= Near(t)
  BY DEF ClampSimilarity, Above
<1>2. Said(q) \in Int /\ Said(r) \in Int /\ Said(q) >= Said(r)
  BY DEF ClampRank, Above
<1>3. CombinedScore(s, q) = Near(s) + Said(q) /\ CombinedScore(t, r) = Near(t) + Said(r)
  BY DEF CombinedScore
<1> HIDE DEF Near, Said
<1> QED BY <1>1, <1>2, <1>3

\* A page is ordered as what a row says of its concept is.
OrderlyPage(these) ==
  \A x \in these, y \in these :
     Above(corpus[x.id].sim, corpus[y.id].sim) /\ Above(corpus[x.id].rank, corpus[y.id].rank) =>
         x.relevance >= y.relevance

LEMMA CorpusKnown ==
  ASSUME FindInv, NEW c \in Found
  PROVE  /\ corpus[c].sim = Absent \/ corpus[c].sim \in Int
         /\ corpus[c].rank = Absent \/ corpus[c].rank \in Nat
<1> DEFINE s == corpus[c].sim
           r == corpus[c].rank
<1>1. s \in Sims \cup {Absent} /\ r \in Ranks \cup {Absent}
  BY DEF FindInv
<1> HIDE DEF s, r
<1>2. s = Absent \/ s \in Sims \ {Absent}
  BY <1>1
<1>3. r = Absent \/ r \in Ranks \ {Absent}
  BY <1>1
<1>4. (\A x \in Sims \ {Absent} : x \in Int) /\ \A x \in Ranks \ {Absent} : x \in Nat
  BY RetrievalAssumption
<1> QED BY <1>2, <1>3, <1>4 DEF s, r

LEMMA WordsAreOrderly ==
  ASSUME FindInv, NEW cursor, NEW wordsFail
  PROVE  OrderlyPage(FallBack(cursor, wordsFail).rows)
<1> DEFINE hits == MatchesAfter(wish.filter, cursor)
           raw == Cut(hits, wish.limit)
           found == FtsSearchConcepts(wish.filter, wish.limit, cursor)
<1>1. raw.rows \subseteq hits /\ found.rows = {Clamped(row) : row \in raw.rows}
  BY DEF FtsSearchConcepts, Cut, FirstOf
<1>2. \A x \in hits : x.id \in Found /\ corpus[x.id].rank # Absent
  BY DEF MatchesAfter
<1> HIDE DEF hits, raw
<1>3. \A x \in FallBack(cursor, wordsFail).rows : \E row \in found.rows : x = FromWords(row)
  BY DEF FallBack
<1> HIDE DEF found
<1>4. ASSUME NEW x \in FallBack(cursor, wordsFail).rows
      PROVE  /\ x.id \in Found /\ corpus[x.id].rank # Absent
             /\ x.relevance = 10 * ClampRank(corpus[x.id].rank)
  <2>1. PICK row \in raw.rows : x = FromWords(Clamped(row))
    BY <1>1, <1>3
  <2>2. x.id = row.id /\ x.relevance = 10 * ClampRank(corpus[row.id].rank)
    BY <2>1 DEF FromWords, Clamped
  <2> QED BY <1>1, <1>2, <2>2
<1>5. ASSUME NEW x \in FallBack(cursor, wordsFail).rows, NEW y \in FallBack(cursor, wordsFail).rows,
             Above(corpus[x.id].rank, corpus[y.id].rank)
      PROVE  x.relevance >= y.relevance
  <2> DEFINE q == corpus[x.id].rank
             r == corpus[y.id].rank
  <2>1. q # Absent /\ r # Absent /\ q \in Nat /\ r \in Nat
    BY <1>4, CorpusKnown
  <2>2. x.relevance = 10 * ClampRank(q) /\ y.relevance = 10 * ClampRank(r)
    BY <1>4
  <2>3. Above(q, r)
    BY <1>5
  <2> HIDE DEF q, r
  <2> QED BY <2>1, <2>2, <2>3 DEF Above, ClampRank
<1> QED BY <1>5 DEF OrderlyPage

LEMMA FusedIsOrderly ==
  ASSUME FindInv, wish.filter = "any", NEW cursor,
         NEW vectorFails \in BOOLEAN, NEW wordsFail \in BOOLEAN
  PROVE  OrderlyPage(Fuse(cursor, vectorFails, wordsFail).rows)
<1> DEFINE batch == IF wish.limit * MULTIPLIER < MAX_BATCH THEN wish.limit * MULTIPLIER ELSE MAX_BATCH
           near == IF vectorFails THEN {} ELSE FindSimilarConcepts(batch)
           words == IF wordsFail THEN {} ELSE FtsSearchConcepts(wish.filter, batch, Absent).rows
           isNear == {row.id : row \in near}
           isSaid == {row.id : row \in words}
           Score(c) == CombinedScore(IF c \in isNear THEN corpus[c].sim ELSE Absent,
                                     IF c \in isSaid THEN corpus[c].rank ELSE Absent)
           scored == {[id |-> c, relevance |-> Score(c), ftsFallback |-> c \notin isNear] :
                         c \in isNear \cup isSaid}
           fused == Cut({row \in scored : After(row.relevance, row.id, cursor)}, wish.limit)
<1>1. batch \in Nat
  <2>1. wish.limit \in Nat
    BY DEF FindInv
  <2>2. MULTIPLIER \in Nat /\ MAX_BATCH \in Nat
    BY RetrievalAssumption
  <2>3. wish.limit * MULTIPLIER \in Nat
    <3>1. \A a, b \in Nat : a * b \in Nat
      OBVIOUS
    <3> QED BY <2>1, <2>2, <3>1
  <2> QED BY <2>2, <2>3
<1>2. Fuse(cursor, vectorFails, wordsFail).rows =
          {[row EXCEPT !.relevance = Round(@)] : row \in fused.rows}
  BY DEF Fuse
<1> HIDE DEF batch
<1>3. /\ isNear \subseteq Found
      /\ \A c \in isNear : corpus[c].sim # Absent
      /\ \A d \in isNear, c \in Found :
            corpus[c].sim # Absent /\ corpus[c].sim > corpus[d].sim => c \in isNear
  <2> DEFINE good == {d \in Found : corpus[d].sim # Absent}
             score == [c \in good |-> corpus[c].sim]
  <2>1. CASE vectorFails \/ batch > MAX_NEIGHBOURS
    BY <2>1 DEF FindSimilarConcepts
  <2>2. CASE ~vectorFails /\ ~(batch > MAX_NEIGHBOURS)
    <3>1. good \in SUBSET Found /\ score \in [good -> Int]
      BY CorpusKnown
    <3> DEFINE hits == {[id |-> c, relevance |-> corpus[c].sim] : c \in good}
    <3>2. /\ \A x \in hits : x.id \in good /\ x = [id |-> x.id, relevance |-> score[x.id]]
          /\ \A c \in good : [id |-> c, relevance |-> score[c]] \in hits
      OBVIOUS
    <3>3. near = Cut(hits, batch).rows
      BY <2>2 DEF FindSimilarConcepts
    <3>4. \A c \in good : score[c] = corpus[c].sim
      OBVIOUS
    <3>5. \A c : c \in good <=> c \in Found /\ corpus[c].sim # Absent
      OBVIOUS
    <3> HIDE DEF good, score, near, hits
    <3>6. /\ \A row \in near : row.id \in good
          /\ \A row \in near, c \in good :
                score[c] > score[row.id] => \E other \in near : other.id = c
      BY <1>1, <3>1, <3>2, <3>3, BatchIsUpward
    <3>7. isNear \subseteq good
      BY <3>6
    <3>8. ASSUME NEW d \in isNear, NEW c \in good, score[c] > score[d] PROVE c \in isNear
      BY <3>6, <3>8
    <3> HIDE DEF isNear
    <3> QED BY <3>4, <3>5, <3>7, <3>8
  <2> QED BY <2>1, <2>2
<1>4. /\ isSaid \subseteq Found
      /\ \A c \in isSaid : corpus[c].rank # Absent
      /\ \A d \in isSaid, c \in Found :
            corpus[c].rank # Absent /\ corpus[c].rank > corpus[d].rank => c \in isSaid
  <2> DEFINE good == {d \in Found : corpus[d].rank # Absent /\ Chosen(d, wish.filter)
                                    /\ After(10 * corpus[d].rank, d, Absent)}
             score == [c \in good |-> 10 * corpus[c].rank]
  <2>1. CASE wordsFail
    BY <2>1
  <2>2. CASE ~wordsFail
    <3>0. \A c : c \in good <=> c \in Found /\ corpus[c].rank # Absent
      BY DEF Chosen, After
    <3>1. good \in SUBSET Found /\ score \in [good -> Int]
      <4>1. \A c \in good : 10 * corpus[c].rank \in Int
        BY Relevances
      <4> QED BY <4>1
    <3> DEFINE hits == {[id |-> c, relevance |-> 10 * corpus[c].rank] : c \in good}
    <3>2. /\ \A x \in hits : x.id \in good /\ x = [id |-> x.id, relevance |-> score[x.id]]
          /\ \A c \in good : [id |-> c, relevance |-> score[c]] \in hits
      OBVIOUS
    <3> DEFINE raw == Cut(hits, batch).rows
    <3>3. words = {Clamped(row) : row \in raw}
      BY <2>2 DEF FtsSearchConcepts, MatchesAfter
    <3>9. /\ \A row \in words : \E x \in raw : x.id = row.id
          /\ \A x \in raw : \E row \in words : row.id = x.id
      <4>1. \A x \in raw : Clamped(x) \in words /\ Clamped(x).id = x.id
        BY <3>3 DEF Clamped
      <4>2. \A row \in words : \E x \in raw : row = Clamped(x)
        BY <3>3
      <4> QED BY <4>1, <4>2
    <3>4. \A c \in good : score[c] = 10 * corpus[c].rank /\ corpus[c].rank \in Nat
      BY <3>0, CorpusKnown
    <3> HIDE DEF good, score, words, raw, hits
    <3>10. /\ \A row \in raw : row.id \in good
           /\ \A row \in raw, c \in good :
                 score[c] > score[row.id] => \E other \in raw : other.id = c
      <4>1. raw = Cut(hits, batch).rows
        BY DEF raw
      <4> QED BY <1>1, <3>1, <3>2, <4>1, BatchIsUpward
    <3>5. /\ \A row \in words : row.id \in good
          /\ \A row \in words, c \in good :
                score[c] > score[row.id] => \E other \in words : other.id = c
      BY <3>9, <3>10
    <3>6. ASSUME NEW c \in good, NEW d \in good, corpus[c].rank > corpus[d].rank
          PROVE  score[c] > score[d]
      <4>1. \A a, b \in Nat : a > b => 10 * a > 10 * b
        OBVIOUS
      <4> QED BY <3>4, <3>6, <4>1
    <3>7. isSaid \subseteq good
      BY <3>5
    <3>8. ASSUME NEW d \in isSaid, NEW c \in good, score[c] > score[d] PROVE c \in isSaid
      BY <3>5, <3>8
    <3> HIDE DEF isSaid
    <3> QED BY <3>0, <3>6, <3>7, <3>8
  <2> QED BY <2>1, <2>2
<1> HIDE DEF near, words, isNear, isSaid
<1>5. ASSUME NEW c \in Found, NEW d \in Found,
             Above(corpus[c].sim, corpus[d].sim), Above(corpus[c].rank, corpus[d].rank)
      PROVE  Round(Score(c)) >= Round(Score(d))
  <2> DEFINE s == IF c \in isNear THEN corpus[c].sim ELSE Absent
             t == IF d \in isNear THEN corpus[d].sim ELSE Absent
             q == IF c \in isSaid THEN corpus[c].rank ELSE Absent
             r == IF d \in isSaid THEN corpus[d].rank ELSE Absent
  <2>1. /\ s = Absent \/ s \in Int
        /\ t = Absent \/ t \in Int
        /\ q = Absent \/ q \in Nat
        /\ r = Absent \/ r \in Nat
    BY CorpusKnown
  <2>2. Above(s, t)
    BY <1>3, <1>5 DEF Above
  <2>3. Above(q, r)
    BY <1>4, <1>5 DEF Above
  <2>4. Score(c) = CombinedScore(s, q) /\ Score(d) = CombinedScore(t, r)
    OBVIOUS
  <2> HIDE DEF s, t, q, r, Score
  <2>5. Score(c) \in Int /\ Score(d) \in Int /\ Score(c) >= Score(d)
    BY <2>1, <2>2, <2>3, <2>4, ScoreKeepsOrder
  <2> QED BY <2>5, RoundKeepsOrder
<1>6. \A x \in Fuse(cursor, vectorFails, wordsFail).rows :
         x.id \in Found /\ x.relevance = Round(Score(x.id))
  <2>1. fused.rows \subseteq scored
    BY DEF Cut, FirstOf
  <2>2. ASSUME NEW row \in scored
        PROVE  /\ row.id \in Found
               /\ [row EXCEPT !.relevance = Round(@)].id = row.id
               /\ [row EXCEPT !.relevance = Round(@)].relevance = Round(Score(row.id))
    <3>1. PICK c \in isNear \cup isSaid :
             row = [id |-> c, relevance |-> Score(c), ftsFallback |-> c \notin isNear]
      OBVIOUS
    <3> HIDE DEF Score
    <3>2. c \in Found
      BY <1>3, <1>4
    <3>3. row.id = c /\ row.relevance = Score(c)
      BY <3>1
    <3>4. [row EXCEPT !.relevance = Round(@)] = [id |-> c, relevance |-> Round(Score(c)),
                                                ftsFallback |-> c \notin isNear]
      BY <3>1
    <3> QED BY <3>2, <3>3, <3>4
  <2> HIDE DEF fused, scored, Score
  <2> QED BY <1>2, <2>1, <2>2, ZenonT(60)
<1> HIDE DEF Score
<1> QED BY <1>5, <1>6 DEF OrderlyPage

\* In a page fused from both sources, or made of words alone, a concept that is nearer
\* and matches better is no less relevant, for any scores, batches and page sizes, and
\* whichever source fails (combinedScore, the merge by uuid).
THEOREM CloserIsNeverLess == FindSpec => []CloserIsNoLess
<1> DEFINE Orderly == edits \in Nat /\ CloserIsNoLess
<1>1. FindInit => Orderly
  <2>1. FindInit => edits = 0 /\ walk.last = Absent
    BY DEF FindInit, SearchInit, NoWalk
  <2> QED BY <2>1 DEF CloserIsNoLess
<1>2. ASSUME FindInv, Orderly, [FindNext]_findVars PROVE Orderly'
  <2>1. ASSUME NEW e \in BOOLEAN, NEW v \in BOOLEAN, NEW w \in BOOLEAN, Search(e, v, w) PROVE Orderly'
    <3> DEFINE answer == HybridSearch(e, walk.cursor, v, w)
    <3>1. UNCHANGED <<corpus, wish, edits>> /\ (walk' = walk \/ walk'.last = answer)
      BY <2>1 DEF Search
    <3>2. wish.filter = "any" => OrderlyPage(answer.rows)
      <4>1. CASE wired /\ e
        BY <1>2, <4>1, FusedIsOrderly DEF HybridSearch
      <4>2. CASE ~(wired /\ e)
        BY <1>2, <4>2, WordsAreOrderly DEF HybridSearch
      <4> QED BY <4>1, <4>2
    <3> HIDE DEF answer
    <3> QED BY <1>2, <3>1, <3>2 DEF CloserIsNoLess, OrderlyPage
  <2>2. ASSUME NEW c \in Found, Edit(c) PROVE Orderly'
    <3>1. edits' \in Nat /\ edits' # 0
      BY <1>2, <2>2 DEF Edit
    <3> QED BY <3>1 DEF CloserIsNoLess
  <2>3. CASE UNCHANGED <<corpus, wish, walk, edits>>
    BY <1>2, <2>3 DEF CloserIsNoLess
  <2> QED
    BY <1>2, <2>1, <2>2, <2>3 DEF FindNext, SearchNext, GetContext, ContextPreview, findVars
<1>3. Orderly => CloserIsNoLess
  OBVIOUS
<1> QED BY <1>1, <1>2, <1>3, FindInvariant, PTL DEF FindSpec

----------------------------------------------------------------------------
(* The download                                                             *)

Positions == [at : Nat, uuid : Concepts]

Tables ==
  /\ clock \in Nat
  /\ writes \in [created : SUBSET Concepts, merges : Nat, purges : Nat]
  /\ DOMAIN rows \subseteq writes.created
  /\ rows \in [DOMAIN rows -> [at : Nat, body : Citations \cup {0}, link : Links]]
  /\ named = [c \in DOMAIN rows |-> RelPath[c]]
  /\ cited \in [DOMAIN rows -> SUBSET (Citations \cup {0})]

\* What was there when the request came is there, unless a purge took it.
SinceOK ==
  /\ DOMAIN since \subseteq DOMAIN rows
  /\ \A c \in DOMAIN since : since[c].name = RelPath[c] /\ since[c].evidence \subseteq cited[c]

\* The concept is among those read, under its path and with the evidence it had.
Holds(concepts, c) ==
  \E x \in concepts : x.uuid = c /\ x.name = RelPath[c] /\ since[c].evidence \subseteq x.evidence

ReadOnce(concepts) ==
  /\ \A x \in concepts : x.uuid \in writes.created /\ x.name = RelPath[x.uuid]
  /\ \A x \in concepts, y \in concepts : x.uuid = y.uuid => x = y

\* What was read lies before the cursor, and of what was there and lies before it
\* everything was read.
ReadUpTo(concepts, cursor) ==
  /\ cursor \in Positions \cup {Canonical}
  /\ \A x \in concepts : x.uuid \in DOMAIN rows => ~Beyond(x.uuid, cursor)
  /\ \A c \in DOMAIN since : Beyond(c, cursor) \/ Holds(concepts, c)

\* The page in hand is what lies between the cursor and the next one.
PageOf(r, concepts) ==
  /\ r.next \in Positions \cup {Canonical}
  /\ r.next # Canonical /\ r.cursor # Canonical =>
       \/ r.next.at > r.cursor.at
       \/ r.next.at = r.cursor.at /\ r.next.uuid > r.cursor.uuid
  /\ \A p \in r.page : /\ p.uuid \in writes.created /\ \A x \in concepts : x.uuid # p.uuid
                       /\ r.next # Canonical /\ p.uuid \in DOMAIN rows => ~Beyond(p.uuid, r.next)
  /\ \A p \in r.page, q \in r.page : p.uuid = q.uuid => p = q
  /\ \A c \in DOMAIN since : Beyond(c, r.cursor) /\ (r.next = Canonical \/ ~Beyond(c, r.next)) =>
       /\ \E p \in r.page : p.uuid = c
       /\ r.paths # Canonical => c \in DOMAIN r.paths.of
       /\ r.evidence # Canonical => /\ c \in DOMAIN r.evidence.of
                                    /\ since[c].evidence \subseteq r.evidence.of[c]
  /\ r.paths # Canonical => \A c \in DOMAIN r.paths.of : r.paths.of[c] = RelPath[c]

RequestOK(r, b) ==
  /\ {"pc", "limit", "cursor", "page", "next", "paths", "evidence"} \subseteq DOMAIN r
  /\ r.pc \in {"idle", "probe", "page", "children", "audit"}
  /\ r.limit \in Nat \ {0}
  /\ ReadOnce(b.concepts)
  /\ r.pc = "idle" /\ outcome.status = "none" => b.concepts = {}
  /\ r.pc \in {"probe", "page", "children"} => ReadUpTo(b.concepts, r.cursor)
  /\ r.pc \in {"probe", "page"} => r.paths = Canonical /\ r.evidence = Canonical
  /\ r.pc = "children" => PageOf(r, b.concepts)
  /\ r.pc = "audit" => \A c \in DOMAIN since : Holds(b.concepts, c)

OutcomeOK(o, b) ==
  /\ o.status # "none" => request.pc = "idle"
  /\ o.status # "corrupted"
  /\ o.status = "ok" => /\ o.archive = BuildOkfTar(RenderOkfBundle(b.concepts))
                        /\ \A c \in DOMAIN since : Holds(b.concepts, c)

ExportInv ==
  /\ Tables
  /\ button.project \in {"mine", "missing"}
  /\ SinceOK
  /\ \A r \in {request}, b \in {bundle} : RequestOK(r, b)
  /\ \A o \in {outcome}, b \in {bundle} : OutcomeOK(o, b)

LEMMA ExportInitOK == ExportInit => ExportInv
<1> SUFFICES ASSUME ExportInit PROVE ExportInv
  OBVIOUS
<1>1. DOMAIN rows = {} /\ DOMAIN since = {} /\ rows = named /\ cited = rows
  BY DEF ExportInit
<1>2. rows \in [DOMAIN rows -> [at : Nat, body : Citations \cup {0}, link : Links]]
      /\ cited \in [DOMAIN rows -> SUBSET (Citations \cup {0})]
  BY DEF ExportInit
<1>3. named = [c \in DOMAIN rows |-> RelPath[c]]
  BY DEF ExportInit
<1>4. Tables
  BY <1>1, <1>2, <1>3 DEF ExportInit, Tables
<1>5. \A r \in {request}, b \in {bundle} : RequestOK(r, b)
  BY <1>1 DEF ExportInit, RequestOK, ReadOnce, NoRequest, NoBundle
<1> QED
  BY <1>1, <1>4, <1>5 DEF ExportInit, ExportInv, SinceOK, OutcomeOK, NoOutcome, NoRequest

\* The writers leave a reader what it knows: times stay, names are not used again, and of
\* what was there at the request only a purge takes anything away, all of it.
LEMMA ReadersUndisturbed ==
  ASSUME ExportInv, Tables', SinceOK',
         writes.created \subseteq writes'.created,
         \A c \in DOMAIN rows' : c \in writes.created =>
             c \in DOMAIN rows /\ rows'[c].at = rows[c].at,
         \A c \in DOMAIN since' : c \in DOMAIN since /\ since'[c] = since[c],
         UNCHANGED <<request, bundle, outcome, button>>
  PROVE  ExportInv'
<1>1. \A c \in DOMAIN rows' : c \in writes.created =>
          \A cursor : Beyond(c, cursor)' <=> Beyond(c, cursor)
  BY DEF Beyond
<1>2. /\ DOMAIN since \subseteq DOMAIN rows /\ DOMAIN rows \subseteq writes.created
      /\ DOMAIN since' \subseteq DOMAIN rows'
  BY DEF ExportInv, SinceOK, Tables
<1>3. \A c \in DOMAIN since' : /\ c \in DOMAIN since /\ c \in DOMAIN rows /\ since'[c] = since[c]
                               /\ \A cursor : Beyond(c, cursor)' <=> Beyond(c, cursor)
  BY <1>1, <1>2
<1>4. \A concepts : \A c \in DOMAIN since' : Holds(concepts, c) => Holds(concepts, c)'
  BY <1>3 DEF Holds
<1>5. \A concepts : ReadOnce(concepts) => ReadOnce(concepts)'
  BY DEF ReadOnce
<1>6. ASSUME NEW concepts, NEW cursor, ReadUpTo(concepts, cursor), ReadOnce(concepts)
      PROVE  ReadUpTo(concepts, cursor)'
  <2>1. \A x \in concepts : x.uuid \in writes.created
    BY <1>6 DEF ReadOnce
  <2>2. \A x \in concepts : x.uuid \in DOMAIN rows' => ~Beyond(x.uuid, cursor)'
    BY <1>1, <1>6, <2>1 DEF ReadUpTo
  <2> QED BY <1>3, <1>4, <1>6, <2>2 DEF ReadUpTo
<1>7. ASSUME NEW r, NEW concepts, PageOf(r, concepts) PROVE PageOf(r, concepts)'
  <2>1. \A p \in r.page : /\ p.uuid \in writes'.created /\ \A x \in concepts : x.uuid # p.uuid
                          /\ r.next # Canonical /\ p.uuid \in DOMAIN rows' => ~Beyond(p.uuid, r.next)'
    BY <1>1, <1>7 DEF PageOf
  <2>2. \A c \in DOMAIN since' :
          Beyond(c, r.cursor)' /\ (r.next = Canonical \/ ~Beyond(c, r.next)') =>
            /\ \E p \in r.page : p.uuid = c
            /\ r.paths # Canonical => c \in DOMAIN r.paths.of
            /\ r.evidence # Canonical => c \in DOMAIN r.evidence.of
                                         /\ since'[c].evidence \subseteq r.evidence.of[c]
    BY <1>3, <1>7 DEF PageOf
  <2> QED BY <1>7, <2>1, <2>2 DEF PageOf
<1>8. \A r \in {request'}, b \in {bundle'} : RequestOK(r, b)'
  BY <1>3, <1>4, <1>5, <1>6, <1>7 DEF ExportInv, RequestOK
<1>9. \A o \in {outcome'}, b \in {bundle'} : OutcomeOK(o, b)'
  BY <1>4 DEF ExportInv, OutcomeOK
<1> QED BY <1>8, <1>9 DEF ExportInv

LEMMA ClockOK == ASSUME ExportInv, ClockTick PROVE ExportInv'
<1>1. Tables' /\ SinceOK'
  BY DEF ExportInv, Tables, SinceOK, ClockTick
<1> QED BY <1>1, ReadersUndisturbed DEF ClockTick, ExportInv, Tables

LEMMA CreateOK ==
  ASSUME ExportInv, NEW c \in Concepts, NEW link \in Links, Create(c, link) PROVE ExportInv'
<1>1. PICK began \in 1 .. clock : rows' = Adding(rows, c, [at |-> began, body |-> 0, link |-> link])
  BY DEF Create
<1>2. c \notin writes.created /\ c \notin DOMAIN rows /\ began \in Nat
  BY DEF Create, ExportInv, Tables
<1>3. /\ DOMAIN rows' = DOMAIN rows \cup {c}
      /\ rows'[c] = [at |-> began, body |-> 0, link |-> link]
      /\ \A y \in DOMAIN rows : rows'[y] = rows[y]
      /\ rows' \in [DOMAIN rows' -> [at : Nat, body : Citations \cup {0}, link : Links]]
  BY <1>1, <1>2 DEF Adding, ExportInv, Tables
<1>4. /\ DOMAIN cited' = DOMAIN rows \cup {c}
      /\ \A y \in DOMAIN rows : cited'[y] = cited[y]
      /\ cited' \in [DOMAIN rows' -> SUBSET (Citations \cup {0})]
  BY <1>2, <1>3 DEF Create, Adding, ExportInv, Tables
<1>5. named' = [y \in DOMAIN rows' |-> RelPath[y]]
  BY <1>2, <1>3 DEF Create, Adding, ExportInv, Tables
<1>6. writes' \in [created : SUBSET Concepts, merges : Nat, purges : Nat]
      /\ writes'.created = writes.created \cup {c}
  BY DEF Create, ExportInv, Tables
<1>7. Tables'
  BY <1>3, <1>4, <1>5, <1>6 DEF Create, ExportInv, Tables
<1>8. SinceOK'
  BY <1>3, <1>4 DEF Create, ExportInv, SinceOK
<1>9. \A y \in DOMAIN rows' : y \in writes.created => y \in DOMAIN rows /\ rows'[y].at = rows[y].at
  BY <1>2, <1>3
<1> QED BY <1>6, <1>7, <1>8, <1>9, ReadersUndisturbed DEF Create

LEMMA MergeOK ==
  ASSUME ExportInv, NEW c \in Concepts, NEW link \in Links, NEW e \in Citations, Merge(c, e, link)
  PROVE  ExportInv'
<1>1. /\ DOMAIN rows' = DOMAIN rows
      /\ \A y \in DOMAIN rows : rows'[y].at = rows[y].at
      /\ rows' \in [DOMAIN rows' -> [at : Nat, body : Citations \cup {0}, link : Links]]
  BY DEF Merge, ExportInv, Tables
<1>2. /\ cited' \in [DOMAIN rows' -> SUBSET (Citations \cup {0})]
      /\ \A y \in DOMAIN rows : cited[y] \subseteq cited'[y]
  BY <1>1 DEF Merge, ExportInv, Tables
<1>3. writes' \in [created : SUBSET Concepts, merges : Nat, purges : Nat]
      /\ writes'.created = writes.created
  BY DEF Merge, ExportInv, Tables
<1>4. Tables'
  BY <1>1, <1>2, <1>3 DEF Merge, ExportInv, Tables
<1>5. SinceOK'
  BY <1>1, <1>2 DEF Merge, ExportInv, SinceOK
<1> QED BY <1>1, <1>3, <1>4, <1>5, ReadersUndisturbed DEF Merge

LEMMA ExportPurgeOK == ASSUME ExportInv, PurgeProject PROVE ExportInv'
<1>1. DOMAIN rows' = {} /\ DOMAIN since' = {} /\ rows' = named' /\ cited' = rows'
  BY DEF PurgeProject
<1>2. rows' \in [DOMAIN rows' -> [at : Nat, body : Citations \cup {0}, link : Links]]
      /\ cited' \in [DOMAIN rows' -> SUBSET (Citations \cup {0})]
  BY DEF PurgeProject
<1>3. named' = [c \in DOMAIN rows' |-> RelPath[c]]
  BY DEF PurgeProject
<1>4. writes' \in [created : SUBSET Concepts, merges : Nat, purges : Nat]
      /\ writes'.created = writes.created
  BY DEF PurgeProject, ExportInv, Tables
<1>5. Tables'
  BY <1>1, <1>2, <1>3, <1>4 DEF PurgeProject, ExportInv, Tables
<1>6. SinceOK'
  BY <1>1 DEF SinceOK
<1> QED BY <1>1, <1>4, <1>5, <1>6, ReadersUndisturbed DEF PurgeProject

\* The reading statements leave the tables and what is known of the request alone.
LEMMA TablesSame ==
  ASSUME ExportInv, UNCHANGED <<tables, since>> PROVE Tables' /\ SinceOK'
BY DEF tables, ExportInv, Tables, SinceOK

LEMMA GetExportOK ==
  ASSUME ExportInv, NEW caller, NEW query \in {"none", "mine", "foreign", "missing"},
         NEW limit \in PageLimits, GetExport(caller, query, limit),
         button'.project = button.project
  PROVE  ExportInv'
<1> DEFINE project == ResolveProject(caller, query)
<1>0. outcome.status = "none" /\ request.pc = "idle" /\ bundle.concepts = {}
      /\ UNCHANGED <<tables, bundle>> /\ limit \in Nat \ {0}
  BY ExportAssumption DEF GetExport, ExportInv, RequestOK
<1>1. CASE project = "mine"
  <2>1. /\ request' = [NoRequest EXCEPT !.pc = "probe", !.limit = limit]
        /\ since' = [c \in DOMAIN rows |-> [name |-> named[c], evidence |-> cited[c]]]
        /\ UNCHANGED outcome
    BY <1>1 DEF GetExport
  <2>2. Tables'
    BY <1>0 DEF tables, ExportInv, Tables
  <2>3. SinceOK'
    BY <1>0, <2>1, <2>2 DEF SinceOK, Tables, tables
  <2>4. \A r \in {request'}, b \in {bundle'} : RequestOK(r, b)'
    BY <1>0, <2>1, ZenonT(60) DEF NoRequest, RequestOK, ReadOnce, ReadUpTo, Beyond
  <2>5. \A o \in {outcome'}, b \in {bundle'} : OutcomeOK(o, b)'
    BY <1>0, <2>1 DEF OutcomeOK
  <2> QED BY <2>2, <2>3, <2>4, <2>5 DEF ExportInv
<1>2. CASE project # "mine"
  <2>1. /\ outcome' = [status |-> IF project \in {"foreign", "missing"} THEN "not_found" ELSE project,
                       archive |-> {}]
        /\ UNCHANGED <<request, since>>
    BY <1>2 DEF GetExport
  <2>2. Tables' /\ SinceOK'
    BY <1>0, <2>1, TablesSame
  <2>3. \A r \in {request'}, b \in {bundle'} : RequestOK(r, b)'
    BY <1>0, <2>1 DEF ExportInv, RequestOK, ReadOnce, tables
  <2>4. project # "ok" /\ project # "corrupted"
    BY <1>2 DEF ResolveProject
  <2>5. \A o \in {outcome'}, b \in {bundle'} : OutcomeOK(o, b)'
    BY <1>0, <2>1, <2>4 DEF OutcomeOK
  <2> QED BY <2>2, <2>3, <2>5 DEF ExportInv
<1> QED BY <1>1, <1>2

LEMMA ProbeOK == ASSUME ExportInv, Probe PROVE ExportInv'
<1>0. request.pc = "probe" /\ UNCHANGED <<tables, button>>
  BY DEF Probe
<1>1. CASE UNCHANGED <<bundle, outcome, since>> /\ request' = [request EXCEPT !.pc = "page"]
  <2>1. Tables' /\ SinceOK'
    BY <1>0, <1>1, TablesSame
  <2>2. \A r \in {request'}, b \in {bundle'} : RequestOK(r, b)'
    BY <1>0, <1>1 DEF ExportInv, RequestOK, ReadOnce, ReadUpTo, Beyond, Holds, tables
  <2>3. \A o \in {outcome'}, b \in {bundle'} : OutcomeOK(o, b)'
    BY <1>0, <1>1 DEF ExportInv, OutcomeOK
  <2> QED BY <1>0, <2>1, <2>2, <2>3 DEF ExportInv
<1>2. CASE outcome' = [status |-> "invalid_cursor", archive |-> {}]
           /\ request' = NoRequest /\ bundle' = NoBundle /\ since' = << >>
  <2>1. Tables' /\ SinceOK'
    BY <1>0, <1>2 DEF tables, ExportInv, Tables, SinceOK
  <2>2. \A r \in {request'}, b \in {bundle'} : RequestOK(r, b)'
    BY <1>2 DEF NoRequest, NoBundle, RequestOK, ReadOnce
  <2>3. \A o \in {outcome'}, b \in {bundle'} : OutcomeOK(o, b)'
    BY <1>2 DEF OutcomeOK, NoRequest
  <2> QED BY <1>0, <2>1, <2>2, <2>3 DEF ExportInv
<1> QED BY <1>1, <1>2 DEF Probe

LEMMA ReadConceptsOK == ASSUME ExportInv, ReadConcepts PROVE ExportInv'
<1> DEFINE left == {c \in DOMAIN rows : Beyond(c, request.cursor)}
           visible == FirstOf(left, Ordered(left), request.limit)
           final == LastOf(visible, Ordered(left))
           next == IF Cardinality(left) > request.limit THEN Boundary(final) ELSE Canonical
           read == {[uuid |-> c, at |-> rows[c].at, body |-> rows[c].body,
                     link |-> rows[c].link] : c \in visible}
<1>0. /\ request.pc = "page" /\ UNCHANGED <<tables, bundle, outcome, button, since>>
      /\ request' = [request EXCEPT !.pc = "children", !.page = read, !.next = next]
  BY DEF ReadConcepts
<1>1. /\ DOMAIN rows \subseteq Concepts /\ DOMAIN rows \subseteq writes.created
      /\ \A c \in DOMAIN rows : rows[c].at \in Nat /\ c \in Nat
      /\ request.limit \in Nat \ {0}
      /\ {"pc", "limit", "cursor", "page", "next", "paths", "evidence"} \subseteq DOMAIN request
      /\ request.paths = Canonical /\ request.evidence = Canonical
      /\ ReadOnce(bundle.concepts) /\ ReadUpTo(bundle.concepts, request.cursor)
      /\ outcome.status = "none"
  BY <1>0, ExportAssumption DEF ExportInv, Tables, RequestOK, OutcomeOK
<1>2. IsFiniteSet(left)
  BY <1>1, ExportAssumption, FS_Subset
<1>3. Orders(Ordered(left), left)
  BY <1>1 DEF Orders, Ordered, Sooner
<1>4. /\ visible \subseteq left
      /\ ~(Cardinality(left) > request.limit) => visible = left
      /\ Cardinality(left) > request.limit =>
           /\ final \in left
           /\ \A x \in left : x \in visible <=> x = final \/ <<x, final>> \in Ordered(left)
  <2> HIDE DEF left
  <2> QED BY <1>1, <1>2, <1>3, FirstPage
<1>5. next # Canonical => final \in left /\ next = Boundary(final)
                          /\ \A x \in left : x \in visible <=> ~Beyond(x, next)
  <2>1. SUFFICES ASSUME next # Canonical
                 PROVE final \in left /\ next = Boundary(final)
                       /\ \A x \in left : x \in visible <=> ~Beyond(x, next)
    OBVIOUS
  <2>2. next = Boundary(final) /\ final \in left
        /\ \A x \in left : x \in visible <=> x = final \/ <<x, final>> \in Ordered(left)
    BY <1>4, <2>1
  <2>3. ASSUME NEW x \in left PROVE ~Beyond(x, next) <=> x = final \/ Sooner(x, final)
    <3>1. rows[x].at \in Nat /\ rows[final].at \in Nat /\ x \in Nat /\ final \in Nat
      BY <1>1, <2>2
    <3>2. next.at = rows[final].at /\ next.uuid = final
      BY <2>2 DEF Boundary
    <3> HIDE DEF next, left
    <3> QED BY <2>1, <3>1, <3>2 DEF Beyond, Sooner
  <2>4. \A x \in left : <<x, final>> \in Ordered(left) <=> Sooner(x, final)
    BY <2>2 DEF Ordered
  <2> QED BY <2>2, <2>3, <2>4
<1>6. next = Canonical => visible = left
  <2>1. Cardinality(left) > request.limit => Boundary(final) \in Positions
    BY <1>1, <1>4 DEF Boundary, Positions
  <2> QED BY <1>4, <2>1, ExportAssumption DEF Positions
<1>7. next \in Positions \cup {Canonical}
  BY <1>1, <1>5 DEF Boundary, Positions
<1>8. next # Canonical /\ request.cursor # Canonical =>
         \/ next.at > request.cursor.at
         \/ next.at = request.cursor.at /\ next.uuid > request.cursor.uuid
  BY <1>5 DEF Boundary, Beyond
<1>9. \A p \in read : /\ p.uuid \in visible /\ p.uuid \in left /\ p.uuid \in DOMAIN rows
                      /\ p = [uuid |-> p.uuid, at |-> rows[p.uuid].at, body |-> rows[p.uuid].body,
                              link |-> rows[p.uuid].link]
  BY <1>4
<1>10. ASSUME NEW c \in visible PROVE \E p \in read : p.uuid = c
  <2> HIDE DEF visible
  <2>1. [uuid |-> c, at |-> rows[c].at, body |-> rows[c].body, link |-> rows[c].link] \in read
    OBVIOUS
  <2> HIDE DEF read
  <2> QED BY <2>1
<1>11. \A p \in read : \A x \in bundle.concepts : x.uuid # p.uuid
  BY <1>1, <1>9 DEF ReadUpTo
<1>12. Tables' /\ SinceOK'
  BY <1>0, TablesSame
<1>13. DOMAIN since \subseteq DOMAIN rows
  BY DEF ExportInv, SinceOK
<1> HIDE DEF left, visible, final, next, read
<1>14. ASSUME NEW r \in {request'} PROVE PageOf(r, bundle.concepts)
  <2>1. r.page = read /\ r.next = next /\ r.cursor = request.cursor
        /\ r.paths = Canonical /\ r.evidence = Canonical
    BY <1>0, <1>1
  <2>2. \A p \in r.page : p.uuid \in writes.created /\ \A x \in bundle.concepts : x.uuid # p.uuid
    BY <1>1, <1>9, <1>11, <2>1
  <2>3. \A p \in r.page : r.next # Canonical => ~Beyond(p.uuid, r.next)
    BY <1>5, <1>9, <2>1
  <2>4. \A p \in r.page, q \in r.page : p.uuid = q.uuid => p = q
    BY <1>9, <2>1
  <2>5. \A c \in DOMAIN since :
           Beyond(c, r.cursor) /\ (r.next = Canonical \/ ~Beyond(c, r.next)) => c \in visible
    BY <1>5, <1>6, <1>13, <2>1 DEF left
  <2> QED BY <1>7, <1>8, <1>10, <2>1, <2>2, <2>3, <2>4, <2>5 DEF PageOf
<1>15. \A r, concepts : PageOf(r, concepts) => PageOf(r, concepts)'
  BY <1>0 DEF PageOf, Beyond, tables
<1>16. \A concepts : ReadOnce(concepts) => ReadOnce(concepts)'
  BY <1>0 DEF ReadOnce, tables
<1>17. \A concepts, cursor : ReadUpTo(concepts, cursor) => ReadUpTo(concepts, cursor)'
  BY <1>0 DEF ReadUpTo, Beyond, Holds, tables
<1>18. \A r \in {request'}, b \in {bundle'} : RequestOK(r, b)'
  <2>1. /\ {"pc", "limit", "cursor", "page", "next", "paths", "evidence"} \subseteq DOMAIN request'
        /\ request'.pc = "children" /\ request'.limit = request.limit
        /\ request'.cursor = request.cursor
    BY <1>0, <1>1
  <2> QED BY <1>0, <1>1, <1>14, <1>15, <1>16, <1>17, <2>1 DEF RequestOK
<1>19. \A o \in {outcome'}, b \in {bundle'} : OutcomeOK(o, b)'
  BY <1>0, <1>1 DEF OutcomeOK
<1> QED BY <1>0, <1>12, <1>18, <1>19 DEF ExportInv

LEMMA ChildrenKnown ==
  ASSUME ExportInv, request.pc = "children"
  PROVE  /\ {"pc", "limit", "cursor", "page", "next", "paths", "evidence"} \subseteq DOMAIN request
         /\ ReadOnce(bundle.concepts) /\ ReadUpTo(bundle.concepts, request.cursor)
         /\ PageOf(request, bundle.concepts)
         /\ request.limit \in Nat \ {0} /\ outcome.status = "none"
         /\ DOMAIN since \subseteq DOMAIN rows
         /\ DOMAIN rows \subseteq Concepts /\ DOMAIN named = DOMAIN rows /\ DOMAIN cited = DOMAIN rows
         /\ \A c \in DOMAIN rows : named[c] = RelPath[c] /\ rows[c].at \in Nat
         /\ \A c \in DOMAIN since : since[c].evidence \subseteq cited[c]
BY DEF ExportInv, RequestOK, OutcomeOK, SinceOK, Tables

\* What is in hand is known again after a step that leaves the tables alone.
LEMMA StillKnown ==
  ASSUME UNCHANGED <<tables, since>>
  PROVE  /\ \A concepts : ReadOnce(concepts) => ReadOnce(concepts)'
         /\ \A concepts, cursor : ReadUpTo(concepts, cursor) => ReadUpTo(concepts, cursor)'
         /\ \A r, concepts : PageOf(r, concepts) => PageOf(r, concepts)'
         /\ \A concepts, c : Holds(concepts, c) => Holds(concepts, c)'
<1>1. \A concepts : ReadOnce(concepts) => ReadOnce(concepts)'
  BY DEF ReadOnce, tables
<1>2. \A concepts, cursor : ReadUpTo(concepts, cursor) => ReadUpTo(concepts, cursor)'
  BY DEF ReadUpTo, Beyond, Holds, tables
<1>3. \A r, concepts : PageOf(r, concepts) => PageOf(r, concepts)'
  BY DEF PageOf, Beyond, tables
<1> QED BY <1>1, <1>2, <1>3 DEF Holds

LEMMA ReadPathsOK == ASSUME ExportInv, ReadPaths PROVE ExportInv'
<1>0. /\ request.pc = "children" /\ UNCHANGED <<tables, bundle, outcome, button, since>>
      /\ request' = [request EXCEPT !.paths = [of |-> OfPage(named)]]
  BY DEF ReadPaths
<1>1. Tables' /\ SinceOK'
  BY <1>0, TablesSame
<1>2. ASSUME NEW r \in {request'} PROVE PageOf(r, bundle.concepts)
  <2>1. /\ r.next = request.next /\ r.cursor = request.cursor /\ r.page = request.page
        /\ r.evidence = request.evidence /\ r.paths.of = OfPage(named)
    BY <1>0, ChildrenKnown
  <2>2. \A c \in DOMAIN r.paths.of : r.paths.of[c] = RelPath[c]
    BY <1>0, <2>1, ChildrenKnown DEF OfPage
  <2>3. \A c \in DOMAIN since : (\E p \in r.page : p.uuid = c) => c \in DOMAIN r.paths.of
    BY <1>0, <2>1, ChildrenKnown DEF OfPage
  <2> QED BY <1>0, <2>1, <2>2, <2>3, ChildrenKnown DEF PageOf
<1>3. /\ {"pc", "limit", "cursor", "page", "next", "paths", "evidence"} \subseteq DOMAIN request'
      /\ request'.pc = "children" /\ request'.limit = request.limit /\ request'.cursor = request.cursor
  BY <1>0, ChildrenKnown
<1>4. \A r \in {request'}, b \in {bundle'} : RequestOK(r, b)'
  BY <1>0, <1>2, <1>3, ChildrenKnown, StillKnown DEF RequestOK
<1>5. \A o \in {outcome'}, b \in {bundle'} : OutcomeOK(o, b)'
  BY <1>0, ChildrenKnown DEF OutcomeOK
<1> QED BY <1>0, <1>1, <1>4, <1>5 DEF ExportInv

LEMMA ReadEvidenceOK == ASSUME ExportInv, ReadEvidence PROVE ExportInv'
<1>0. /\ request.pc = "children" /\ UNCHANGED <<tables, bundle, outcome, button, since>>
      /\ request' = [request EXCEPT !.evidence = [of |-> OfPage(cited)]]
  BY DEF ReadEvidence
<1>1. Tables' /\ SinceOK'
  BY <1>0, TablesSame
<1>2. ASSUME NEW r \in {request'} PROVE PageOf(r, bundle.concepts)
  <2>1. /\ r.next = request.next /\ r.cursor = request.cursor /\ r.page = request.page
        /\ r.paths = request.paths /\ r.evidence.of = OfPage(cited)
    BY <1>0, ChildrenKnown
  <2>2. \A c \in DOMAIN since : (\E p \in r.page : p.uuid = c) =>
           c \in DOMAIN r.evidence.of /\ since[c].evidence \subseteq r.evidence.of[c]
    BY <1>0, <2>1, ChildrenKnown DEF OfPage
  <2> QED BY <1>0, <2>1, <2>2, ChildrenKnown DEF PageOf
<1>3. /\ {"pc", "limit", "cursor", "page", "next", "paths", "evidence"} \subseteq DOMAIN request'
      /\ request'.pc = "children" /\ request'.limit = request.limit /\ request'.cursor = request.cursor
  BY <1>0, ChildrenKnown
<1>4. \A r \in {request'}, b \in {bundle'} : RequestOK(r, b)'
  BY <1>0, <1>2, <1>3, ChildrenKnown, StillKnown DEF RequestOK
<1>5. \A o \in {outcome'}, b \in {bundle'} : OutcomeOK(o, b)'
  BY <1>0, ChildrenKnown DEF OutcomeOK
<1> QED BY <1>0, <1>1, <1>4, <1>5 DEF ExportInv

LEMMA TakePageOK == ASSUME ExportInv, TakePage PROVE ExportInv'
<1> DEFINE valid == {row \in request.page : AssembleValidated(row)}
           taken == {Assembled(row) : row \in valid}
           concepts == bundle.concepts \union taken
<1>0. /\ request.pc = "children" /\ UNCHANGED <<tables, outcome, button, since>>
      /\ request.paths # Canonical /\ request.evidence # Canonical
      /\ bundle'.concepts = concepts
      /\ request' = IF request.next # Canonical
                    THEN [NoRequest EXCEPT !.pc = "probe", !.limit = request.limit,
                                           !.cursor = request.next]
                    ELSE [NoRequest EXCEPT !.pc = "audit"]
  BY DEF TakePage
<1>1. Tables' /\ SinceOK'
  BY <1>0, TablesSame
<1>2. \A x \in taken : \E row \in request.page :
         /\ x = Assembled(row) /\ x.uuid = row.uuid /\ x.name = RelPath[row.uuid]
  BY <1>0, ChildrenKnown DEF AssembleValidated, Assembled, PageOf
<1>3. \A row \in request.page : AssembleValidated(row) =>
         \E x \in taken : /\ x.uuid = row.uuid /\ x.name = RelPath[row.uuid]
                          /\ x.evidence = request.evidence.of[row.uuid]
  <2> SUFFICES ASSUME NEW row \in request.page, AssembleValidated(row)
               PROVE \E x \in taken : /\ x.uuid = row.uuid /\ x.name = RelPath[row.uuid]
                                      /\ x.evidence = request.evidence.of[row.uuid]
    OBVIOUS
  <2>1. Assembled(row) \in taken
    OBVIOUS
  <2>2. /\ Assembled(row).uuid = row.uuid /\ Assembled(row).name = RelPath[row.uuid]
        /\ Assembled(row).evidence = request.evidence.of[row.uuid]
    BY <1>0, ChildrenKnown DEF AssembleValidated, Assembled, PageOf
  <2> HIDE DEF taken
  <2> QED BY <2>1, <2>2
<1> HIDE DEF valid, taken
<1>4. ReadOnce(concepts)
  <2>1. \A x \in taken : x.uuid \in writes.created /\ x.name = RelPath[x.uuid]
    BY <1>0, <1>2, ChildrenKnown DEF PageOf
  <2>2. \A x \in taken, y \in taken : x.uuid = y.uuid => x = y
    BY <1>0, <1>2, ChildrenKnown DEF PageOf
  <2>3. \A x \in taken, y \in bundle.concepts : x.uuid # y.uuid
    BY <1>0, <1>2, ChildrenKnown DEF PageOf
  <2> QED BY <1>0, <2>1, <2>2, <2>3, ChildrenKnown DEF ReadOnce
<1>5. ASSUME NEW c \in DOMAIN since, request.next = Canonical \/ ~Beyond(c, request.next)
      PROVE  Holds(concepts, c)
  <2>1. CASE Beyond(c, request.cursor)
    <3>1. PICK row \in request.page : row.uuid = c
      BY <1>0, <1>5, <2>1, ChildrenKnown DEF PageOf
    <3>2. c \in DOMAIN request.paths.of /\ c \in DOMAIN request.evidence.of
          /\ since[c].evidence \subseteq request.evidence.of[c]
      BY <1>0, <1>5, <2>1, ChildrenKnown DEF PageOf
    <3>3. AssembleValidated(row)
      BY <3>1, <3>2 DEF AssembleValidated
    <3> QED BY <1>3, <3>1, <3>2, <3>3 DEF Holds
  <2>2. CASE ~Beyond(c, request.cursor)
    BY <1>0, <2>2, ChildrenKnown DEF ReadUpTo, Holds
  <2> QED BY <2>1, <2>2
<1>6. request.next # Canonical => ReadUpTo(concepts, request.next)
  <2> SUFFICES ASSUME request.next # Canonical PROVE ReadUpTo(concepts, request.next)
    OBVIOUS
  <2>1. request.next \in Positions
    BY <1>0, ChildrenKnown DEF PageOf
  <2>2. \A x \in taken : x.uuid \in DOMAIN rows => ~Beyond(x.uuid, request.next)
    BY <1>0, <1>2, ChildrenKnown DEF PageOf
  <2>3. ASSUME NEW x \in bundle.concepts, x.uuid \in DOMAIN rows
        PROVE  ~Beyond(x.uuid, request.next)
    <3>1. ~Beyond(x.uuid, request.cursor) /\ rows[x.uuid].at \in Nat /\ x.uuid \in Nat
      BY <1>0, <2>3, ChildrenKnown, ExportAssumption DEF ReadUpTo
    <3>2. request.cursor \in Positions /\ request.cursor # Canonical
      BY <1>0, <3>1, ChildrenKnown DEF ReadUpTo, Beyond
    <3>3. \/ request.next.at > request.cursor.at
          \/ request.next.at = request.cursor.at /\ request.next.uuid > request.cursor.uuid
      BY <1>0, <3>2, ChildrenKnown DEF PageOf
    <3>4. /\ request.next.at \in Nat /\ request.next.uuid \in Nat
          /\ request.cursor.at \in Nat /\ request.cursor.uuid \in Nat
      BY <2>1, <3>2, ExportAssumption DEF Positions
    <3> QED BY <3>1, <3>2, <3>3, <3>4 DEF Beyond
  <2> QED BY <1>5, <2>1, <2>2, <2>3 DEF ReadUpTo
<1> HIDE DEF concepts
<1>7. \A r \in {request'}, b \in {bundle'} : RequestOK(r, b)'
  <2>1. CASE request.next # Canonical
    <3>1. /\ {"pc", "limit", "cursor", "page", "next", "paths", "evidence"} \subseteq DOMAIN request'
          /\ request'.pc = "probe" /\ request'.limit = request.limit /\ request'.cursor = request.next
          /\ request'.paths = Canonical /\ request'.evidence = Canonical
      BY <1>0, <2>1 DEF NoRequest
    <3> QED BY <1>0, <1>4, <1>6, <2>1, <3>1, ChildrenKnown, StillKnown DEF RequestOK
  <2>2. CASE request.next = Canonical
    <3>1. /\ {"pc", "limit", "cursor", "page", "next", "paths", "evidence"} \subseteq DOMAIN request'
          /\ request'.pc = "audit" /\ request'.limit = 1
      BY <1>0, <2>2 DEF NoRequest
    <3>2. \A c \in DOMAIN since : Holds(concepts, c)
      BY <1>5, <2>2
    <3> QED BY <1>0, <1>4, <3>1, <3>2, StillKnown DEF RequestOK
  <2> QED BY <2>1, <2>2
<1>8. \A o \in {outcome'}, b \in {bundle'} : OutcomeOK(o, b)'
  BY <1>0, ChildrenKnown DEF OutcomeOK
<1> QED BY <1>0, <1>1, <1>7, <1>8 DEF ExportInv

\* No two of the concepts read go by one name.
LEMMA NoneCollide ==
  ASSUME ExportInv, NEW concepts, ReadOnce(concepts) PROVE ~Collide(concepts)
<1>1. writes.created \subseteq Concepts
  BY DEF ExportInv, Tables
<1> QED BY <1>1, ExportAssumption, ZenonT(60) DEF ReadOnce, Collide

LEMMA ExportAuditOK == ASSUME ExportInv, WriteAuditRecord PROVE ExportInv'
<1>0. /\ request.pc = "audit" /\ UNCHANGED <<tables, bundle, button, since>>
      /\ request' = [request EXCEPT !.pc = "idle"]
  BY DEF WriteAuditRecord
<1>1. Tables' /\ SinceOK'
  BY <1>0, TablesSame
<1>2. /\ {"pc", "limit", "cursor", "page", "next", "paths", "evidence"} \subseteq DOMAIN request
      /\ request.limit \in Nat \ {0} /\ ReadOnce(bundle.concepts)
      /\ \A c \in DOMAIN since : Holds(bundle.concepts, c)
  BY <1>0 DEF ExportInv, RequestOK
<1>3. \/ outcome' = [status |-> "ok", archive |-> BuildOkfTar(RenderOkfBundle(bundle.concepts))]
      \/ outcome' = [status |-> "audit_failed", archive |-> {}]
  BY <1>2, NoneCollide DEF WriteAuditRecord
<1>4. \A r \in {request'}, b \in {bundle'} : RequestOK(r, b)'
  <2>1. /\ {"pc", "limit", "cursor", "page", "next", "paths", "evidence"} \subseteq DOMAIN request'
        /\ request'.pc = "idle" /\ request'.limit = request.limit /\ outcome'.status # "none"
    BY <1>0, <1>2, <1>3
  <2> QED BY <1>0, <1>2, <2>1, StillKnown DEF RequestOK
<1>5. \A o \in {outcome'}, b \in {bundle'} : OutcomeOK(o, b)'
  <2>1. request'.pc = "idle"
    BY <1>0, <1>2
  <2>2. CASE outcome' = [status |-> "audit_failed", archive |-> {}]
    BY <2>1, <2>2 DEF OutcomeOK
  <2>3. CASE outcome' = [status |-> "ok", archive |-> BuildOkfTar(RenderOkfBundle(bundle.concepts))]
    BY <1>0, <1>2, <2>1, <2>3, StillKnown DEF OutcomeOK
  <2> QED BY <1>3, <2>2, <2>3
<1> QED BY <1>0, <1>1, <1>4, <1>5 DEF ExportInv

LEMMA ButtonOK ==
  ASSUME ExportInv, UNCHANGED <<tables, request, bundle, outcome, since>>,
         button'.project \in {"mine", "missing"}
  PROVE  ExportInv'
<1>1. Tables' /\ SinceOK'
  BY TablesSame
<1>2. \A r \in {request'}, b \in {bundle'} : RequestOK(r, b)'
  BY StillKnown DEF ExportInv, RequestOK
<1>3. \A o \in {outcome'}, b \in {bundle'} : OutcomeOK(o, b)'
  BY StillKnown DEF ExportInv, OutcomeOK
<1> QED BY <1>1, <1>2, <1>3 DEF ExportInv

LEMMA ExportStepOK == ExportInv /\ [ExportNext]_exportVars => ExportInv'
<1> SUFFICES ASSUME ExportInv, [ExportNext]_exportVars PROVE ExportInv'
  OBVIOUS
<1>0. button.project \in {"mine", "missing"}
  BY DEF ExportInv
<1>1. CASE ClockTick
  BY <1>1, ClockOK
<1>2. CASE PurgeProject
  BY <1>2, ExportPurgeOK
<1>3. ASSUME NEW c \in Concepts, NEW link \in Links, Create(c, link) PROVE ExportInv'
  BY <1>3, CreateOK
<1>4. ASSUME NEW c \in Concepts, NEW link \in Links, NEW e \in Citations, Merge(c, e, link)
      PROVE  ExportInv'
  BY <1>4, MergeOK
<1>5. ASSUME NEW limit \in PageLimits, Download(limit) PROVE ExportInv'
  <2>1. GetExport("member", button.project, limit)
        /\ button' = [button EXCEPT !.asked = button.project, !.shown = NothingShown]
    BY <1>5 DEF Download
  <2>2. button'.project = button.project
    BY <2>1
  <2>3. \A q : button.project = q => GetExport("member", q, limit)
    BY <2>1
  <2> QED BY <1>0, <2>2, <2>3, GetExportOK
<1>6. ASSUME NEW limit \in PageLimits, NEW caller \in {"viewer", "project_key", "team_key"},
             NEW query \in {"none", "mine", "foreign", "missing"}, Request(caller, query, limit)
      PROVE  ExportInv'
  BY <1>6, GetExportOK DEF Request
<1>7. CASE Probe
  BY <1>7, ProbeOK
<1>8. CASE ReadConcepts
  BY <1>8, ReadConceptsOK
<1>9. CASE ReadPaths
  BY <1>9, ReadPathsOK
<1>10. CASE ReadEvidence
  BY <1>10, ReadEvidenceOK
<1>11. CASE TakePage
  BY <1>11, TakePageOK
<1>12. CASE WriteAuditRecord
  BY <1>12, ExportAuditOK
<1>13. CASE ShowFeedback
  BY <1>0, <1>13, ButtonOK DEF ShowFeedback
<1>14. CASE SwitchProject
  BY <1>14, ButtonOK DEF SwitchProject
<1>15. CASE UNCHANGED exportVars
  BY <1>0, <1>15, ButtonOK DEF exportVars, tables
<1> QED
  BY <1>1, <1>2, <1>3, <1>4, <1>5, <1>6, <1>7, <1>8, <1>9, <1>10, <1>11, <1>12, <1>13, <1>14, <1>15
  DEF ExportNext

\* Whatever the writers commit between the statements of a download, and in every project
\* and size of a page: what was there at the request and lies before the cursor has been
\* read, once, under its path and with the evidence it had (exportProject).
THEOREM ExportInvariant == ExportSpec => []ExportInv
<1>1. ExportInit => ExportInv
  BY ExportInitOK
<1>2. ExportInv /\ [ExportNext]_exportVars => ExportInv'
  BY ExportStepOK
<1> QED BY <1>1, <1>2, PTL DEF ExportSpec

\* The files of a tree, one by one.
LEMMA FilesOfTree ==
  ASSUME NEW concepts,
         \A c \in concepts : c.uuid \in Concepts /\ c.name = RelPath[c.uuid]
  PROVE  /\ RenderBundleIndex(concepts) \in RenderOkfBundle(concepts)
         /\ \A c \in concepts : RenderConceptPage(c, PathsOf(concepts)) \in RenderOkfBundle(concepts)
         /\ \A f \in RenderOkfBundle(concepts) :
               \/ f = RenderBundleIndex(concepts)
               \/ \E c \in concepts : f = RenderConceptPage(c, PathsOf(concepts))
<1>1. \A c \in concepts : c.name.dir \in OKF_TYPE_DIRS
  BY ExportAssumption DEF Names
<1> QED BY <1>1 DEF RenderOkfBundle

\* Unpacking gives back what was packed, whatever fits a header's field.
LEMMA TarIsFaithful ==
  ASSUME NEW concepts,
         \A c \in concepts : c.uuid \in Concepts /\ c.name = RelPath[c.uuid]
  PROVE  Extract(BuildOkfTar(RenderOkfBundle(concepts))) = RenderOkfBundle(concepts)
<1>1. ASSUME NEW name \in Names \cup {Index}, NEW file, file.name = name
      PROVE  ExtractedName(ArchiveEntries(file)) = name
  <2>2. name = [dir |-> name.dir, depth |-> name.depth, stem |-> name.stem, bytes |-> name.bytes]
    BY DEF Names, Index
  <2>3. CASE NeedsLongName(name)
    <3>1. name # Index
      <4>1. NAME_FIELD \in Nat /\ NAME_FIELD > 8 /\ name.bytes > NAME_FIELD - 1
        BY <2>3, ExportAssumption DEF NeedsLongName
      <4>2. Index.bytes = 8
        BY DEF Index
      <4> QED BY <4>1, <4>2
    <3>2. name # Canonical
      BY <3>1, ExportAssumption
    <3> QED BY <1>1, <2>3, <3>2 DEF ExtractedName, ArchiveEntries
  <2>4. CASE ~NeedsLongName(name)
    <3>1. ~(name.bytes > NAME_FIELD - 1)
      BY <2>4 DEF NeedsLongName
    <3>2. WriteField(name) = [name EXCEPT !.bytes = name.bytes]
      BY <3>1 DEF WriteField
    <3>3. [name EXCEPT !.bytes = name.bytes] = name
      BY <2>2
    <3> QED BY <1>1, <2>4, <3>2, <3>3 DEF ExtractedName, ArchiveEntries
  <2> QED BY <2>3, <2>4
<1>2. \A f \in RenderOkfBundle(concepts) :
         /\ f.name \in Names \cup {Index}
         /\ f = [name |-> f.name, uuid |-> f.uuid, body |-> f.body, page |-> f.page,
                 evidence |-> f.evidence, links |-> f.links]
  <2>1. \A c \in concepts : c.name \in Names
    BY ExportAssumption
  <2>2. ASSUME NEW c \in concepts, NEW f, f = RenderConceptPage(c, PathsOf(concepts))
        PROVE  /\ f.name \in Names
               /\ f = [name |-> f.name, uuid |-> f.uuid, body |-> f.body, page |-> f.page,
                       evidence |-> f.evidence, links |-> f.links]
    BY <2>1, <2>2 DEF RenderConceptPage
  <2>3. ASSUME NEW f, f = RenderBundleIndex(concepts)
        PROVE  /\ f.name = Index
               /\ f = [name |-> f.name, uuid |-> f.uuid, body |-> f.body, page |-> f.page,
                       evidence |-> f.evidence, links |-> f.links]
    BY <2>3 DEF RenderBundleIndex
  <2> QED BY <2>2, <2>3, FilesOfTree
<1>3. \A f \in RenderOkfBundle(concepts) :
         [ArchiveEntries(f).data EXCEPT !.name = ExtractedName(ArchiveEntries(f))] = f
  <2> SUFFICES ASSUME NEW f \in RenderOkfBundle(concepts)
               PROVE [ArchiveEntries(f).data EXCEPT !.name = ExtractedName(ArchiveEntries(f))] = f
    OBVIOUS
  <2>1. ExtractedName(ArchiveEntries(f)) = f.name
    BY <1>1, <1>2
  <2>2. ArchiveEntries(f).data = f
    BY DEF ArchiveEntries
  <2>3. [f EXCEPT !.name = f.name] = f
    BY <1>2
  <2> QED BY <2>1, <2>2, <2>3
<1> QED BY <1>3 DEF Extract, BuildOkfTar

LEMMA WholeFromInv == ExportInv => DownloadIsWhole
<1> SUFFICES ASSUME ExportInv PROVE DownloadIsWhole
  OBVIOUS
<1>1. outcome.status # "corrupted"
  BY DEF ExportInv, OutcomeOK
<1> SUFFICES ASSUME outcome.status = "ok"
             PROVE  LET files == Extract(outcome.archive) IN
                    /\ \A c \in DOMAIN since :
                          \E f \in files : /\ f.uuid = c
                                           /\ f.name = since[c].name
                                           /\ since[c].evidence \subseteq f.evidence
                    /\ \A f, g \in files : f.name = g.name \/ f.uuid = g.uuid => f = g
                    /\ \A f \in files : \A link \in f.links \ {Canonical} :
                          \E g \in files : Leads(f, link, g)
  BY <1>1 DEF DownloadIsWhole
<1> DEFINE concepts == bundle.concepts
           files == RenderOkfBundle(concepts)
           paths == PathsOf(concepts)
           Page(c) == RenderConceptPage(c, paths)
<1>2. /\ outcome.archive = BuildOkfTar(files)
      /\ \A c \in DOMAIN since : Holds(concepts, c)
      /\ ReadOnce(concepts)
  BY DEF ExportInv, OutcomeOK, RequestOK
<1>3. \A c \in concepts : c.uuid \in Concepts /\ c.name = RelPath[c.uuid]
  BY <1>2 DEF ReadOnce, ExportInv, Tables
<1>4. Extract(outcome.archive) = files
  BY <1>2, <1>3, TarIsFaithful
<1>5. /\ RenderBundleIndex(concepts) \in files
      /\ \A c \in concepts : Page(c) \in files
      /\ \A f \in files : f = RenderBundleIndex(concepts) \/ \E c \in concepts : f = Page(c)
  BY <1>3, FilesOfTree
<1>6. \A c \in concepts : Page(c).uuid = c.uuid /\ Page(c).name = c.name
                          /\ Page(c).evidence = c.evidence
  BY DEF RenderConceptPage
<1>7. \A c, d \in concepts : c.name = d.name \/ c.uuid = d.uuid => c = d
  <2>1. \A x, y \in Concepts : RelPath[x] = RelPath[y] => x = y
    BY ExportAssumption
  <2> QED BY <1>2, <1>3, <2>1 DEF ReadOnce
<1> HIDE DEF concepts, files, Page
<1>8. \A c \in DOMAIN since : \E f \in files : /\ f.uuid = c
                                               /\ f.name = since[c].name
                                               /\ since[c].evidence \subseteq f.evidence
  <2> SUFFICES ASSUME NEW c \in DOMAIN since
               PROVE \E f \in files : /\ f.uuid = c /\ f.name = since[c].name
                                      /\ since[c].evidence \subseteq f.evidence
    OBVIOUS
  <2>1. PICK x \in concepts : x.uuid = c /\ x.name = RelPath[c]
                              /\ since[c].evidence \subseteq x.evidence
    BY <1>2 DEF Holds
  <2>2. since[c].name = RelPath[c]
    BY DEF ExportInv, SinceOK
  <2> QED BY <1>5, <1>6, <2>1, <2>2
<1>9. RenderBundleIndex(concepts).name = Index /\ RenderBundleIndex(concepts).uuid = 0
      /\ \A c \in concepts : c.uuid # 0 /\ c.name # Index
  <2>1. \A c \in concepts : c.uuid # 0 /\ c.name.dir \in OKF_TYPE_DIRS
    BY <1>3, ExportAssumption DEF Names
  <2>2. Index.dir \notin OKF_TYPE_DIRS
    BY DEF Index, OKF_TYPE_DIRS
  <2> QED BY <2>1, <2>2 DEF RenderBundleIndex
<1>10. \A f, g \in files : f.name = g.name \/ f.uuid = g.uuid => f = g
  BY <1>5, <1>6, <1>7, <1>9
<1>11. \A link \in RenderBundleIndex(concepts).links :
          \E g \in files : Leads(RenderBundleIndex(concepts), link, g)
  <2> SUFFICES ASSUME NEW c \in concepts
               PROVE \E g \in files :
                        Leads(RenderBundleIndex(concepts), RelativeMarkdownLink(Index, c.name), g)
    BY DEF RenderBundleIndex
  <2>1. Leads(RenderBundleIndex(concepts), RelativeMarkdownLink(Index, c.name), Page(c))
    BY <1>6, <1>9 DEF Leads, RelativeMarkdownLink
  <2> QED BY <1>5, <2>1
<1>12. ASSUME NEW c \in concepts, NEW link \in Page(c).links \ {Canonical}
       PROVE  \E g \in files : Leads(Page(c), link, g)
  <2>1. link = ResolveTeamemLinks(c, paths)
    BY DEF Page, RenderConceptPage
  <2>2. c.link \in DOMAIN paths /\ link = RelativeMarkdownLink(c.name, paths[c.link])
    BY <2>1 DEF ResolveTeamemLinks
  <2>3. PICK d \in concepts : d.uuid = c.link /\ paths[c.link] = d.name
    BY <2>2 DEF PathsOf
  <2>4. Leads(Page(c), link, Page(d))
    BY <1>6, <2>2, <2>3 DEF Leads, RelativeMarkdownLink
  <2> QED BY <1>5, <2>4
<1> QED BY <1>4, <1>5, <1>8, <1>10, <1>11, <1>12

\* A download that succeeds is whole, in every project, with pages of every size and
\* names of every length: what was there at the request and not purged since is in it,
\* once, under its path and with its evidence, and no link leads nowhere; and no download
\* fails because two pages have one name (exportProject, renderOkfBundle, buildOkfTar).
THEOREM DownloadsAreWhole == ExportSpec => []DownloadIsWhole
<1>1. ExportInv => DownloadIsWhole
  BY WholeFromInv
<1> QED BY <1>1, ExportInvariant, PTL

\* What was read of a concept was cited when it was read, and evidence is read later.
SupportInv ==
  /\ \A c \in DOMAIN rows : rows[c].body \in cited[c]
  /\ \A p \in request.page :
       /\ p.uuid \in writes.created
       /\ p.uuid \in DOMAIN rows => p.body \in cited[p.uuid]
       /\ request.evidence # Canonical /\ p.uuid \in DOMAIN request.evidence.of =>
            p.body \in request.evidence.of[p.uuid]
  /\ PagesAreSupported

\* Writers only add evidence, and use no uuid again.
LEMMA SupportGrows ==
  ASSUME ExportInv, SupportInv, UNCHANGED <<request, bundle>>,
         writes.created \subseteq writes'.created,
         \A c \in DOMAIN rows' : rows'[c].body \in cited'[c],
         \A c \in DOMAIN rows' : c \in writes.created =>
             c \in DOMAIN rows /\ cited[c] \subseteq cited'[c]
  PROVE  SupportInv'
<1>1. \A p \in request.page : /\ p.uuid \in writes'.created
                          /\ p.uuid \in DOMAIN rows' => p.body \in cited'[p.uuid]
  BY DEF SupportInv
<1> QED BY <1>1 DEF SupportInv, PagesAreSupported

LEMMA SupportStep == ExportInv /\ SupportInv /\ [ExportNext]_exportVars => SupportInv'
<1> SUFFICES ASSUME ExportInv, SupportInv, [ExportNext]_exportVars PROVE SupportInv'
  OBVIOUS
<1>0. /\ DOMAIN cited = DOMAIN rows /\ DOMAIN rows \subseteq writes.created
      /\ cited \in [DOMAIN rows -> SUBSET (Citations \cup {0})]
      /\ rows \in [DOMAIN rows -> [at : Nat, body : Citations \cup {0}, link : Links]]
  BY DEF ExportInv, Tables
<1>1. CASE ClockTick
  BY <1>1, SupportGrows DEF ClockTick, SupportInv
<1>2. CASE PurgeProject
  <2>1. DOMAIN rows' = {} /\ writes'.created = writes.created /\ UNCHANGED <<request, bundle>>
    BY <1>2 DEF PurgeProject, ExportInv, Tables
  <2> QED BY <2>1, SupportGrows
<1>3. ASSUME NEW c \in Concepts, NEW link \in Links, Create(c, link) PROVE SupportInv'
  <2>1. PICK began \in 1 .. clock : rows' = Adding(rows, c, [at |-> began, body |-> 0, link |-> link])
    BY <1>3 DEF Create
  <2>2. /\ DOMAIN rows' = DOMAIN rows \cup {c} /\ rows'[c].body = 0 /\ cited'[c] = {0}
        /\ \A y \in DOMAIN rows : y # c => rows'[y] = rows[y] /\ cited'[y] = cited[y]
    BY <1>0, <1>3, <2>1 DEF Create, Adding
  <2>3. c \notin writes.created /\ writes'.created = writes.created \cup {c}
        /\ UNCHANGED <<request, bundle>>
    BY <1>3 DEF Create, ExportInv, Tables
  <2> QED BY <1>0, <2>2, <2>3, SupportGrows DEF SupportInv
<1>4. ASSUME NEW c \in Concepts, NEW link \in Links, NEW e \in Citations, Merge(c, e, link)
      PROVE  SupportInv'
  <2>1. /\ DOMAIN rows' = DOMAIN rows /\ rows'[c].body = e /\ cited'[c] = cited[c] \cup {e}
        /\ \A y \in DOMAIN rows : y # c => rows'[y].body = rows[y].body /\ cited'[y] = cited[y]
    BY <1>0, <1>4 DEF Merge
  <2>2. writes'.created = writes.created /\ UNCHANGED <<request, bundle>>
    BY <1>4 DEF Merge, ExportInv, Tables
  <2> QED BY <1>0, <2>1, <2>2, SupportGrows DEF SupportInv
<1>5. ASSUME NEW limit, NEW caller, NEW query, GetExport(caller, query, limit) PROVE SupportInv'
  <2>1. UNCHANGED <<tables, bundle>> /\ (request' = request \/ request'.page = {})
    BY <1>5 DEF GetExport, NoRequest
  <2> QED BY <2>1 DEF SupportInv, PagesAreSupported, tables
<1>6. CASE Probe
  <2>1. UNCHANGED tables /\ (bundle' = bundle \/ bundle'.concepts = {})
    BY <1>6 DEF Probe, NoBundle
  <2>2. \/ request'.page = {}
        \/ request'.page = request.page /\ request'.evidence = request.evidence
    BY <1>6 DEF Probe, NoRequest, ExportInv, RequestOK
  <2> QED BY <2>1, <2>2 DEF SupportInv, PagesAreSupported, tables
<1>7. CASE ReadConcepts
  <2>1. /\ UNCHANGED <<tables, bundle>> /\ request'.evidence = request.evidence
        /\ request.evidence = Canonical
    BY <1>7 DEF ReadConcepts, ExportInv, RequestOK
  <2> DEFINE left == {c \in DOMAIN rows : Beyond(c, request.cursor)}
             visible == FirstOf(left, Ordered(left), request.limit)
  <2>2. visible \subseteq DOMAIN rows
    BY DEF FirstOf
  <2>3. request'.page = {[uuid |-> c, at |-> rows[c].at, body |-> rows[c].body,
                          link |-> rows[c].link] : c \in visible}
    BY <1>7 DEF ReadConcepts, ExportInv, RequestOK
  <2> HIDE DEF visible
  <2>4. \A p \in request'.page : p.uuid \in DOMAIN rows /\ p.body = rows[p.uuid].body
    BY <2>2, <2>3
  <2> QED BY <1>0, <2>1, <2>4 DEF SupportInv, PagesAreSupported, tables
<1>8. CASE ReadPaths
  <2>1. /\ UNCHANGED <<tables, bundle>> /\ request'.evidence = request.evidence
        /\ request'.page = request.page
    BY <1>8 DEF ReadPaths, ExportInv, RequestOK
  <2> QED BY <2>1 DEF SupportInv, PagesAreSupported, tables
<1>9. CASE ReadEvidence
  <2>1. /\ UNCHANGED <<tables, bundle>> /\ request'.evidence.of = OfPage(cited)
        /\ request'.page = request.page /\ request.pc = "children"
    BY <1>9 DEF ReadEvidence, ExportInv, RequestOK
  <2>2. \A p \in request.page : p.uuid \in writes.created
    BY <2>1, ChildrenKnown DEF PageOf
  <2>3. \A p \in request.page : p.uuid \in DOMAIN OfPage(cited) => p.body \in OfPage(cited)[p.uuid]
    BY <1>0, <2>2 DEF OfPage, SupportInv
  <2> QED BY <2>1, <2>3 DEF SupportInv, PagesAreSupported, tables
<1>10. CASE TakePage
  <2>1. /\ UNCHANGED tables /\ request'.page = {} /\ request.evidence # Canonical
    BY <1>10 DEF TakePage, NoRequest
  <2>2. \A x \in bundle'.concepts : x \in bundle.concepts
          \/ \E row \in request.page : AssembleValidated(row) /\ x = Assembled(row)
    BY <1>10 DEF TakePage
  <2>3. \A row \in request.page :
           AssembleValidated(row) => Assembled(row).body \in Assembled(row).evidence
    BY <2>1 DEF AssembleValidated, Assembled, SupportInv
  <2>4. PagesAreSupported'
    BY <2>2, <2>3 DEF SupportInv, PagesAreSupported
  <2> QED BY <2>1, <2>4 DEF SupportInv, tables
<1>11. CASE WriteAuditRecord \/ ShowFeedback \/ SwitchProject \/ UNCHANGED exportVars
  <2>1. /\ UNCHANGED <<tables, bundle>> /\ request'.evidence = request.evidence
        /\ request'.page = request.page
    BY <1>11 DEF WriteAuditRecord, ShowFeedback, SwitchProject, exportVars, tables, ExportInv, RequestOK
  <2> QED BY <2>1 DEF SupportInv, PagesAreSupported, tables
<1> QED
  BY <1>1, <1>2, <1>3, <1>4, <1>5, <1>6, <1>7, <1>8, <1>9, <1>10, <1>11
  DEF ExportNext, Download, Request

\* A page of a download cites the event its body comes from, in every interleaving of
\* its three statements with the writers (exportProject, assembleValidated).
THEOREM PagesCiteTheirBody == ExportSpec => []PagesAreSupported
<1>1. ExportInit => SupportInv
  <2> SUFFICES ASSUME ExportInit PROVE SupportInv
    OBVIOUS
  <2>1. DOMAIN rows = {} /\ request.page = {} /\ bundle.concepts = {}
    BY DEF ExportInit, NoRequest, NoBundle
  <2> QED BY <2>1 DEF SupportInv, PagesAreSupported
<1>2. ExportInv /\ SupportInv /\ [ExportNext]_exportVars => SupportInv'
  BY SupportStep
<1>3. SupportInv => PagesAreSupported
  BY DEF SupportInv
<1> QED BY <1>1, <1>2, <1>3, ExportInvariant, PTL DEF ExportSpec

----------------------------------------------------------------------------
(* Induction and recursion                                                  *)

\* What holds of 0 and of every successor holds up to N: the property is a set, and the
\* least number that is not in it has no smaller one.
LEMMA UpTo ==
  ASSUME NEW N \in Nat, NEW P, 0 \in P, \A n \in 0 .. N - 1 : n \in P => n + 1 \in P
  PROVE  \A n \in 0 .. N : n \in P
<1> DEFINE outside == {n \in 0 .. N : n \notin P}
           order == {p \in outside \X outside : p[1] < p[2]}
<1> SUFFICES ASSUME outside # {} PROVE FALSE
  OBVIOUS
<1>1. IsFiniteSet(outside)
  <2>1. IsFiniteSet(0 .. N) /\ outside \in SUBSET (0 .. N)
    BY FS_Interval
  <2> HIDE DEF outside
  <2> QED BY <2>1, FS_Subset
<1>2. outside \subseteq Int
  OBVIOUS
<1>3. \A x \in outside, y \in outside : <<x, y>> \in order <=> x < y
  <2> HIDE DEF outside
  <2> QED OBVIOUS
<1>4. Orders(order, outside)
  <2> HIDE DEF outside, order
  <2> QED BY <1>2, <1>3 DEF Orders
<1>5. Cardinality(outside) \in Nat \ {0}
  <2> HIDE DEF outside
  <2> QED BY <1>1, FS_CardinalityType, FS_EmptySet
<1>6. PICK x \in outside : Cardinality(Ahead(outside, order, x)) = 0
  <2> HIDE DEF outside, order
  <2>1. 0 \in 0 .. Cardinality(outside) - 1
    BY <1>5
  <2> QED BY <1>1, <1>4, <2>1, RanksTell
<1>7. Ahead(outside, order, x) = {}
  <2>1. IsFiniteSet(Ahead(outside, order, x))
    <3> HIDE DEF outside, order
    <3> QED BY <1>1, <1>4, RanksTell
  <2> HIDE DEF outside, order
  <2> QED BY <1>6, <2>1, FS_EmptySet
<1>8. \A y \in outside : ~(y < x)
  <2> HIDE DEF outside, order
  <2> QED BY <1>3, <1>7 DEF Ahead
<1>9. x \in 1 .. N /\ x - 1 \notin outside
  <2>1. x \in 0 .. N /\ x # 0
    OBVIOUS
  <2>2. x - 1 < x
    BY <2>1
  <2> HIDE DEF outside
  <2> QED BY <1>8, <2>1, <2>2
<1> QED BY <1>9

Steps(step, N, A) == \A x \in A, n \in 1 .. N : step[<<x, n>>] \in A

Follows(f, base, step, N) == f[0] = base /\ \A n \in 1 .. N : f[n] = step[<<f[n - 1], n>>]

\* A function may be defined by what it is at 0 and by a step from each number to the
\* next.
LEMMA StepByStep ==
  ASSUME NEW A, NEW base \in A, NEW N \in Nat, NEW step, Steps(step, N, A)
  PROVE  \E f \in [0 .. N -> A] : Follows(f, base, step, N)
<1> DEFINE Is(f, m) == /\ f \in [0 .. m -> A] /\ f[0] = base
                       /\ \A n \in 1 .. m : f[n] = step[<<f[n - 1], n>>]
           P == {m \in 0 .. N : \E f : Is(f, m)}
<1>1. 0 \in P
  <2> DEFINE f == [n \in 0 .. 0 |-> base]
  <2>1. f \in [0 .. 0 -> A] /\ f[0] = base
    OBVIOUS
  <2>2. \A n \in 1 .. 0 : FALSE
    OBVIOUS
  <2>3. Is(f, 0)
    <3> HIDE DEF f
    <3> QED BY <2>1, <2>2
  <2>4. 0 \in 0 .. N
    OBVIOUS
  <2> HIDE DEF f
  <2> QED BY <2>3, <2>4
<1>2. ASSUME NEW m \in 0 .. N - 1, m \in P PROVE m + 1 \in P
  <2>1. PICK f : Is(f, m)
    BY <1>2
  <2> DEFINE next == step[<<f[m], m + 1>>]
             g == [n \in 0 .. m + 1 |-> IF n = m + 1 THEN next ELSE f[n]]
  <2>2. m \in 0 .. m /\ m + 1 \in 1 .. N /\ m + 1 \in 0 .. N
    OBVIOUS
  <2>3. f[m] \in A
    BY <2>1, <2>2
  <2>4. next \in A
    BY <2>2, <2>3 DEF Steps
  <2>5. \A n \in 0 .. m : g[n] = f[n] /\ f[n] \in A
    BY <2>1
  <2>6. g[m + 1] = next
    OBVIOUS
  <2>7. g \in [0 .. m + 1 -> A]
    <3>1. \A n \in 0 .. m + 1 : n = m + 1 \/ n \in 0 .. m
      OBVIOUS
    <3>2. \A n \in 0 .. m + 1 : (IF n = m + 1 THEN next ELSE f[n]) \in A
      <4> HIDE DEF next
      <4> QED BY <2>4, <2>5, <3>1
    <3> HIDE DEF next
    <3> QED BY <3>2
  <2>8. \A n \in 1 .. m + 1 : g[n] = step[<<g[n - 1], n>>]
    <3> SUFFICES ASSUME NEW n \in 1 .. m + 1 PROVE g[n] = step[<<g[n - 1], n>>]
      OBVIOUS
    <3>1. n - 1 \in 0 .. m
      OBVIOUS
    <3>2. g[n - 1] = f[n - 1]
      BY <2>5, <3>1
    <3>3. CASE n = m + 1
      <4>1. n - 1 = m /\ g[n] = next
        BY <2>6, <3>3
      <4> HIDE DEF g
      <4> QED BY <3>2, <3>3, <4>1
    <3>4. CASE n \in 1 .. m
      BY <2>1, <2>5, <3>2, <3>4
    <3> QED BY <3>3, <3>4
  <2>9. g[0] = base
    BY <2>1, <2>5
  <2> HIDE DEF g
  <2> QED BY <2>2, <2>7, <2>8, <2>9
<1>3. \A m \in 0 .. N : m \in P
  <2> HIDE DEF P
  <2> QED BY <1>1, <1>2, UpTo
<1>4. N \in P
  <2> HIDE DEF P
  <2> QED BY <1>3
<1> QED BY <1>4 DEF Follows

----------------------------------------------------------------------------
(* The digest                                                               *)

\* An estimate covers the text, and none that covers it is smaller.
LEMMA Tokens ==
  /\ \A x \in Nat : /\ ApproxTokenCount(x) \in Nat
                    /\ x <= CHARS_PER_TOKEN * ApproxTokenCount(x)
  /\ \A x \in Nat, b \in Nat : x <= CHARS_PER_TOKEN * b => ApproxTokenCount(x) <= b
<1> DEFINE d == CHARS_PER_TOKEN
<1>0. d \in Nat \ {0}
  BY RetrievalAssumption
<1>1. \A x \in Nat : /\ (x + d - 1) \div d \in Nat
                     /\ d * ((x + d - 1) \div d) <= x + d - 1
                     /\ x + d - 1 < d * ((x + d - 1) \div d) + d
  <2> HIDE DEF d
  <2> SUFFICES ASSUME NEW x \in Nat
               PROVE  /\ (x + d - 1) \div d \in Nat
                      /\ d * ((x + d - 1) \div d) <= x + d - 1
                      /\ x + d - 1 < d * ((x + d - 1) \div d) + d
    OBVIOUS
  <2>1. x + d - 1 \in Nat
    BY <1>0
  <2>2. \A a \in Nat : /\ a \div d \in Int
                       /\ d * (a \div d) <= a
                       /\ a < d * (a \div d) + d
    BY <1>0
  <2>3. \A a \in Nat : a \div d \in Nat
    BY <1>0
  <2> QED BY <2>1, <2>2, <2>3
<1>2. \A x \in Nat : ApproxTokenCount(x) = (x + d - 1) \div d
  BY DEF ApproxTokenCount
<1>3. \A x \in Nat : x <= d * ApproxTokenCount(x) /\ d * ApproxTokenCount(x) <= x + d - 1
  <2> HIDE DEF d
  <2> SUFFICES ASSUME NEW x \in Nat
               PROVE  x <= d * ApproxTokenCount(x) /\ d * ApproxTokenCount(x) <= x + d - 1
    OBVIOUS
  <2> DEFINE q == (x + d - 1) \div d
  <2>1. q \in Nat /\ d * q <= x + d - 1 /\ x + d - 1 < d * q + d
    BY <1>1
  <2>2. d * q \in Int
    <3> HIDE DEF q
    <3> QED BY <1>0, <2>1
  <2>3. ApproxTokenCount(x) = q
    BY <1>2
  <2> HIDE DEF q
  <2>4. x <= d * q
    <3> DEFINE z == d * q
    <3>1. z \in Int /\ x + d - 1 < z + d
      BY <2>1, <2>2
    <3> HIDE DEF z
    <3>2. x <= z
      BY <1>0, <3>1
    <3> QED BY <3>2 DEF z
  <2> QED BY <2>1, <2>3, <2>4
<1>4. \A x \in Nat, b \in Nat : x <= d * b => ApproxTokenCount(x) <= b
  <2> HIDE DEF d
  <2> SUFFICES ASSUME NEW x \in Nat, NEW b \in Nat, x <= d * b PROVE ApproxTokenCount(x) <= b
    OBVIOUS
  <2>1. ApproxTokenCount(x) \in Nat
    BY <1>1, <1>2
  <2> DEFINE q == ApproxTokenCount(x)
  <2>2. d * q <= x + d - 1
    BY <1>3
  <2> HIDE DEF q
  <2>3. q \in Nat
    BY <2>1 DEF q
  <2>4. SUFFICES ASSUME b + 1 <= q PROVE FALSE
    BY <2>3 DEF q
  <2>5. d * (b + 1) <= d * q
    BY <1>0, <2>3, <2>4
  <2>6. d * (b + 1) = d * b + d
    BY <1>0
  <2>7. d * b \in Int /\ d * q \in Int
    BY <1>0, <2>3
  <2> DEFINE y == d * b
             z == d * q
  <2>8. y \in Int /\ z \in Int /\ x <= y /\ z <= x + d - 1 /\ y + d <= z
    BY <2>2, <2>5, <2>6, <2>7
  <2> HIDE DEF y, z
  <2> QED BY <1>0, <2>8
<1> QED BY <1>1, <1>2, <1>3, <1>4

ContextRows == [Found -> [confidence : {"high", "medium", "low"}, when : 0 .. 1,
                          length : Lengths, summary : Summaries]]

\* The rows come in the order of the query, each not of low confidence once.
LEMMA OrderOfRows ==
  ASSUME NEW entries \in ContextRows, NEW these, these = Listed(entries),
         NEW ordered, ordered = FetchContextConcepts(entries)
  PROVE  /\ ordered \in Seq(these)
         /\ Len(ordered) = Cardinality(these)
         /\ \A i \in 1 .. Len(ordered), c \in these :
              GoesFirst(entries, c, ordered[i]) <=> \E j \in 1 .. i - 1 : ordered[j] = c
<1> DEFINE order == ByConfidence(entries, these)
           rank(c) == Cardinality(Ahead(these, order, c))
           K == Cardinality(these)
<1>1. these \subseteq Found /\ Found \subseteq Nat /\ IsFiniteSet(these)
  <2>1. these \subseteq Found /\ Found \subseteq Nat /\ IsFiniteSet(Found)
    BY RetrievalAssumption DEF Listed
  <2> QED BY <2>1, FS_Subset
<1>2. \A a \in these, b \in these : <<a, b>> \in order <=> GoesFirst(entries, a, b)
  BY DEF ByConfidence
<1>3. \A c \in these : Level(entries[c].confidence) \in Int /\ entries[c].when \in Int /\ c \in Int
  <2> SUFFICES ASSUME NEW c \in these
               PROVE  Level(entries[c].confidence) \in Int /\ entries[c].when \in Int /\ c \in Int
    OBVIOUS
  <2>1. entries[c].confidence \in {"high", "medium", "low"} /\ entries[c].when \in 0 .. 1
    BY <1>1 DEF ContextRows
  <2>2. Level(entries[c].confidence) \in Int
    BY <2>1 DEF Level
  <2>3. entries[c].when \in Int
    BY <2>1
  <2>4. c \in Int
    <3>1. c \in Nat
      BY <1>1
    <3> QED BY <3>1
  <2> QED BY <2>2, <2>3, <2>4
<1>4. Orders(order, these)
  <2>1. \A a \in these, b \in these : a # b => GoesFirst(entries, a, b) \/ GoesFirst(entries, b, a)
    BY <1>3 DEF GoesFirst
  <2>2. \A a \in these : ~GoesFirst(entries, a, a)
    BY <1>3 DEF GoesFirst
  <2>3. \A a \in these, b \in these, c \in these :
          GoesFirst(entries, a, b) /\ GoesFirst(entries, b, c) => GoesFirst(entries, a, c)
    BY <1>3 DEF GoesFirst
  <2> HIDE DEF order
  <2> QED BY <1>2, <2>1, <2>2, <2>3 DEF Orders
<1>5. K \in Nat
  BY <1>1, FS_CardinalityType
<1>6. /\ \A c \in these : rank(c) \in 0 .. K - 1
      /\ \A a \in these, b \in these : <<a, b>> \in order => rank(a) < rank(b)
      /\ \A n \in 0 .. K - 1 : \E c \in these : rank(c) = n
  <2> HIDE DEF order
  <2> QED BY <1>1, <1>4, RanksTell, ZenonT(60)
<1>7. ordered = [i \in 1 .. K |-> CHOOSE c \in these : rank(c) = i - 1]
  BY DEF FetchContextConcepts
<1> HIDE DEF order, rank
<1>8. \A i \in 1 .. K : ordered[i] \in these /\ rank(ordered[i]) = i - 1
  <2> SUFFICES ASSUME NEW i \in 1 .. K PROVE ordered[i] \in these /\ rank(ordered[i]) = i - 1
    OBVIOUS
  <2>1. i - 1 \in 0 .. K - 1
    BY <1>5
  <2>2. \E c \in these : rank(c) = i - 1
    BY <1>6, <2>1
  <2>3. ordered[i] = CHOOSE c \in these : rank(c) = i - 1
    BY <1>7
  <2> QED BY <2>2, <2>3
<1>9. ordered \in Seq(these) /\ Len(ordered) = K
  <2>1. ordered \in [1 .. K -> these]
    <3>1. ordered = [i \in 1 .. K |-> ordered[i]]
      BY <1>7
    <3> QED BY <1>8, <3>1
  <2> QED BY <1>5, <2>1
<1>10. ASSUME NEW i \in 1 .. K, NEW c \in these
       PROVE  GoesFirst(entries, c, ordered[i]) <=> \E j \in 1 .. i - 1 : ordered[j] = c
  <2> DEFINE x == ordered[i]
  <2>1. x \in these /\ rank(x) = i - 1
    BY <1>8, <1>10
  <2>2. GoesFirst(entries, c, x) <=> rank(c) < i - 1
    <3>1. c = x \/ <<c, x>> \in order \/ <<x, c>> \in order
      BY <1>4, <2>1 DEF Orders
    <3>2. \A a \in these : rank(a) \in Int
      BY <1>6
    <3>3. <<c, x>> \in order => rank(c) < i - 1
      BY <1>6, <2>1
    <3>4. <<x, c>> \in order => ~(rank(c) < i - 1)
      BY <1>6, <2>1, <3>2
    <3>5. GoesFirst(entries, c, x) <=> <<c, x>> \in order
      BY <1>2, <2>1
    <3>6. <<x, x>> \notin order
      BY <1>4, <2>1 DEF Orders
    <3> HIDE DEF x
    <3> QED BY <2>1, <3>1, <3>2, <3>3, <3>4, <3>5, <3>6
  <2>3. rank(c) < i - 1 <=> \E j \in 1 .. i - 1 : ordered[j] = c
    <3>1. ASSUME rank(c) < i - 1 PROVE \E j \in 1 .. i - 1 : ordered[j] = c
      <4> DEFINE j == rank(c) + 1
      <4>1. rank(c) \in 0 .. K - 1
        BY <1>6
      <4>2. j \in 1 .. i - 1 /\ j \in 1 .. K /\ j - 1 = rank(c)
        BY <3>1, <4>1, <1>10, <1>5
      <4>3. ordered[j] \in these /\ rank(ordered[j]) = rank(c)
        <5> HIDE DEF j
        <5> QED BY <1>8, <4>2
      <4>4. ordered[j] = c
        <5> DEFINE y == ordered[j]
        <5>1. y \in these /\ rank(y) = rank(c) /\ rank(c) \in Int
          BY <4>1, <4>3
        <5> HIDE DEF y
        <5>2. <<c, y>> \notin order /\ <<y, c>> \notin order
          BY <1>6, <5>1
        <5>3. y = c
          BY <1>4, <5>1, <5>2 DEF Orders
        <5> QED BY <5>3 DEF y
      <4> HIDE DEF j
      <4> QED BY <4>2, <4>4
    <3>2. ASSUME NEW j \in 1 .. i - 1, ordered[j] = c PROVE rank(c) < i - 1
      <4>1. j \in 1 .. K
        BY <1>5, <1>10
      <4>2. rank(c) = j - 1
        BY <1>8, <3>2, <4>1
      <4> QED BY <4>2
    <3> QED BY <3>1, <3>2
  <2> HIDE DEF x
  <2> QED BY <2>2, <2>3 DEF x
<1> QED BY <1>9, <1>10

Line == [kind : {"heading", "type", "text", "rule", "link"}, id : Found \cup {0}]

Assembly == [lines : Seq(Line), budgetUsed : Nat, included : Nat, full : BOOLEAN]

\* The lines of m entries: four each, and a separator between two.
EntryLines(lines, ordered, m) ==
  /\ Len(lines) = IF m = 0 THEN 0 ELSE 5 * m - 1
  /\ \A j \in 1 .. m : /\ lines[5 * j - 4].kind = "heading" /\ lines[5 * j - 4].id = ordered[j]
                       /\ lines[5 * j - 3].kind = "type"
                       /\ lines[5 * j - 2].kind \in Summaries
                       /\ lines[5 * j - 1].kind = "link" /\ lines[5 * j - 1].id = ordered[j]
  /\ \A j \in 1 .. m - 1 : lines[5 * j].kind = "rule"

\* The lengths of the text up to an entry.
Lengthens(total, ordered, entries) ==
  /\ total \in [0 .. Len(ordered) -> Nat]
  /\ total[0] = HEADER
  /\ \A n \in 1 .. Len(ordered) :
       total[n] = total[n - 1] + (IF n > 1 THEN RULE ELSE 0) + entries[ordered[n]].length

\* After n of the rows.
EntriesGood(a, ordered, total, n) ==
  /\ a \in Assembly
  /\ a.included \in 0 .. n
  /\ ~a.full => a.included = n
  /\ EntryLines(a.lines, ordered, a.included)
  /\ total[a.included] <= CHARS_PER_TOKEN * a.budgetUsed
  /\ a.included > 0 => a.budgetUsed <= TOKEN_BUDGET

LEMMA Joined ==
  ASSUME NEW S, NEW s \in Seq(S), NEW t \in Seq(S)
  PROVE  /\ s \o t \in Seq(S) /\ Len(s \o t) = Len(s) + Len(t)
         /\ Len(s) \in Nat /\ Len(t) \in Nat
         /\ \A i \in 1 .. Len(s) : (s \o t)[i] = s[i]
         /\ \A i \in 1 .. Len(t) : (s \o t)[Len(s) + i] = t[i]
OBVIOUS

LEMMA EntryAppended ==
  ASSUME NEW entries \in ContextRows, NEW ordered \in Seq(Found), NEW total,
         Lengthens(total, ordered, entries), NEW n \in 1 .. Len(ordered), NEW a,
         EntriesGood(a, ordered, total, n - 1)
  PROVE  EntriesGood(WithEntry(a, ordered[n], entries[ordered[n]]), ordered, total, n)
<1> DEFINE c == ordered[n]
           row == entries[c]
           m == a.included
<1>1. c \in Found /\ row.length \in Nat /\ row.summary \in Summaries
  <2>1. c \in Found
    OBVIOUS
  <2>2. row.length \in Lengths /\ row.summary \in Summaries
    BY <2>1 DEF ContextRows
  <2>3. Lengths \subseteq Nat
    BY RetrievalAssumption
  <2> QED BY <2>1, <2>2, <2>3
<1>2. a \in Assembly /\ m \in 0 .. n - 1 /\ a.budgetUsed \in Nat /\ a.lines \in Seq(Line)
  BY DEF EntriesGood, Assembly
<1>3. CHARS_PER_TOKEN \in Nat \ {0} /\ TOKEN_BUDGET \in Nat
  BY RetrievalAssumption
<1>4. CASE a.full \/ a.budgetUsed + Chunk(a, row) > TOKEN_BUDGET
  <2>1. WithEntry(a, c, row) = [a EXCEPT !.full = TRUE]
    BY <1>4 DEF WithEntry
  <2> DEFINE b == [a EXCEPT !.full = TRUE]
  <2>2. /\ b \in Assembly /\ b.full = TRUE /\ b.included = a.included
        /\ b.lines = a.lines /\ b.budgetUsed = a.budgetUsed
    BY <1>2 DEF Assembly
  <2>3. b.included \in 0 .. n
    BY <1>2, <2>2
  <2> HIDE DEF b
  <2>4. EntriesGood(b, ordered, total, n)
    BY <2>2, <2>3 DEF EntriesGood
  <2> QED BY <2>1, <2>4 DEF b
<1>5. CASE ~(a.full \/ a.budgetUsed + Chunk(a, row) > TOKEN_BUDGET)
  <2>1. m = n - 1
    BY <1>5 DEF EntriesGood
  <2> DEFINE more == Separator(a) \o RenderConceptEntry(c, row)
             lines == a.lines \o Separator(a) \o RenderConceptEntry(c, row)
             chars == (IF m > 0 THEN RULE ELSE 0) + row.length
             spent == a.budgetUsed + Chunk(a, row)
             b == [lines |-> lines, budgetUsed |-> spent, included |-> m + 1, full |-> FALSE]
  <2>2. WithEntry(a, c, row) = b
    BY <1>5 DEF WithEntry
  <2>3. /\ chars \in Nat /\ Chunk(a, row) = ApproxTokenCount(chars)
    BY <1>1, <1>2 DEF Chunk, RULE
  <2>4. Chunk(a, row) \in Nat /\ chars <= CHARS_PER_TOKEN * Chunk(a, row)
    <3> HIDE DEF chars
    <3> QED BY <2>3, Tokens
  <2>5. spent \in Nat /\ spent <= TOKEN_BUDGET
    BY <1>2, <1>3, <1>5, <2>4
  <2>6. total[m + 1] <= CHARS_PER_TOKEN * spent
    <3>1. total[n] = total[n - 1] + chars /\ total[n - 1] \in Nat
      <4>1. n > 1 <=> m > 0
        BY <2>1
      <4>2. n - 1 \in 0 .. Len(ordered)
        OBVIOUS
      <4> DEFINE gap == IF m > 0 THEN RULE ELSE 0
      <4>3. total[n] = total[n - 1] + gap + row.length /\ total[n - 1] \in Nat
        BY <4>1, <4>2 DEF Lengthens
      <4>4. gap \in Nat
        BY DEF RULE
      <4>5. chars = gap + row.length
        OBVIOUS
      <4> HIDE DEF gap, chars, row
      <4> QED BY <1>1, <4>3, <4>4, <4>5
    <3>2. total[n - 1] <= CHARS_PER_TOKEN * a.budgetUsed
      BY <2>1 DEF EntriesGood
    <3> DEFINE k == Chunk(a, row)
               u == a.budgetUsed
               d == CHARS_PER_TOKEN
    <3>3. k \in Nat /\ u \in Nat /\ d \in Nat
      BY <1>2, <1>3, <2>4
    <3> HIDE DEF k, u, d, chars
    <3>4. d * (u + k) = d * u + d * k /\ d * u \in Int /\ d * k \in Int
      BY <3>3
    <3>5. total[n - 1] <= d * u /\ chars <= d * k
      BY <2>4, <3>2 DEF k, u, d
    <3> DEFINE x == d * u
               y == d * k
    <3>6. x \in Int /\ y \in Int /\ total[n - 1] <= x /\ chars <= y /\ d * (u + k) = x + y
      BY <3>4, <3>5
    <3> HIDE DEF x, y
    <3>7. total[n] <= d * (u + k)
      BY <2>3, <3>1, <3>6
    <3> QED BY <2>1, <3>7 DEF k, u, d
  <2>7. lines \in Seq(Line) /\ EntryLines(lines, ordered, m + 1)
    <3> DEFINE sep == Separator(a)
               entry == RenderConceptEntry(c, row)
               k == Len(sep)
               L == Len(a.lines)
    <3>1. /\ sep \in Seq(Line) /\ k = (IF m > 0 THEN 1 ELSE 0)
          /\ m > 0 => sep[1].kind = "rule"
      <4>1. << >> \in Seq(Line) /\ Len(<< >>) = 0
        OBVIOUS
      <4>2. CASE m > 0
        <5> DEFINE rule == [kind |-> "rule", id |-> 0]
        <5>1. rule \in Line /\ rule.kind = "rule"
          BY DEF Line
        <5>2. sep = <<rule>>
          BY <4>2 DEF Separator
        <5> HIDE DEF rule, sep
        <5>3. <<rule>> \in Seq(Line) /\ Len(<<rule>>) = 1 /\ <<rule>>[1] = rule
          BY <5>1
        <5> QED BY <4>2, <5>1, <5>2, <5>3
      <4>3. CASE ~(m > 0)
        <5>1. sep = << >>
          BY <4>3 DEF Separator
        <5> HIDE DEF sep
        <5> QED BY <4>1, <4>3, <5>1
      <4> QED BY <4>2, <4>3
    <3>2. /\ entry \in Seq(Line) /\ Len(entry) = 4
          /\ entry[1].kind = "heading" /\ entry[1].id = c /\ entry[2].kind = "type"
          /\ entry[3].kind \in Summaries /\ entry[4].kind = "link" /\ entry[4].id = c
      BY <1>1 DEF RenderConceptEntry, Line, Summaries
    <3> HIDE DEF sep, entry
    <3>3. L \in Nat /\ L = IF m = 0 THEN 0 ELSE 5 * m - 1
      BY <1>2 DEF EntriesGood, EntryLines
    <3>4. L + k = 5 * m
      BY <1>2, <3>1, <3>3
    <3> DEFINE front == a.lines \o sep
    <3>5. /\ front \in Seq(Line) /\ Len(front) = 5 * m
          /\ \A i \in 1 .. L : front[i] = a.lines[i]
          /\ m > 0 => front[5 * m] = sep[1]
      <4>1. /\ front \in Seq(Line) /\ Len(front) = L + k
            /\ \A i \in 1 .. L : front[i] = a.lines[i]
            /\ \A i \in 1 .. k : front[L + i] = sep[i]
        <5> DEFINE s == a.lines
        <5>1. s \in Seq(Line) /\ sep \in Seq(Line)
          BY <1>2, <3>1
        <5> HIDE DEF s
        <5>2. /\ s \o sep \in Seq(Line) /\ Len(s \o sep) = Len(s) + Len(sep)
              /\ \A i \in 1 .. Len(s) : (s \o sep)[i] = s[i]
              /\ \A i \in 1 .. Len(sep) : (s \o sep)[Len(s) + i] = sep[i]
          BY <5>1, Joined
        <5> QED BY <5>2 DEF s
      <4> HIDE DEF front, k, L, m
      <4>3. ASSUME m > 0 PROVE front[5 * m] = sep[1]
        <5>1. k = 1 /\ 5 * m = L + 1
          BY <3>1, <3>3, <3>4, <4>3 DEF k
        <5> QED BY <4>1, <5>1
      <4> QED BY <3>4, <4>1, <4>3
    <3> DEFINE all == front \o entry
    <3>6. all = lines
      BY DEF sep, entry
    <3> HIDE DEF front, lines
    <3>7. /\ all \in Seq(Line) /\ Len(all) = 5 * m + 4
          /\ \A i \in 1 .. 5 * m : all[i] = front[i]
          /\ \A i \in 1 .. 4 : all[5 * m + i] = entry[i]
      <4> DEFINE t == 5 * m
      <4>1. t \in Nat /\ Len(front) = t /\ front \in Seq(Line)
        BY <1>2, <3>5
      <4> HIDE DEF t
      <4>2. /\ all \in Seq(Line) /\ Len(all) = Len(front) + Len(entry)
            /\ \A i \in 1 .. Len(front) : all[i] = front[i]
            /\ \A i \in 1 .. Len(entry) : all[Len(front) + i] = entry[i]
        <5>1. front \in Seq(Line) /\ entry \in Seq(Line)
          BY <3>2, <4>1
        <5>2. /\ front \o entry \in Seq(Line) /\ Len(front \o entry) = Len(front) + Len(entry)
              /\ \A i \in 1 .. Len(front) : (front \o entry)[i] = front[i]
              /\ \A i \in 1 .. Len(entry) : (front \o entry)[Len(front) + i] = entry[i]
          BY <5>1, Joined
        <5> QED BY <5>2
      <4> HIDE DEF all
      <4> QED BY <3>2, <4>1, <4>2 DEF t
    <3> HIDE DEF all, L, k
    <3>8. ASSUME NEW j \in 1 .. m + 1
          PROVE  /\ all[5 * j - 4].kind = "heading" /\ all[5 * j - 4].id = ordered[j]
                 /\ all[5 * j - 3].kind = "type"
                 /\ all[5 * j - 2].kind \in Summaries
                 /\ all[5 * j - 1].kind = "link" /\ all[5 * j - 1].id = ordered[j]
      <4>1. CASE j = m + 1
        <5>1. 5 * j - 4 = 5 * m + 1 /\ 5 * j - 3 = 5 * m + 2 /\ 5 * j - 2 = 5 * m + 3
              /\ 5 * j - 1 = 5 * m + 4 /\ ordered[j] = c
          BY <1>2, <2>1, <4>1
        <5>2. /\ all[5 * m + 1] = entry[1] /\ all[5 * m + 2] = entry[2]
              /\ all[5 * m + 3] = entry[3] /\ all[5 * m + 4] = entry[4]
          BY <3>7
        <5> QED BY <3>2, <5>1, <5>2
      <4>2. CASE j \in 1 .. m
        <5>1. L = 5 * m - 1 /\ \A i \in {5 * j - 4, 5 * j - 3, 5 * j - 2, 5 * j - 1} :
                i \in 1 .. L /\ i \in 1 .. 5 * m
          BY <1>2, <3>3, <4>2, SMTT(30)
        <5>2. \A i \in {5 * j - 4, 5 * j - 3, 5 * j - 2, 5 * j - 1} : all[i] = a.lines[i]
          BY <3>5, <3>7, <5>1
        <5>3. EntryLines(a.lines, ordered, m)
          BY DEF EntriesGood
        <5>4. /\ a.lines[5 * j - 4].kind = "heading" /\ a.lines[5 * j - 4].id = ordered[j]
              /\ a.lines[5 * j - 3].kind = "type" /\ a.lines[5 * j - 2].kind \in Summaries
              /\ a.lines[5 * j - 1].kind = "link" /\ a.lines[5 * j - 1].id = ordered[j]
          BY <4>2, <5>3 DEF EntryLines
        <5> QED BY <5>2, <5>4
      <4> QED BY <1>2, <4>1, <4>2
    <3>9. ASSUME NEW j \in 1 .. m PROVE all[5 * j].kind = "rule"
      <4>1. 5 * j \in 1 .. 5 * m
        BY <1>2
      <4>2. CASE j = m
        <5>1. m > 0 /\ all[5 * m] = front[5 * m]
          <6>1. m > 0
            BY <1>2, <4>2
          <6> QED BY <3>7, <4>1, <4>2, <6>1
        <5> QED BY <3>1, <3>5, <4>2, <5>1
      <4>3. CASE j \in 1 .. m - 1
        <5>1. 5 * j \in 1 .. L
          BY <1>2, <3>3, <4>3
        <5>2. EntryLines(a.lines, ordered, m)
          BY DEF EntriesGood
        <5>3. a.lines[5 * j].kind = "rule"
          BY <4>3, <5>2 DEF EntryLines
        <5> QED BY <3>5, <3>7, <4>1, <5>1, <5>3
      <4> QED BY <1>2, <4>2, <4>3
    <3>10. Len(all) = (IF m + 1 = 0 THEN 0 ELSE 5 * (m + 1) - 1) /\ (m + 1) - 1 = m
      <4>1. 5 * (m + 1) - 1 = 5 * m + 4 /\ m + 1 # 0 /\ (m + 1) - 1 = m
        BY <1>2
      <4> QED BY <3>7, <4>1
    <3> QED BY <3>6, <3>7, <3>8, <3>9, <3>10 DEF EntryLines
  <2>8. b \in Assembly
    <3> HIDE DEF lines, spent
    <3> QED BY <1>2, <2>5, <2>7 DEF Assembly
  <2>9. /\ b.lines = lines /\ b.included = m + 1 /\ b.budgetUsed = spent /\ b.full = FALSE
        /\ m + 1 = n /\ m + 1 \in 0 .. n
    <3>1. m + 1 = n /\ m + 1 \in 0 .. n
      BY <1>2, <2>1
    <3> HIDE DEF lines, spent, m
    <3> QED BY <3>1
  <2> HIDE DEF b, lines, spent
  <2>10. EntriesGood(b, ordered, total, n)
    BY <2>5, <2>6, <2>7, <2>8, <2>9 DEF EntriesGood
  <2> QED BY <2>2, <2>10
<1> QED BY <1>4, <1>5

LEMMA AssemblyType ==
  ASSUME NEW a \in Assembly, NEW c \in Found,
         NEW row \in [confidence : {"high", "medium", "low"}, when : 0 .. 1,
                      length : Lengths, summary : Summaries]
  PROVE  WithEntry(a, c, row) \in Assembly
<1>1. a.lines \in Seq(Line) /\ a.budgetUsed \in Nat /\ a.included \in Nat
  BY DEF Assembly
<1>2. [a EXCEPT !.full = TRUE] \in Assembly
  BY DEF Assembly
<1>3. Separator(a) \in Seq(Line)
  <2>1. << >> \in Seq(Line)
    OBVIOUS
  <2>2. <<[kind |-> "rule", id |-> 0]>> \in Seq(Line)
    BY DEF Line
  <2> QED BY <2>1, <2>2 DEF Separator
<1>4. RenderConceptEntry(c, row) \in Seq(Line)
  BY DEF RenderConceptEntry, Line, Summaries
<1>5. a.lines \o Separator(a) \o RenderConceptEntry(c, row) \in Seq(Line)
  BY <1>1, <1>3, <1>4
<1>6. Chunk(a, row) \in Nat
  <2> DEFINE chars == (IF a.included > 0 THEN RULE ELSE 0) + row.length
  <2>1. row.length \in Nat
    <3>1. row.length \in Lengths /\ Lengths \subseteq Nat
      BY RetrievalAssumption
    <3> QED BY <3>1
  <2>2. chars \in Nat
    BY <2>1 DEF RULE
  <2>3. ApproxTokenCount(chars) \in Nat
    <3> HIDE DEF chars
    <3> QED BY <2>2, Tokens
  <2> QED BY <2>3 DEF Chunk
<1> DEFINE lines == a.lines \o Separator(a) \o RenderConceptEntry(c, row)
           chunk == Chunk(a, row)
           b == [lines |-> lines, budgetUsed |-> a.budgetUsed + chunk,
                 included |-> a.included + 1, full |-> FALSE]
<1>7. b \in Assembly
  <2> HIDE DEF lines, chunk
  <2>1. a.budgetUsed + chunk \in Nat /\ a.included + 1 \in Nat
    BY <1>1, <1>6 DEF chunk
  <2>2. lines \in Seq(Line)
    BY <1>5 DEF lines
  <2> QED BY <2>1, <2>2 DEF Assembly
<1> QED BY <1>2, <1>7 DEF WithEntry

\* The assembled digest holds the first entries, within the budget.
LEMMA DigestAssembled ==
  ASSUME NEW entries \in ContextRows, NEW ordered \in Seq(Found),
         ordered = FetchContextConcepts(entries),
         NEW total, Lengthens(total, ordered, entries)
  PROVE  EntriesGood(AssembleMarkdown(entries), ordered, total, Len(ordered))
<1> DEFINE N == Len(ordered)
           RowShape == [confidence : {"high", "medium", "low"}, when : 0 .. 1,
                    length : Lengths, summary : Summaries]
           step == [p \in Assembly \X (1 .. N) |->
                      WithEntry(p[1], ordered[p[2]], entries[ordered[p[2]]])]
           upTo == CHOOSE g : g = [n \in 0 .. Len(ordered) |->
                      IF n = 0 THEN NoEntries
                      ELSE WithEntry(g[n - 1], ordered[n], entries[ordered[n]])]
<1>1. N \in Nat
  OBVIOUS
<1>2. NoEntries \in Assembly
  <2>1. ApproxTokenCount(HEADER) \in Nat
    BY Tokens DEF HEADER
  <2>2. << >> \in Seq(Line)
    OBVIOUS
  <2> QED BY <2>1, <2>2 DEF NoEntries, Assembly
<1>3. \A n \in 1 .. N : ordered[n] \in Found /\ entries[ordered[n]] \in RowShape
  <2> HIDE DEF RowShape
  <2>1. entries \in [Found -> RowShape]
    BY DEF ContextRows, RowShape
  <2> QED BY <2>1
<1>4. \A x \in Assembly, n \in 1 .. N :
        /\ step[<<x, n>>] = WithEntry(x, ordered[n], entries[ordered[n]])
        /\ step[<<x, n>>] \in Assembly
  <2> SUFFICES ASSUME NEW x \in Assembly, NEW n \in 1 .. N
               PROVE  /\ step[<<x, n>>] = WithEntry(x, ordered[n], entries[ordered[n]])
                      /\ step[<<x, n>>] \in Assembly
    OBVIOUS
  <2>1. <<x, n>> \in Assembly \X (1 .. N)
    OBVIOUS
  <2>2. step[<<x, n>>] = WithEntry(x, ordered[n], entries[ordered[n]])
    BY <2>1
  <2> QED BY <1>3, <2>2, AssemblyType
<1>5. PICK f \in [0 .. N -> Assembly] : Follows(f, NoEntries, step, N)
  <2>1. Steps(step, N, Assembly)
    <3> HIDE DEF step, N
    <3> QED BY <1>4 DEF Steps
  <2> HIDE DEF step, N
  <2> QED BY <1>1, <1>2, <2>1, StepByStep
<1>6. upTo = [n \in 0 .. Len(ordered) |->
                IF n = 0 THEN NoEntries
                ELSE WithEntry(upTo[n - 1], ordered[n], entries[ordered[n]])]
  <2>1. f = [n \in 0 .. Len(ordered) |->
               IF n = 0 THEN NoEntries
               ELSE WithEntry(f[n - 1], ordered[n], entries[ordered[n]])]
    <3>1. ASSUME NEW n \in 1 .. N
          PROVE  f[n] = WithEntry(f[n - 1], ordered[n], entries[ordered[n]])
      <4>1. n - 1 \in 0 .. N
        OBVIOUS
      <4>2. f[n - 1] \in Assembly
        BY <4>1
      <4>3. f[n] = step[<<f[n - 1], n>>]
        BY <1>5 DEF Follows
      <4> HIDE DEF step
      <4> QED BY <1>4, <4>2, <4>3
    <3>2. \A n \in 0 .. N :
            f[n] = IF n = 0 THEN NoEntries
                   ELSE WithEntry(f[n - 1], ordered[n], entries[ordered[n]])
      <4> HIDE DEF step
      <4>1. \A n \in 0 .. N : n = 0 \/ n \in 1 .. N
        OBVIOUS
      <4> QED BY <1>5, <3>1, <4>1 DEF Follows
    <3> HIDE DEF step
    <3> QED BY <3>2
  <2> HIDE DEF step
  <2> QED BY <2>1
<1>7. AssembleMarkdown(entries) = upTo[N]
  BY DEF AssembleMarkdown
<1> HIDE DEF upTo, step
<1> DEFINE P == {n \in 0 .. N : EntriesGood(upTo[n], ordered, total, n)}
<1>8. 0 \in P
  <2>1. upTo[0] = NoEntries
    BY <1>1, <1>6
  <2>2. /\ NoEntries.included = 0 /\ NoEntries.full = FALSE /\ NoEntries.lines = << >>
        /\ NoEntries.budgetUsed = ApproxTokenCount(HEADER)
    BY DEF NoEntries
  <2>3. total[0] <= CHARS_PER_TOKEN * ApproxTokenCount(HEADER)
    BY Tokens DEF Lengthens, HEADER
  <2>4. EntryLines(<< >>, ordered, 0)
    BY DEF EntryLines
  <2>5. EntriesGood(NoEntries, ordered, total, 0)
    BY <1>2, <2>2, <2>3, <2>4 DEF EntriesGood
  <2> QED BY <1>1, <2>1, <2>5
<1>9. ASSUME NEW n \in 0 .. N - 1, n \in P PROVE n + 1 \in P
  <2>1. n + 1 \in 1 .. N /\ n + 1 \in 0 .. N /\ (n + 1) - 1 = n
    BY <1>1
  <2>2. upTo[n + 1] = WithEntry(upTo[n], ordered[n + 1], entries[ordered[n + 1]])
    BY <1>6, <2>1
  <2>3. EntriesGood(upTo[n], ordered, total, (n + 1) - 1)
    BY <1>9, <2>1
  <2> DEFINE x == upTo[n]
             k == n + 1
  <2>4. EntriesGood(WithEntry(x, ordered[k], entries[ordered[k]]), ordered, total, k)
    <3>1. k \in 1 .. Len(ordered) /\ EntriesGood(x, ordered, total, k - 1)
      BY <2>1, <2>3
    <3> HIDE DEF x, k
    <3> QED BY <3>1, EntryAppended
  <2> QED BY <2>1, <2>2, <2>4
<1>10. \A n \in 0 .. N : n \in P
  <2> HIDE DEF P, N
  <2> QED BY <1>1, <1>8, <1>9, UpTo
<1>11. EntriesGood(upTo[N], ordered, total, N)
  <2>1. N \in P
    <3> HIDE DEF P, N
    <3> QED BY <1>1, <1>10
  <2> QED BY <2>1
<1> QED BY <1>7, <1>11

Ids0 == Found \cup {0}

Items == [title : Ids0, typed : Ids0 \cup {Absent}, uuid : Ids0]

Readings == [items : Seq(Items), title : Ids0 \cup {Absent}, typed : Ids0 \cup {Absent}]

\* What a line makes of the items so far.
LEMMA LineRead ==
  ASSUME NEW r \in Readings, NEW line \in Line
  PROVE  /\ ReadLine(r, line) \in Readings
         /\ line.kind = "heading" =>
              ReadLine(r, line).items = r.items /\ ReadLine(r, line).title = line.id
         /\ line.kind \in {"type", "text", "rule"} =>
              ReadLine(r, line).items = r.items /\ ReadLine(r, line).title = r.title
         /\ line.kind = "link" /\ r.title # Absent =>
              \E t \in Ids0 \cup {Absent} :
                ReadLine(r, line).items =
                  Append(r.items, [title |-> r.title, typed |-> t, uuid |-> line.id])
<1> DEFINE item == [title |-> r.title, typed |-> r.typed, uuid |-> line.id]
           next == ReadLine(r, line)
<1>1. /\ r.items \in Seq(Items) /\ r.title \in Ids0 \cup {Absent} /\ r.typed \in Ids0 \cup {Absent}
      /\ line.id \in Ids0 /\ line.kind \in {"heading", "type", "text", "rule", "link"}
      /\ Absent \in Ids0 \cup {Absent}
      /\ r = [items |-> r.items, title |-> r.title, typed |-> r.typed]
  BY DEF Readings, Line, Ids0
<1>2. CASE line.kind = "heading"
  <2>1. next = [r EXCEPT !.title = line.id, !.typed = Absent]
    BY <1>2 DEF ReadLine
  <2>2. next = [items |-> r.items, title |-> line.id, typed |-> Absent]
    BY <1>1, <2>1
  <2> HIDE DEF next
  <2> QED BY <1>1, <1>2, <2>2 DEF Readings, next
<1>3. CASE line.kind = "type" /\ r.title # Absent
  <2>1. next = [r EXCEPT !.typed = line.id]
    BY <1>3 DEF ReadLine
  <2>2. next = [items |-> r.items, title |-> r.title, typed |-> line.id]
    BY <1>1, <2>1
  <2> HIDE DEF next
  <2> QED BY <1>1, <1>3, <2>2 DEF Readings, next
<1>4. CASE line.kind = "link" /\ r.title # Absent
  <2>1. next = [items |-> Append(r.items, item), title |-> Absent, typed |-> Absent]
    BY <1>4 DEF ReadLine
  <2>2. item \in Items
    BY <1>1, <1>4 DEF Items
  <2>3. Append(r.items, item) \in Seq(Items)
    <3> HIDE DEF item
    <3> QED BY <1>1, <2>2
  <2>4. next \in Readings
    <3> HIDE DEF item, next
    <3> QED BY <1>1, <2>1, <2>3 DEF Readings
  <2>5. next.items = Append(r.items, item)
    <3> HIDE DEF item, next
    <3> QED BY <2>1
  <2> QED BY <1>1, <1>4, <2>4, <2>5
<1>5. CASE \/ line.kind \in {"text", "rule"}
           \/ line.kind \in {"type", "link"} /\ r.title = Absent
  <2>1. next = r
    BY <1>5 DEF ReadLine
  <2> QED BY <1>1, <1>5, <2>1
<1>6. \/ line.kind = "heading"
      \/ line.kind = "type" /\ r.title # Absent
      \/ line.kind = "link" /\ r.title # Absent
      \/ line.kind \in {"text", "rule"}
      \/ line.kind \in {"type", "link"} /\ r.title = Absent
  BY <1>1
<1> HIDE DEF next
<1> QED BY <1>2, <1>3, <1>4, <1>5, <1>6, Zenon

\* The items of the first j entries.
ItemsGood(r, ordered, j) ==
  /\ r \in Readings /\ Len(r.items) = j
  /\ \A i \in 1 .. j : r.items[i].title = ordered[i] /\ r.items[i].uuid = ordered[i]

\* The four lines of an entry make an item.
LEMMA EntryRead ==
  ASSUME NEW ordered \in Seq(Found), NEW j \in Nat, j + 1 \in 1 .. Len(ordered),
         NEW r0, ItemsGood(r0, ordered, j),
         NEW l1 \in Line, l1.kind = "heading", l1.id = ordered[j + 1],
         NEW l2 \in Line, l2.kind = "type", NEW l3 \in Line, l3.kind \in Summaries,
         NEW l4 \in Line, l4.kind = "link", l4.id = ordered[j + 1],
         NEW r1, r1 = ReadLine(r0, l1), NEW r2, r2 = ReadLine(r1, l2),
         NEW r3, r3 = ReadLine(r2, l3), NEW r4, r4 = ReadLine(r3, l4)
  PROVE  ItemsGood(r4, ordered, j + 1)
<1> DEFINE c == ordered[j + 1]
<1>1. c \in Found /\ c # Absent
  <2>1. Absent \notin Found
    BY RetrievalAssumption
  <2> QED BY <2>1
<1>2. r0 \in Readings
  BY DEF ItemsGood
<1>3. r1 \in Readings /\ r1.items = r0.items /\ r1.title = c
  BY <1>2, LineRead
<1>4. r2 \in Readings /\ r2.items = r0.items /\ r2.title = c
  BY <1>3, LineRead
<1>5. r3 \in Readings /\ r3.items = r0.items /\ r3.title = c
  <2>1. l3.kind \in {"type", "text", "rule"}
    BY DEF Summaries
  <2> QED BY <1>4, <2>1, LineRead
<1>6. r4 \in Readings
  BY <1>5, LineRead
<1>7. PICK t \in Ids0 \cup {Absent} :
        r4.items = Append(r0.items, [title |-> c, typed |-> t, uuid |-> c])
  <2>1. r3.title # Absent /\ l4.kind = "link" /\ l4.id = c
    BY <1>1, <1>5
  <2>2. \E t \in Ids0 \cup {Absent} :
          r4.items = Append(r3.items, [title |-> r3.title, typed |-> t, uuid |-> l4.id])
    <3> HIDE DEF c
    <3> QED BY <1>5, <2>1, LineRead, Zenon
  <2> QED BY <1>5, <2>1, <2>2
<1> DEFINE item == [title |-> c, typed |-> t, uuid |-> c]
           items == r0.items
<1>8. item \in Items /\ items \in Seq(Items) /\ item.title = c /\ item.uuid = c
  BY <1>1, <1>2 DEF Items, Ids0, Readings
<1>9. Len(items) = j /\ \A i \in 1 .. j : items[i].title = ordered[i] /\ items[i].uuid = ordered[i]
  BY DEF ItemsGood
<1>10. r4.items = Append(items, item)
  BY <1>7
<1> HIDE DEF item, items
<1>11. /\ Len(Append(items, item)) = j + 1 /\ Append(items, item)[j + 1] = item
       /\ \A i \in 1 .. j : Append(items, item)[i] = items[i]
  BY <1>8, <1>9
<1>12. \A i \in 1 .. j + 1 : i \in 1 .. j \/ i = j + 1
  OBVIOUS
<1> HIDE DEF c
<1> QED BY <1>6, <1>8, <1>9, <1>10, <1>11, <1>12 DEF ItemsGood, c

\* The page finds in the lines of m entries just these, each under its own title.
LEMMA DigestRead ==
  ASSUME NEW lines \in Seq(Line), NEW ordered \in Seq(Found), NEW m \in 1 .. Len(ordered),
         EntryLines(lines, ordered, m)
  PROVE  \E r : ParseContextMarkdown(lines) = r.items /\ ItemsGood(r, ordered, m)
<1> DEFINE N == Len(lines)
           step == [p \in Readings \X (1 .. N) |-> ReadLine(p[1], lines[p[2]])]
           upTo == CHOOSE g : g = [n \in 0 .. Len(lines) |->
                      IF n = 0 THEN NothingRead ELSE ReadLine(g[n - 1], lines[n])]
<1>1. N \in Nat /\ N = 5 * m - 1 /\ m \in Nat \ {0}
  BY DEF EntryLines
<1>2. NothingRead \in Readings
  <2>1. << >> \in Seq(Items)
    OBVIOUS
  <2> QED BY <2>1 DEF NothingRead, Readings
<1>3. \A n \in 1 .. N : lines[n] \in Line
  OBVIOUS
<1>4. \A x \in Readings, n \in 1 .. N :
        /\ step[<<x, n>>] = ReadLine(x, lines[n])
        /\ step[<<x, n>>] \in Readings
  <2> SUFFICES ASSUME NEW x \in Readings, NEW n \in 1 .. N
               PROVE  /\ step[<<x, n>>] = ReadLine(x, lines[n])
                      /\ step[<<x, n>>] \in Readings
    OBVIOUS
  <2>1. <<x, n>> \in Readings \X (1 .. N)
    OBVIOUS
  <2>2. step[<<x, n>>] = ReadLine(x, lines[n])
    BY <2>1
  <2> QED BY <1>3, <2>2, LineRead
<1>5. PICK f \in [0 .. N -> Readings] : Follows(f, NothingRead, step, N)
  <2>1. Steps(step, N, Readings)
    <3> HIDE DEF step, N
    <3> QED BY <1>4 DEF Steps
  <2> HIDE DEF step, N
  <2> QED BY <1>1, <1>2, <2>1, StepByStep
<1>6. upTo = [n \in 0 .. Len(lines) |->
                IF n = 0 THEN NothingRead ELSE ReadLine(upTo[n - 1], lines[n])]
  <2>1. f = [n \in 0 .. Len(lines) |->
               IF n = 0 THEN NothingRead ELSE ReadLine(f[n - 1], lines[n])]
    <3>1. ASSUME NEW n \in 1 .. N
          PROVE  f[n] = ReadLine(f[n - 1], lines[n])
      <4>1. n - 1 \in 0 .. N
        OBVIOUS
      <4>2. f[n - 1] \in Readings
        BY <4>1
      <4>3. f[n] = step[<<f[n - 1], n>>]
        BY <1>5 DEF Follows
      <4> HIDE DEF step
      <4> QED BY <1>4, <4>2, <4>3
    <3>2. \A n \in 0 .. N : f[n] = IF n = 0 THEN NothingRead ELSE ReadLine(f[n - 1], lines[n])
      <4> HIDE DEF step
      <4>1. \A n \in 0 .. N : n = 0 \/ n \in 1 .. N
        OBVIOUS
      <4> QED BY <1>5, <3>1, <4>1 DEF Follows
    <3> HIDE DEF step
    <3> QED BY <3>2
  <2> HIDE DEF step
  <2> QED BY <2>1
<1>7. ParseContextMarkdown(lines) = upTo[N].items
  BY DEF ParseContextMarkdown
<1>8. upTo[0] = NothingRead /\ \A n \in 1 .. N : upTo[n] = ReadLine(upTo[n - 1], lines[n])
  <2> HIDE DEF step, upTo
  <2>1. \A n \in 1 .. N : n # 0 /\ n \in 0 .. N
    OBVIOUS
  <2>2. 0 \in 0 .. N
    BY <1>1
  <2> QED BY <1>6, <2>1, <2>2
<1> HIDE DEF upTo, step, N
\* Over the entry after a place between two.
<1>9. ASSUME NEW j \in 0 .. m - 1, ItemsGood(upTo[5 * j], ordered, j)
      PROVE  ItemsGood(upTo[5 * j + 4], ordered, j + 1)
  <2> DEFINE k == 5 * j
  <2>1. /\ k \in Nat /\ j \in Nat /\ j + 1 \in 1 .. m /\ j + 1 \in 1 .. Len(ordered)
        /\ {k + 1, k + 2, k + 3, k + 4} \subseteq 1 .. N
        /\ (k + 1) - 1 = k /\ (k + 2) - 1 = k + 1 /\ (k + 3) - 1 = k + 2 /\ (k + 4) - 1 = k + 3
        /\ 5 * (j + 1) - 4 = k + 1 /\ 5 * (j + 1) - 3 = k + 2 /\ 5 * (j + 1) - 2 = k + 3
        /\ 5 * (j + 1) - 1 = k + 4
    BY <1>1
  <2>2. /\ lines[k + 1] \in Line /\ lines[k + 2] \in Line /\ lines[k + 3] \in Line
        /\ lines[k + 4] \in Line
    BY <1>3, <2>1
  <2>3. /\ lines[k + 1].kind = "heading" /\ lines[k + 1].id = ordered[j + 1]
        /\ lines[k + 2].kind = "type" /\ lines[k + 3].kind \in Summaries
        /\ lines[k + 4].kind = "link" /\ lines[k + 4].id = ordered[j + 1]
    <3> DEFINE i == j + 1
    <3>1. /\ lines[5 * i - 4].kind = "heading" /\ lines[5 * i - 4].id = ordered[i]
          /\ lines[5 * i - 3].kind = "type" /\ lines[5 * i - 2].kind \in Summaries
          /\ lines[5 * i - 1].kind = "link" /\ lines[5 * i - 1].id = ordered[i]
      <4>1. i \in 1 .. m
        BY <2>1
      <4> HIDE DEF i
      <4> QED BY <4>1 DEF EntryLines
    <3> HIDE DEF k
    <3> QED BY <2>1, <3>1
  <2>4. /\ upTo[k + 1] = ReadLine(upTo[k], lines[k + 1])
        /\ upTo[k + 2] = ReadLine(upTo[k + 1], lines[k + 2])
        /\ upTo[k + 3] = ReadLine(upTo[k + 2], lines[k + 3])
        /\ upTo[k + 4] = ReadLine(upTo[k + 3], lines[k + 4])
    <3> HIDE DEF k
    <3> QED BY <1>8, <2>1
  <2>5. ItemsGood(upTo[k], ordered, j)
    BY <1>9
  <2> HIDE DEF k
  <2>6. ItemsGood(upTo[k + 4], ordered, j + 1)
    BY <2>1, <2>2, <2>3, <2>4, <2>5, EntryRead, ZenonT(60)
  <2> QED BY <2>6 DEF k
<1> DEFINE P == {j \in 0 .. m - 1 : ItemsGood(upTo[5 * j], ordered, j)}
<1>10. 0 \in P
  <2>1. NothingRead.items = << >> /\ Len(<< >>) = 0
    BY DEF NothingRead
  <2>2. ItemsGood(NothingRead, ordered, 0)
    BY <1>2, <2>1 DEF ItemsGood
  <2>3. upTo[5 * 0] = NothingRead
    BY <1>8
  <2> QED BY <1>1, <2>2, <2>3
<1>11. ASSUME NEW j \in 0 .. (m - 1) - 1, j \in P PROVE j + 1 \in P
  <2>1. ItemsGood(upTo[5 * j + 4], ordered, j + 1)
    BY <1>1, <1>9, <1>11
  <2> DEFINE k == 5 * (j + 1)
  <2>2. /\ k \in 1 .. N /\ k - 1 = 5 * j + 4 /\ k - 1 \in 0 .. N
        /\ j + 1 \in 1 .. m - 1 /\ j + 1 \in 0 .. m - 1
    BY <1>1
  <2>3. lines[k].kind = "rule" /\ lines[k] \in Line
    <3>1. lines[5 * (j + 1)].kind = "rule"
      BY <2>2 DEF EntryLines
    <3> HIDE DEF k
    <3> QED BY <1>3, <2>2, <3>1 DEF k
  <2>4. upTo[k] = ReadLine(upTo[k - 1], lines[k])
    <3> HIDE DEF k
    <3> QED BY <1>8, <2>2
  <2>5. ItemsGood(upTo[k], ordered, j + 1)
    <3> DEFINE r == upTo[k - 1]
    <3>1. ItemsGood(r, ordered, j + 1)
      BY <2>1, <2>2
    <3> HIDE DEF r, k
    <3>2. ReadLine(r, lines[k]) \in Readings /\ ReadLine(r, lines[k]).items = r.items
      BY <2>3, <3>1, LineRead DEF ItemsGood
    <3>3. ItemsGood(ReadLine(r, lines[k]), ordered, j + 1)
      BY <3>1, <3>2 DEF ItemsGood
    <3> QED BY <2>4, <3>3 DEF r
  <2> QED BY <2>2, <2>5
<1>12. \A j \in 0 .. m - 1 : j \in P
  <2>1. m - 1 \in Nat
    BY <1>1
  <2> HIDE DEF P
  <2> QED BY <1>10, <1>11, <2>1, UpTo
<1>13. ItemsGood(upTo[5 * (m - 1) + 4], ordered, (m - 1) + 1)
  <2>1. m - 1 \in 0 .. m - 1
    BY <1>1
  <2>2. m - 1 \in P
    <3> HIDE DEF P
    <3> QED BY <1>12, <2>1
  <2> QED BY <1>9, <2>1, <2>2
<1>14. 5 * (m - 1) + 4 = N /\ (m - 1) + 1 = m
  BY <1>1
<1> QED BY <1>7, <1>13, <1>14

LEMMA LengthsOfText ==
  ASSUME NEW entries \in ContextRows, NEW ordered \in Seq(Found)
  PROVE  \E total : Lengthens(total, ordered, entries)
<1> DEFINE N == Len(ordered)
           size(n) == entries[ordered[n]].length
           gap(n) == IF n > 1 THEN RULE ELSE 0
           step == [p \in Nat \X (1 .. N) |-> p[1] + gap(p[2]) + size(p[2])]
<1>1. N \in Nat /\ HEADER \in Nat
  BY DEF HEADER
<1>2. \A n \in 1 .. N : size(n) \in Nat /\ gap(n) \in Nat
  <2> SUFFICES ASSUME NEW n \in 1 .. N PROVE size(n) \in Nat /\ gap(n) \in Nat
    OBVIOUS
  <2>1. ordered[n] \in Found
    OBVIOUS
  <2>2. size(n) \in Lengths
    BY <2>1 DEF ContextRows
  <2>3. Lengths \subseteq Nat
    BY RetrievalAssumption
  <2>4. gap(n) \in Nat
    BY DEF RULE
  <2> QED BY <2>2, <2>3, <2>4
<1>3. \A x \in Nat, n \in 1 .. N : /\ step[<<x, n>>] = x + gap(n) + size(n)
                                   /\ step[<<x, n>>] \in Nat
  <2> HIDE DEF size, gap
  <2> SUFFICES ASSUME NEW x \in Nat, NEW n \in 1 .. N
               PROVE  step[<<x, n>>] = x + gap(n) + size(n) /\ step[<<x, n>>] \in Nat
    OBVIOUS
  <2>1. <<x, n>> \in Nat \X (1 .. N)
    OBVIOUS
  <2>2. step[<<x, n>>] = x + gap(n) + size(n)
    BY <2>1
  <2>3. x + gap(n) + size(n) \in Nat
    BY <1>2
  <2> QED BY <2>2, <2>3
<1> HIDE DEF size, gap, step, N
<1>4. PICK f \in [0 .. N -> Nat] : Follows(f, HEADER, step, N)
  <2>1. Steps(step, N, Nat)
    BY <1>3 DEF Steps
  <2> QED BY <1>1, <2>1, StepByStep
<1>5. ASSUME NEW n \in 1 .. N PROVE f[n] = f[n - 1] + gap(n) + size(n)
  <2>1. n - 1 \in 0 .. N
    BY <1>1
  <2>2. f[n - 1] \in Nat
    BY <2>1
  <2> QED BY <1>3, <1>4, <2>2 DEF Follows
<1> QED BY <1>4, <1>5 DEF Follows, Lengthens, size, gap, N

\* What is read from the assembled digest is what it is said to be.
LEMMA DigestIsGood ==
  ASSUME digest.rows \in ContextRows, digest.answer = AssembleMarkdown(digest.rows),
         digest.answer.lines # << >>, digest.items = ParseContextMarkdown(digest.answer.lines)
  PROVE  DigestIsShown
<1> DEFINE entries == digest.rows
           a == digest.answer
           shown == digest.items
           m == a.included
           ordered == FetchContextConcepts(entries)
           chars == CHOOSE g : g = [n \in 0 .. Len(shown) |->
                      IF n = 0 THEN HEADER
                      ELSE g[n - 1] + (IF n > 1 THEN RULE ELSE 0) + entries[shown[n].uuid].length]
           these == Listed(entries)
<1>1. /\ ordered \in Seq(these) /\ ordered \in Seq(Found)
      /\ \A i \in 1 .. Len(ordered), c \in these :
           GoesFirst(entries, c, ordered[i]) <=> \E j \in 1 .. i - 1 : ordered[j] = c
  <2> HIDE DEF ordered, these, entries
  <2>1. /\ ordered \in Seq(these)
        /\ \A i \in 1 .. Len(ordered), c \in these :
             GoesFirst(entries, c, ordered[i]) <=> \E j \in 1 .. i - 1 : ordered[j] = c
    BY OrderOfRows DEF ordered, these, entries
  <2>2. these \subseteq Found
    BY DEF Listed, these
  <2> QED BY <2>1, <2>2
<1> HIDE DEF ordered
<1>2. PICK total : Lengthens(total, ordered, entries)
  <2> HIDE DEF entries
  <2> QED BY <1>1, LengthsOfText DEF entries
<1>3. EntriesGood(a, ordered, total, Len(ordered))
  <2> HIDE DEF entries
  <2>1. EntriesGood(AssembleMarkdown(entries), ordered, total, Len(ordered))
    BY <1>1, <1>2, DigestAssembled DEF entries, ordered
  <2> QED BY <2>1 DEF entries
<1>4. /\ a.lines \in Seq(Line) /\ m \in 0 .. Len(ordered) /\ EntryLines(a.lines, ordered, m)
      /\ total[m] <= CHARS_PER_TOKEN * a.budgetUsed /\ a.budgetUsed \in Nat
      /\ m > 0 => a.budgetUsed <= TOKEN_BUDGET
  BY <1>3 DEF EntriesGood, Assembly
<1>5. m \in 1 .. Len(ordered)
  <2>1. m # 0
    <3>1. Len(a.lines) # 0
      <4> DEFINE lines == a.lines
      <4>1. lines \in Seq(Line) /\ lines # << >>
        BY <1>4
      <4> HIDE DEF lines
      <4>2. Len(lines) # 0
        BY <4>1
      <4> QED BY <4>2 DEF lines
    <3> QED BY <1>4, <3>1 DEF EntryLines
  <2> QED BY <1>4, <2>1
<1>6. PICK r : shown = r.items /\ ItemsGood(r, ordered, m)
  <2> DEFINE lines == a.lines
             k == m
  <2> HIDE DEF lines, k
  <2>1. \E r : ParseContextMarkdown(lines) = r.items /\ ItemsGood(r, ordered, k)
    BY <1>1, <1>4, <1>5, DigestRead DEF lines, k
  <2> QED BY <2>1 DEF lines, k
<1>7. /\ shown \in Seq(Items) /\ Len(shown) = m
      /\ \A i \in 1 .. m : shown[i].title = ordered[i] /\ shown[i].uuid = ordered[i]
  BY <1>6 DEF ItemsGood, Readings
<1>8. \A n \in 0 .. m : /\ total[n] \in Nat
                        /\ total[n] = IF n = 0 THEN HEADER
                                      ELSE total[n - 1] + (IF n > 1 THEN RULE ELSE 0)
                                           + entries[shown[n].uuid].length
  <2> HIDE DEF entries, shown, m
  <2> SUFFICES ASSUME NEW n \in 0 .. m
               PROVE  /\ total[n] \in Nat
                      /\ total[n] = IF n = 0 THEN HEADER
                                    ELSE total[n - 1] + (IF n > 1 THEN RULE ELSE 0)
                                         + entries[shown[n].uuid].length
    OBVIOUS
  <2>1. n \in 0 .. Len(ordered) /\ total[n] \in Nat
    <3>1. n \in 0 .. Len(ordered)
      BY <1>5
    <3> QED BY <1>2, <3>1 DEF Lengthens
  <2>2. CASE n = 0
    BY <1>2, <2>1, <2>2 DEF Lengthens
  <2>3. CASE n \in 1 .. m
    <3>1. n \in 1 .. Len(ordered) /\ n # 0 /\ shown[n].uuid = ordered[n]
      BY <1>5, <1>7, <2>3
    <3>2. total[n] = total[n - 1] + (IF n > 1 THEN RULE ELSE 0) + entries[ordered[n]].length
      BY <1>2, <3>1 DEF Lengthens
    <3> QED BY <2>1, <3>1, <3>2
  <2> QED BY <2>2, <2>3
<1>9. chars = [n \in 0 .. Len(shown) |->
                 IF n = 0 THEN HEADER
                 ELSE chars[n - 1] + (IF n > 1 THEN RULE ELSE 0) + entries[shown[n].uuid].length]
  <2> DEFINE f == [n \in 0 .. Len(shown) |-> total[n]]
  <2>1. f = [n \in 0 .. Len(shown) |->
               IF n = 0 THEN HEADER
               ELSE f[n - 1] + (IF n > 1 THEN RULE ELSE 0) + entries[shown[n].uuid].length]
    <3> HIDE DEF entries, shown, m
    <3>1. \A n \in 0 .. Len(shown) : n # 0 => f[n - 1] = total[n - 1]
      BY <1>5, <1>7
    <3>2. \A n \in 0 .. Len(shown) :
            total[n] = IF n = 0 THEN HEADER
                       ELSE f[n - 1] + (IF n > 1 THEN RULE ELSE 0) + entries[shown[n].uuid].length
      <4> HIDE DEF f
      <4> QED BY <1>7, <1>8, <3>1
    <3> QED BY <3>2
  <2> HIDE DEF f, entries, shown
  <2> QED BY <2>1
<1> HIDE DEF chars, entries, shown, m
<1>10. chars[m] = total[m]
  <2> DEFINE P == {n \in 0 .. m : chars[n] = total[n]}
  <2>1. 0 \in P
    BY <1>5, <1>7, <1>8, <1>9
  <2>2. ASSUME NEW n \in 0 .. m - 1, n \in P PROVE n + 1 \in P
    <3>1. n + 1 \in 0 .. m /\ n + 1 # 0 /\ (n + 1) - 1 = n
      BY <1>5
    <3>2. chars[n + 1] = chars[n] + (IF n + 1 > 1 THEN RULE ELSE 0) + entries[shown[n + 1].uuid].length
      BY <1>7, <1>9, <3>1
    <3>3. total[n + 1] = total[n] + (IF n + 1 > 1 THEN RULE ELSE 0) + entries[shown[n + 1].uuid].length
      BY <1>8, <3>1
    <3> QED BY <2>2, <3>1, <3>2, <3>3
  <2>3. \A n \in 0 .. m : n \in P
    <3>1. m \in Nat
      BY <1>5
    <3> HIDE DEF P
    <3> QED BY <2>1, <2>2, <3>1, UpTo
  <2>4. m \in P
    <3> HIDE DEF P
    <3> QED BY <1>5, <2>3
  <2> QED BY <2>4
<1>11. ApproxTokenCount(chars[Len(shown)]) <= TOKEN_BUDGET
  <2>1. total[m] \in Nat /\ m > 0
    BY <1>5, <1>8
  <2>2. ApproxTokenCount(total[m]) <= a.budgetUsed /\ ApproxTokenCount(total[m]) \in Nat
    <3> DEFINE x == total[m]
               b == a.budgetUsed
    <3>1. x \in Nat /\ b \in Nat /\ x <= CHARS_PER_TOKEN * b
      BY <1>4, <2>1 DEF m
    <3> HIDE DEF x, b
    <3>2. ApproxTokenCount(x) <= b /\ ApproxTokenCount(x) \in Nat
      BY <3>1, Tokens
    <3> QED BY <3>2 DEF x, b
  <2>3. a.budgetUsed <= TOKEN_BUDGET /\ a.budgetUsed \in Nat
    BY <1>4, <2>1 DEF m
  <2>4. TOKEN_BUDGET \in Nat
    BY RetrievalAssumption
  <2>5. ApproxTokenCount(total[m]) <= TOKEN_BUDGET
    BY <2>2, <2>3, <2>4
  <2> QED BY <1>7, <1>10, <2>5
<1>12. ASSUME NEW i \in DOMAIN shown
       PROVE  /\ shown[i].title = shown[i].uuid
              /\ entries[shown[i].uuid].confidence # "low"
              /\ \A c \in Listed(entries) :
                   GoesFirst(entries, c, shown[i].uuid) <=> \E j \in 1 .. i - 1 : shown[j].uuid = c
  <2>1. i \in 1 .. m /\ i \in 1 .. Len(ordered) /\ m \in Nat
    BY <1>5, <1>7
  <2>2. shown[i].title = ordered[i] /\ shown[i].uuid = ordered[i]
    BY <1>7, <2>1
  <2>3. ordered[i] \in Listed(entries)
    BY <1>1, <2>1 DEF these
  <2>4. \A j \in 1 .. i - 1 : shown[j].uuid = ordered[j]
    <3>1. \A j \in 1 .. i - 1 : j \in 1 .. m
      BY <2>1
    <3> QED BY <1>7, <3>1
  <2>5. \A c \in Listed(entries) :
          GoesFirst(entries, c, ordered[i]) <=> \E j \in 1 .. i - 1 : ordered[j] = c
    BY <1>1, <2>1 DEF these
  <2> QED BY <2>2, <2>3, <2>4, <2>5 DEF Listed
<1>13. Len(shown) = a.included
  BY <1>7 DEF m
<1> QED BY <1>11, <1>12, <1>13 DEF DigestIsShown, chars, entries, shown

DigestInv ==
  /\ {"rows", "answer", "items"} \subseteq DOMAIN digest
  /\ digest = NoDigest \/ digest.rows \in ContextRows
  /\ digest.answer # Absent =>
       digest.rows \in ContextRows /\ digest.answer = AssembleMarkdown(digest.rows)
  /\ digest.items # << >> =>
       /\ digest.answer # Absent /\ digest.answer.lines # << >>
       /\ digest.items = ParseContextMarkdown(digest.answer.lines)

\* The preview shows what the digest holds, which is the first of the listed concepts,
\* each once and under its own title, within the budget (assembleMarkdown and
\* parseContextMarkdown).
THEOREM DigestsAreShown == FindSpec => []DigestIsShown
<1>1. FindInit => DigestInv
  <2> SUFFICES ASSUME FindInit PROVE DigestInv
    OBVIOUS
  <2>1. CASE digest = NoDigest
    BY <2>1 DEF NoDigest, DigestInv
  <2>2. CASE DigestInit
    BY <2>2 DEF DigestInit, DigestInv, ContextRows
  <2> QED BY <2>1, <2>2 DEF FindInit
<1>2. DigestInv /\ [FindNext]_findVars => DigestInv'
  <2> SUFFICES ASSUME DigestInv, [FindNext]_findVars PROVE DigestInv'
    OBVIOUS
  <2>1. CASE UNCHANGED digest
    BY <2>1 DEF DigestInv
  <2>2. CASE digest # NoDigest /\ GetContext
    <3> DEFINE answer == AssembleMarkdown(digest.rows)
    <3>1. digest.rows \in ContextRows /\ digest.items = << >>
      BY <2>2 DEF DigestInv, GetContext
    <3>2. digest' = [digest EXCEPT !.answer = answer]
      BY <2>2 DEF GetContext
    <3> HIDE DEF answer
    <3>3. /\ digest'.rows = digest.rows /\ digest'.items = << >> /\ digest'.answer = answer
          /\ {"rows", "answer", "items"} \subseteq DOMAIN digest'
      BY <3>1, <3>2 DEF DigestInv
    <3> QED BY <3>1, <3>3 DEF DigestInv, answer
  <2>3. CASE digest # NoDigest /\ ContextPreview
    <3> DEFINE items == ParseContextMarkdown(digest.answer.lines)
    <3>1. /\ digest.rows \in ContextRows /\ digest.answer # Absent
          /\ digest.answer.lines # << >> /\ digest.answer = AssembleMarkdown(digest.rows)
      BY <2>3 DEF DigestInv, ContextPreview
    <3>2. digest' = [digest EXCEPT !.items = items]
      BY <2>3 DEF ContextPreview
    <3> HIDE DEF items
    <3>3. /\ digest'.rows = digest.rows /\ digest'.items = items /\ digest'.answer = digest.answer
          /\ {"rows", "answer", "items"} \subseteq DOMAIN digest'
      BY <3>1, <3>2 DEF DigestInv
    <3> QED BY <3>1, <3>3 DEF DigestInv, items
  <2> QED BY <2>1, <2>2, <2>3 DEF FindNext, SearchNext, Search, Edit, findVars
<1>3. DigestInv => DigestIsShown
  <2> SUFFICES ASSUME DigestInv, digest.items # << >> PROVE DigestIsShown
    BY DEF DigestIsShown
  <2> QED BY DigestIsGood DEF DigestInv
<1> QED BY <1>1, <1>2, <1>3, PTL DEF FindSpec
=============================================================================
