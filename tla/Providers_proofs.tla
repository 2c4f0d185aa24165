-------------------------- MODULE Providers_proofs --------------------------
(***************************************************************************)
(* Three of the parts that deal with the outside world.                    *)
(*                                                                         *)
(* GitHubApi: no request arrives with a token that has expired, however    *)
(* many calls share the cache.  The invariant dates each request: one that *)
(* has been sent arrives, at the latest, before the token it carries       *)
(* expires.  And a listing is complete: while it runs undisturbed it holds *)
(* the pages before the one it asks for.                                   *)
(*                                                                         *)
(* GitHub: a stored event is about the thing it says and, where it has a   *)
(* time of the provider, tells when it happened.  Each delivery agrees     *)
(* with the world it tells of, and each event with the delivery it was     *)
(* made of.                                                                *)
(*                                                                         *)
(* LlmSettings: a key that a page was told is stored is used.  A save that *)
(* nobody has written over is what the row says, and one is acknowledged   *)
(* only while no other is under way.                                       *)
(***************************************************************************)
EXTENDS GitHub, GitHubApi, LlmSettings, SequenceTheorems, TLAPS

\* On its way since some time, and for no longer than Latency.
UnderWay(call) == call.since \in Nat /\ call.since <= now /\ now <= call.since + Latency

CallOK(call) ==
  /\ "pc" \in DOMAIN call
  /\ call.pc # "idle" => {"since", "token"} \subseteq DOMAIN call
  /\ call.pc = "exchange" => UnderWay(call)
  /\ call.pc = "sent" =>
       UnderWay(call) /\ call.token \in Int /\ call.since + Latency < call.token

ApiInv ==
  /\ now \in Nat
  /\ cached \in Int \union {Nothing}
  /\ DOMAIN calls = Calls
  /\ \A c \in Calls : CallOK(calls[c])
  /\ overdue = FALSE

\* A call that no request is under way for.
Resting(call) ==
  /\ {"pc", "since", "token"} \subseteq DOMAIN call
  /\ call.pc \in {"headers", "done", "failed"}

----------------------------------------------------------------------------

LEMMA RestingOK ==
  ASSUME NEW call, Resting(call)
  PROVE  CallOK(call)
BY DEF Resting, CallOK

\* Whatever else of a call has been written, it rests when it ends or goes on.
LEMMA EndedRests ==
  ASSUME NEW call, {"pc", "since", "token"} \subseteq DOMAIN call
  PROVE  Resting(Ended(call, "done")) /\ Resting(Ended(call, "failed")) /\ Resting(Again(call))
BY DEF Resting, Ended, Again

\* What a resolution makes of an answer: it ends or goes on with the next request.
LEMMA ResolveRests ==
  ASSUME NEW call, {"pc", "since", "token"} \subseteq DOMAIN call,
         NEW answer, NEW r \in ResolveCommit(call, answer)
  PROVE  Resting(r)
<1>1. CASE call.listed = Nothing
  <2>1. CASE answer = "error"
    BY <1>1, <2>1, EndedRests DEF ResolveCommit
  <2>2. CASE answer # "error" /\ answer = "none"
    <3>1. r = Ended([call EXCEPT !.listed = << >>], "done")
      BY <1>1, <2>2 DEF ResolveCommit
    <3>2. {"pc", "since", "token"} \subseteq DOMAIN [call EXCEPT !.listed = << >>]
      OBVIOUS
    <3> QED BY <3>1, <3>2, EndedRests
  <2>3. CASE answer # "error" /\ answer # "none"
    <3>1. PICK order \in SetToSeqs(Pulls) :
            r = Again([call EXCEPT !.todo = order,
                  !.listed = [i \in DOMAIN order |->
                     [pull |-> order[i], tip |-> pulls[order[i]].tip,
                      confidence |-> ComputeConfidence(pulls[order[i]])]]])
      BY <1>1, <2>3 DEF ResolveCommit
    <3> DEFINE list == [i \in DOMAIN order |->
                     [pull |-> order[i], tip |-> pulls[order[i]].tip,
                      confidence |-> ComputeConfidence(pulls[order[i]])]]
    <3>2. r = Again([call EXCEPT !.todo = order, !.listed = list])
      BY <3>1
    <3> HIDE DEF list
    <3>3. {"pc", "since", "token"} \subseteq
            DOMAIN [call EXCEPT !.todo = order, !.listed = list]
      OBVIOUS
    <3> QED BY <3>2, <3>3, EndedRests
  <2> QED BY <2>1, <2>2, <2>3
<1>2. CASE call.listed # Nothing
  <2>1. PICK todo, read, refs :
          LET next == [call EXCEPT !.todo = todo, !.read = read, !.refs = refs]
          IN  r = Ended(next, "done") \/ r = Again(next)
    BY <1>2 DEF ResolveCommit
  <2> DEFINE next == [call EXCEPT !.todo = todo, !.read = read, !.refs = refs]
  <2>2. {"pc", "since", "token"} \subseteq DOMAIN next
    OBVIOUS
  <2>3. r = Ended(next, "done") \/ r = Again(next)
    BY <2>1
  <2> HIDE DEF next
  <2> QED BY <2>2, <2>3, EndedRests
<1> QED BY <1>1, <1>2

\* The same of a listing.
LEMMA ListRests ==
  ASSUME NEW call, {"pc", "since", "token"} \subseteq DOMAIN call, NEW answer
  PROVE  Resting(ListInstallationRepositories(call, answer))
<1> DEFINE next == [call EXCEPT !.names = @ \o PageOf(call.page)]
           more == [next EXCEPT !.page = @ + 1]
           cut  == [call EXCEPT !.cut = TRUE]
           r    == ListInstallationRepositories(call, answer)
<1>1. /\ {"pc", "since", "token"} \subseteq DOMAIN next
      /\ {"pc", "since", "token"} \subseteq DOMAIN more
      /\ {"pc", "since", "token"} \subseteq DOMAIN cut
  OBVIOUS
<1>2. \/ r = Ended(call, "failed") \/ r = Ended(cut, "done")
      \/ r = Ended(next, "done") \/ r = Again(more)
  BY DEF ListInstallationRepositories
<1> HIDE DEF next, more, cut, r
<1>3. Resting(r)
  BY <1>1, <1>2, EndedRests
<1> QED BY <1>3 DEF r

\* One call changes and the clock stands still.
LEMMA PutKeeps ==
  ASSUME ApiInv, NEW c \in Calls, NEW call, Put(c, call), CallOK(call),
         UNCHANGED <<now, overdue>>, cached' \in Int \union {Nothing}
  PROVE  ApiInv'
BY DEF ApiInv, Put, CallOK, UnderWay

LEMMA AnswerKeeps ==
  ASSUME ApiInv, NEW c \in Calls, calls[c].pc # "idle", NEW answer, Answered(c, answer),
         UNCHANGED <<now, overdue>>, cached' \in Int \union {Nothing}
  PROVE  ApiInv'
<1>1. {"pc", "since", "token"} \subseteq DOMAIN calls[c]
  BY DEF ApiInv, CallOK
<1>2. CASE calls[c].kind = "commit"
  <2>1. PICK r \in ResolveCommit(calls[c], answer) : Put(c, r)
    BY <1>2 DEF Answered
  <2> QED BY <1>1, <2>1, ResolveRests, RestingOK, PutKeeps
<1>3. CASE calls[c].kind # "commit"
  <2>1. Put(c, ListInstallationRepositories(calls[c], answer))
    BY <1>3 DEF Answered
  <2> QED BY <1>1, <2>1, ListRests, RestingOK, PutKeeps
<1> QED BY <1>2, <1>3

----------------------------------------------------------------------------

LEMMA EditKeeps ==
  ASSUME ApiInv, Edit
  PROVE  ApiInv'
<1>1. UNCHANGED <<now, cached, overdue>>
  BY DEF Edit
<1>2. CASE UNCHANGED calls
  BY <1>1, <1>2 DEF ApiInv, CallOK, UnderWay
<1>3. CASE ~ UNCHANGED calls
  <2>1. calls' = [c \in Calls |->
          IF Running(c) /\ calls[c].kind = "repos" THEN [calls[c] EXCEPT !.shifted = TRUE]
          ELSE calls[c]]
    BY <1>3 DEF Edit
  <2>2. ASSUME NEW c \in Calls
        PROVE  CallOK(calls[c]) /\ CallOK([calls[c] EXCEPT !.shifted = TRUE])
    BY DEF ApiInv, CallOK, UnderWay
  <2> QED BY <1>1, <2>1, <2>2 DEF ApiInv, CallOK, UnderWay
<1> QED BY <1>2, <1>3

\* A tick waits for the requests that are due.
LEMMA TickKeeps ==
  ASSUME ApiInv, Tick
  PROVE  ApiInv'
<1>1. /\ now' = now + 1 /\ UNCHANGED <<cached, calls, overdue>>
      /\ \A c \in Calls : ~ Due(c)
  BY DEF Tick
<1>2. ASSUME NEW c \in Calls
      PROVE  CallOK(calls[c])'
  <2>1. CallOK(calls[c]) /\ ~ Due(c) /\ now \in Nat /\ Latency \in Nat
    BY <1>1, TimingAssumption DEF ApiInv
  <2>2. calls[c].pc \in {"exchange", "sent"} =>
          calls[c].since \in Nat /\ calls[c].since <= now + 1 /\ now + 1 <= calls[c].since + Latency
    BY <2>1 DEF CallOK, UnderWay, Due
  <2> QED BY <1>1, <2>1, <2>2 DEF CallOK, UnderWay
<1> QED BY <1>1, <1>2 DEF ApiInv

LEMMA CallKeeps ==
  ASSUME ApiInv, NEW c \in Calls, NEW kind, Call(c, kind)
  PROVE  ApiInv'
<1>1. Put(c, NewCall(kind)) /\ UNCHANGED <<now, cached, overdue>>
  BY DEF Call
<1>2. CallOK(NewCall(kind))
  BY DEF NewCall, CallOK
<1> QED BY <1>1, <1>2, PutKeeps DEF ApiInv

\* A cached token is used only while it has the margin left.
LEMMA TokenKeeps ==
  ASSUME ApiInv, NEW c \in Calls, GetInstallationToken(c)
  PROVE  ApiInv'
<1>1. /\ calls[c].pc = "headers" /\ CallOK(calls[c]) /\ now \in Nat
      /\ UNCHANGED <<now, cached, overdue>>
      /\ {Latency, Margin} \subseteq Nat /\ Latency <= Margin
  BY TimingAssumption DEF ApiInv, GetInstallationToken
<1>2. cached' \in Int \union {Nothing}
  BY <1>1 DEF ApiInv
<1>3. CASE cached # Nothing /\ Fresh(cached)
  <2> DEFINE call == [calls[c] EXCEPT !.pc = "sent", !.since = now, !.token = cached]
  <2>1. Put(c, call)
    BY <1>3 DEF GetInstallationToken
  <2>2. cached \in Int /\ now + Latency < cached
    BY <1>1, <1>3 DEF ApiInv, Fresh
  <2>3. /\ call.pc = "sent" /\ call.since = now /\ call.token = cached
        /\ {"pc", "since", "token"} \subseteq DOMAIN call
    BY <1>1 DEF CallOK
  <2> HIDE DEF call
  <2>4. CallOK(call)
    BY <1>1, <2>2, <2>3 DEF CallOK, UnderWay
  <2> QED BY <1>1, <1>2, <2>1, <2>4, PutKeeps
<1>4. CASE ~ (cached # Nothing /\ Fresh(cached))
  <2> DEFINE call == [calls[c] EXCEPT !.pc = "exchange", !.since = now]
  <2>1. Put(c, call)
    BY <1>4 DEF GetInstallationToken
  <2>2. call.pc = "exchange" /\ call.since = now /\ {"pc", "since", "token"} \subseteq DOMAIN call
    BY <1>1 DEF CallOK
  <2> HIDE DEF call
  <2>3. CallOK(call)
    BY <1>1, <2>2 DEF CallOK, UnderWay
  <2> QED BY <1>1, <1>2, <2>1, <2>3, PutKeeps
<1> QED BY <1>3, <1>4

\* A token that has just been granted outlives the exchange and the request.
LEMMA RefreshKeeps ==
  ASSUME ApiInv, NEW c \in Calls, RefreshToken(c)
  PROVE  ApiInv'
<1>1. /\ calls[c].pc = "exchange" /\ CallOK(calls[c]) /\ now \in Nat
      /\ UNCHANGED <<now, overdue>>
      /\ {Latency, Life} \subseteq Nat /\ 2 * Latency < Life
  BY TimingAssumption DEF ApiInv, RefreshToken
<1>2. CASE Answered(c, "error") /\ UNCHANGED cached
  BY <1>1, <1>2, AnswerKeeps DEF ApiInv
<1>3. CASE ~ (Answered(c, "error") /\ UNCHANGED cached)
  <2>1. PICK issued \in calls[c].since..now :
          /\ cached' = issued + Life
          /\ Put(c, [calls[c] EXCEPT !.pc = "sent", !.since = now, !.token = issued + Life])
    BY <1>3 DEF RefreshToken
  <2> DEFINE call == [calls[c] EXCEPT !.pc = "sent", !.since = now, !.token = issued + Life]
  <2>2. /\ call.pc = "sent" /\ call.since = now /\ call.token = issued + Life
        /\ {"pc", "since", "token"} \subseteq DOMAIN call
    BY <1>1 DEF CallOK
  <2>3. Put(c, call)
    BY <2>1
  <2> HIDE DEF call
  <2>4. issued \in Int /\ now + Latency < issued + Life
    BY <1>1 DEF CallOK, UnderWay
  <2>5. CallOK(call)
    BY <1>1, <2>2, <2>4 DEF CallOK, UnderWay
  <2>6. cached' \in Int \union {Nothing}
    BY <1>1, <2>1, <2>4
  <2> QED BY <1>1, <2>3, <2>5, <2>6, PutKeeps
<1> QED BY <1>2, <1>3

LEMMA RequestKeeps ==
  ASSUME ApiInv, NEW c \in Calls, Request(c)
  PROVE  ApiInv'
<1>1. calls[c].pc = "sent" /\ CallOK(calls[c]) /\ now \in Nat /\ Latency \in Nat
  BY TimingAssumption DEF ApiInv, Request
<1>2. ~ (calls[c].token <= now)
  BY <1>1 DEF CallOK, UnderWay
<1>3. UNCHANGED <<now, cached, overdue>>
  <2>1. overdue = FALSE /\ overdue' = (overdue \/ calls[c].token <= now)
    BY DEF Request, ApiInv
  <2>2. overdue' = FALSE
    BY <1>2, <2>1
  <2> QED BY <2>1, <2>2 DEF Request
<1>4. PICK answer \in {"data", "none", "error"} : Answered(c, answer)
  BY DEF Request
<1> QED BY <1>1, <1>3, <1>4, AnswerKeeps DEF ApiInv

----------------------------------------------------------------------------

\* A request that GitHub receives carries a token that is still good, for any
\* number of calls and any cache they left each other (buildHeaders and
\* TOKEN_EXPIRY_MARGIN_MS of the GitHub client).
THEOREM NoExpiredToken == ApiSpec => []TokensAreLive
<1>1. ApiInit => ApiInv
  <2> SUFFICES ASSUME ApiInit PROVE ApiInv
    OBVIOUS
  <2>1. CallOK(Idle)
    BY DEF CallOK, Idle
  <2> QED BY <2>1 DEF ApiInit, ApiInv
<1>2. ApiInv /\ [ApiNext]_apiVars => ApiInv'
  <2> SUFFICES ASSUME ApiInv, [ApiNext]_apiVars PROVE ApiInv'
    OBVIOUS
  <2>1. ASSUME NEW c \in Calls,
               \/ \E kind \in {"commit", "repos"} : Call(c, kind)
               \/ GetInstallationToken(c) \/ RefreshToken(c) \/ Request(c)
        PROVE  ApiInv'
    BY <2>1, CallKeeps, TokenKeeps, RefreshKeeps, RequestKeeps
  <2>2. CASE UNCHANGED apiVars
    BY <2>2 DEF apiVars, ApiInv, CallOK, UnderWay
  <2> QED BY <2>1, <2>2, EditKeeps, TickKeeps DEF ApiNext
<1>3. ApiInv => TokensAreLive
  BY DEF ApiInv, TokensAreLive
<1> QED BY <1>1, <1>2, <1>3, PTL DEF ApiSpec

----------------------------------------------------------------------------
(* The list of an installation's repositories                               *)

ListingFields ==
  {"kind", "pc", "since", "token", "names", "page", "asked", "shifted", "cut"}

\* A listing nothing was taken from: while it runs it holds the pages before the
\* one it asks for, and GitHub's list is the one it began with.
Listed(r, list) ==
  /\ r.asked \in Seq(Nat)
  /\ r.pc \in {"headers", "exchange", "sent"} =>
       /\ r.asked = list
       /\ r.page \in 1..MAX_PAGES
       /\ (r.page - 1) * PageSize <= Len(list)
       /\ r.names = SubSeq(list, 1, (r.page - 1) * PageSize)
  /\ r.pc = "done" => r.names = Slice(r.asked, 1, MAX_PAGES * PageSize)

ListingOK(r, list) ==
  /\ {"kind", "pc"} \subseteq DOMAIN r
  /\ r.pc \in {"idle", "headers", "exchange", "sent", "done", "failed"}
  /\ r.pc # "idle" => r.kind \in {"commit", "repos"}
  /\ r.kind = "repos" /\ r.pc # "idle" =>
       /\ ListingFields \subseteq DOMAIN r
       /\ ~ r.shifted /\ ~ r.cut => Listed(r, list)

ListingInv ==
  /\ repos \in Seq(Nat)
  /\ DOMAIN calls = Calls
  /\ \A c \in Calls : ListingOK(calls[c], repos)

----------------------------------------------------------------------------

\* A page put after the pages before it.
LEMMA PagesJoin ==
  ASSUME NEW s \in Seq(Nat), NEW m \in Nat, NEW n \in Nat, m <= n, n <= Len(s)
  PROVE  SubSeq(s, 1, m) \o SubSeq(s, m + 1, n) = SubSeq(s, 1, n)
<1> DEFINE a == SubSeq(s, 1, m)
           b == SubSeq(s, m + 1, n)
           c == SubSeq(s, 1, n)
<1>1. a \in Seq(Nat) /\ Len(a) = m /\ \A i \in 1..m : a[i] = s[i]
  BY SubSeqProperties
<1>2. b \in Seq(Nat) /\ Len(b) = n - m /\ \A i \in 1..(n - m) : b[i] = s[m + i]
  BY SubSeqProperties
<1>3. c \in Seq(Nat) /\ Len(c) = n /\ \A i \in 1..n : c[i] = s[i]
  BY SubSeqProperties
<1> HIDE DEF a, b, c
<1> DEFINE d == a \o b
<1>4. /\ d \in Seq(Nat) /\ Len(d) = m + (n - m)
      /\ \A i \in 1..(m + (n - m)) : d[i] = IF i <= m THEN a[i] ELSE b[i - m]
  <2>1. /\ d \in Seq(Nat) /\ Len(d) = Len(a) + Len(b)
        /\ \A i \in 1..(Len(a) + Len(b)) : d[i] = IF i <= Len(a) THEN a[i] ELSE b[i - Len(a)]
    BY <1>1, <1>2, ConcatProperties, ZenonT(60)
  <2> HIDE DEF d
  <2> QED BY <1>1, <1>2, <2>1
<1>5. ASSUME NEW i \in 1..n PROVE d[i] = c[i]
  <2> HIDE DEF d
  <2>1. i \in Nat /\ i \in 1..(m + (n - m)) /\ c[i] = s[i]
    BY <1>3
  <2>2. CASE i <= m
    BY <1>1, <1>4, <2>1, <2>2
  <2>3. CASE ~ (i <= m)
    <3>1. d[i] = b[i - m] /\ i - m \in 1..(n - m) /\ m + (i - m) = i
      BY <1>4, <2>1, <2>3
    <3> QED BY <1>2, <2>1, <3>1
  <2> QED BY <2>2, <2>3
<1>6. d = c
  <2> HIDE DEF d
  <2>1. Len(d) = Len(c) /\ \A i \in 1..Len(d) : d[i] = c[i]
    BY <1>3, <1>4, <1>5
  <2> QED BY <1>3, <1>4, <2>1, SeqEqual
<1> QED BY <1>6 DEF a, b, c

\* What the pages of a list are, and where they end.
LEMMA PagesOf ==
  ASSUME NEW s \in Seq(Nat), NEW n \in 1..MAX_PAGES,
         (n - 1) * PageSize <= Len(s), repos = s
  PROVE  LET names == SubSeq(s, 1, (n - 1) * PageSize) \o PageOf(n) IN
         /\ Len(PageOf(n)) < PageSize \/ n = MAX_PAGES
              => names = Slice(s, 1, MAX_PAGES * PageSize)
         /\ ~ (Len(PageOf(n)) < PageSize \/ n = MAX_PAGES)
              => /\ n + 1 \in 1..MAX_PAGES
                 /\ n * PageSize <= Len(s)
                 /\ names = SubSeq(s, 1, n * PageSize)
<1> DEFINE lo == (n - 1) * PageSize
           hi == n * PageSize
           all == MAX_PAGES * PageSize
           end == IF hi < Len(s) THEN hi ELSE Len(s)
<1>0. n \in Nat /\ MAX_PAGES \in Nat /\ PageSize \in Nat /\ PageSize > 0 /\ Len(s) \in Nat
  BY TimingAssumption, PagesAssumption
<1>1. lo \in Nat /\ hi \in Nat /\ all \in Nat /\ hi = lo + PageSize /\ hi <= all
  <2>1. hi = lo + PageSize /\ lo \in Int
    BY <1>0
  <2>2. lo >= 0
    BY <1>0
  <2>3. all - hi = (MAX_PAGES - n) * PageSize
    BY <1>0
  <2>4. (MAX_PAGES - n) * PageSize >= 0
    BY <1>0
  <2> QED BY <1>0, <2>1, <2>2, <2>3, <2>4
<1>2. n = MAX_PAGES => hi = all
  OBVIOUS
<1>3. PageOf(n) = SubSeq(s, lo + 1, end)
  BY DEF PageOf, Slice
<1>4. Slice(s, 1, all) = SubSeq(s, 1, IF all < Len(s) THEN all ELSE Len(s))
  BY DEF Slice
<1>5. lo <= Len(s)
  OBVIOUS
<1> HIDE DEF lo, hi, all
<1>6. end \in Nat /\ lo <= end /\ end <= Len(s)
  BY <1>0, <1>1, <1>5
<1>7. Len(PageOf(n)) = end - lo
  <2>1. Len(SubSeq(s, lo + 1, end)) = IF lo + 1 <= end THEN end - (lo + 1) + 1 ELSE 0
    BY <1>1, <1>6, SubSeqProperties
  <2> QED BY <1>1, <1>3, <1>6, <2>1, SMTT(30)
<1> HIDE DEF end
<1>8. SubSeq(s, 1, lo) \o PageOf(n) = SubSeq(s, 1, end)
  BY <1>1, <1>3, <1>6, PagesJoin, ZenonT(60)
<1>9. end = IF hi < Len(s) THEN hi ELSE Len(s)
  BY DEF end
<1>10. CASE Len(PageOf(n)) < PageSize \/ n = MAX_PAGES
  <2>1. CASE n = MAX_PAGES
    BY <1>2, <1>4, <1>8, <1>9, <2>1 DEF lo, all
  <2>2. CASE Len(PageOf(n)) < PageSize
    <3>1. Len(s) < hi /\ end = Len(s)
      BY <1>0, <1>1, <1>7, <1>9, <2>2
    <3>2. ~ (all < Len(s))
      BY <1>0, <1>1, <3>1
    <3>3. SubSeq(s, 1, lo) \o PageOf(n) = Slice(s, 1, all)
      BY <1>4, <1>8, <3>1, <3>2
    <3> QED BY <1>10, <3>3 DEF lo, all
  <2> QED BY <1>10, <2>1, <2>2
<1>11. CASE ~ (Len(PageOf(n)) < PageSize \/ n = MAX_PAGES)
  <2>1. end = hi /\ hi <= Len(s)
    BY <1>0, <1>1, <1>6, <1>7, <1>9, <1>11, SMTT(30)
  <2> QED BY <1>0, <1>8, <1>11, <2>1 DEF lo, hi
<1> QED BY <1>10, <1>11

\* What ends or goes on keeps its listing.
LEMMA EndedKeepsFields ==
  ASSUME NEW r, ListingFields \subseteq DOMAIN r
  PROVE  /\ \A pc \in {"done", "failed"} :
              /\ ListingFields \subseteq DOMAIN Ended(r, pc)
              /\ Ended(r, pc).pc = pc
              /\ Ended(r, pc).kind = r.kind /\ Ended(r, pc).names = r.names
              /\ Ended(r, pc).asked = r.asked /\ Ended(r, pc).shifted = r.shifted
              /\ Ended(r, pc).cut = r.cut
         /\ ListingFields \subseteq DOMAIN Again(r)
         /\ Again(r).pc = "headers"
         /\ Again(r).kind = r.kind /\ Again(r).names = r.names
         /\ Again(r).asked = r.asked /\ Again(r).shifted = r.shifted
         /\ Again(r).cut = r.cut /\ Again(r).page = r.page
BY DEF Ended, Again, ListingFields

\* The listing that goes on or ends.
LEMMA ListGoesOn ==
  ASSUME NEW r, repos \in Seq(Nat), ListingOK(r, repos), r.kind = "repos",
         r.pc \in {"headers", "exchange", "sent"}, NEW answer
  PROVE  ListingOK(ListInstallationRepositories(r, answer), repos)
<1> DEFINE out  == ListInstallationRepositories(r, answer)
           cut  == [r EXCEPT !.cut = TRUE]
           next == [r EXCEPT !.names = r.names \o PageOf(r.page)]
           more == [next EXCEPT !.page = next.page + 1]
<1>0. ListingFields \subseteq DOMAIN r
  BY DEF ListingOK
<1>1. CASE answer = "error"
  <2>1. out = Ended(r, "failed")
    BY <1>1 DEF ListInstallationRepositories
  <2> HIDE DEF out
  <2>2. ListingOK(out, repos)
    BY <1>0, <2>1, EndedKeepsFields DEF ListingOK, Listed, ListingFields
  <2> QED BY <2>2 DEF out
<1>2. CASE answer # "error" /\ answer = "none"
  <2>1. out = Ended(cut, "done")
    BY <1>2 DEF ListInstallationRepositories
  <2>2. ListingFields \subseteq DOMAIN cut /\ cut.kind = "repos" /\ cut.cut
    BY <1>0 DEF ListingFields
  <2> HIDE DEF out, cut
  <2>3. ListingOK(out, repos)
    BY <2>1, <2>2, EndedKeepsFields DEF ListingOK, ListingFields
  <2> QED BY <2>3 DEF out
<1>3. CASE answer # "error" /\ answer # "none"
  <2> DEFINE last == Len(PageOf(r.page)) < PageSize \/ r.page = MAX_PAGES
  <2>1. out = IF last THEN Ended(next, "done") ELSE Again(more)
    BY <1>3 DEF ListInstallationRepositories
  <2>2. /\ ListingFields \subseteq DOMAIN next /\ next.kind = "repos"
        /\ next.names = r.names \o PageOf(r.page) /\ next.page = r.page
        /\ next.asked = r.asked /\ next.shifted = r.shifted /\ next.cut = r.cut
    BY <1>0 DEF ListingFields
  <2> HIDE DEF next
  <2>3. /\ ListingFields \subseteq DOMAIN more /\ more.kind = "repos"
        /\ more.names = next.names /\ more.page = r.page + 1
        /\ more.asked = r.asked /\ more.shifted = r.shifted /\ more.cut = r.cut
    BY <2>2 DEF ListingFields
  <2> HIDE DEF out, more
  <2>4. CASE ~ r.shifted /\ ~ r.cut
    <3>1. Listed(r, repos)
      BY <2>4 DEF ListingOK
    <3> DEFINE n == r.page
    <3>2. /\ r.asked = repos /\ n \in 1..MAX_PAGES
          /\ (n - 1) * PageSize <= Len(repos)
          /\ r.names = SubSeq(repos, 1, (n - 1) * PageSize)
      BY <3>1 DEF Listed
    <3> HIDE DEF n
    <3>3. /\ last => next.names = Slice(repos, 1, MAX_PAGES * PageSize)
          /\ ~ last => /\ n + 1 \in 1..MAX_PAGES
                       /\ n * PageSize <= Len(repos)
                       /\ next.names = SubSeq(repos, 1, n * PageSize)
      <4>1. PageOf(n) = PageOf(r.page) /\ n = r.page
        BY DEF n
      <4> QED BY <2>2, <3>2, <4>1, PagesOf
    <3>4. n = r.page /\ n \in Int
      BY <3>2 DEF n
    <3> HIDE DEF last
    <3>5. CASE last
      <4>1. /\ out.pc = "done" /\ out.kind = "repos" /\ out.asked = repos /\ ListingFields \subseteq DOMAIN out
            /\ out.names = Slice(out.asked, 1, MAX_PAGES * PageSize)
        BY <2>1, <2>2, <3>2, <3>3, <3>5, EndedKeepsFields
      <4> QED BY <4>1 DEF ListingOK, Listed, ListingFields, out
    <3>6. CASE ~ last
      <4>1. /\ out.pc = "headers" /\ out.kind = "repos" /\ out.asked = repos /\ ListingFields \subseteq DOMAIN out
            /\ out.page = n + 1 /\ out.names = SubSeq(repos, 1, n * PageSize)
        BY <2>1, <2>2, <2>3, <3>2, <3>3, <3>4, <3>6, EndedKeepsFields
      <4>2. (out.page - 1) * PageSize = n * PageSize
        <5>1. out.page - 1 = n
          BY <3>4, <4>1
        <5> QED BY <5>1
      <4>3. Listed(out, repos)
        BY <3>3, <3>6, <4>1, <4>2 DEF Listed
      <4> QED BY <4>1, <4>3 DEF ListingOK, ListingFields, out
    <3> QED BY <3>5, <3>6
  <2>5. CASE ~ (~ r.shifted /\ ~ r.cut)
    <3>1. /\ out.pc \in {"done", "headers"} /\ out.kind = "repos" /\ ListingFields \subseteq DOMAIN out
          /\ ~ (~ out.shifted /\ ~ out.cut)
      BY <2>1, <2>2, <2>3, <2>5, EndedKeepsFields
    <3> QED BY <3>1 DEF ListingOK, ListingFields, out
  <2> QED BY <2>4, <2>5
<1> QED BY <1>1, <1>2, <1>3

\* A resolution of a commit stays one.
LEMMA ResolveStays ==
  ASSUME NEW r, {"kind", "pc"} \subseteq DOMAIN r, r.kind = "commit",
         NEW answer, NEW q \in ResolveCommit(r, answer), NEW list
  PROVE  ListingOK(q, list)
<1>0. ASSUME NEW x, {"kind", "pc"} \subseteq DOMAIN x, x.kind = "commit"
      PROVE  /\ ListingOK(Ended(x, "done"), list) /\ ListingOK(Ended(x, "failed"), list)
             /\ ListingOK(Again(x), list)
  BY <1>0 DEF ListingOK, Ended, Again
<1>1. CASE r.listed = Nothing
  <2>1. CASE answer = "error"
    BY <1>0, <1>1, <2>1 DEF ResolveCommit
  <2>2. CASE answer # "error" /\ answer = "none"
    <3> DEFINE x == [r EXCEPT !.listed = << >>]
    <3>1. q = Ended(x, "done")
      BY <1>1, <2>2 DEF ResolveCommit
    <3>2. {"kind", "pc"} \subseteq DOMAIN x /\ x.kind = "commit"
      OBVIOUS
    <3> HIDE DEF x
    <3> QED BY <1>0, <3>1, <3>2
  <2>3. CASE answer # "error" /\ answer # "none"
    <3>1. PICK order \in SetToSeqs(Pulls) :
            q = Again([r EXCEPT !.todo = order,
                  !.listed = [i \in DOMAIN order |->
                     [pull |-> order[i], tip |-> pulls[order[i]].tip,
                      confidence |-> ComputeConfidence(pulls[order[i]])]]])
      BY <1>1, <2>3 DEF ResolveCommit
    <3> DEFINE list1 == [i \in DOMAIN order |->
                     [pull |-> order[i], tip |-> pulls[order[i]].tip,
                      confidence |-> ComputeConfidence(pulls[order[i]])]]
               x == [r EXCEPT !.todo = order, !.listed = list1]
    <3>2. q = Again(x)
      BY <3>1
    <3> HIDE DEF list1
    <3>3. {"kind", "pc"} \subseteq DOMAIN x /\ x.kind = "commit"
      OBVIOUS
    <3> HIDE DEF x
    <3> QED BY <1>0, <3>2, <3>3
  <2> QED BY <2>1, <2>2, <2>3
<1>2. CASE r.listed # Nothing
  <2>1. PICK todo, read, refs :
          LET x == [r EXCEPT !.todo = todo, !.read = read, !.refs = refs]
          IN  q = Ended(x, "done") \/ q = Again(x)
    BY <1>2 DEF ResolveCommit
  <2> DEFINE x == [r EXCEPT !.todo = todo, !.read = read, !.refs = refs]
  <2>2. {"kind", "pc"} \subseteq DOMAIN x /\ x.kind = "commit"
    OBVIOUS
  <2>3. q = Ended(x, "done") \/ q = Again(x)
    BY <2>1
  <2> HIDE DEF x
  <2> QED BY <1>0, <2>2, <2>3
<1> QED BY <1>1, <1>2

LEMMA PutKeepsListings ==
  ASSUME ListingInv, NEW c \in Calls, NEW r, Put(c, r), ListingOK(r, repos), UNCHANGED repos
  PROVE  ListingInv'
BY DEF ListingInv, Put

LEMMA AnswerKeepsListings ==
  ASSUME ListingInv, NEW c \in Calls, calls[c].pc \in {"exchange", "sent"}, NEW answer,
         Answered(c, answer), UNCHANGED repos
  PROVE  ListingInv'
<1>0. ListingOK(calls[c], repos) /\ repos \in Seq(Nat)
  BY DEF ListingInv
<1>1. CASE calls[c].kind = "commit"
  <2>1. PICK q \in ResolveCommit(calls[c], answer) : Put(c, q)
    BY <1>1 DEF Answered
  <2>2. {"kind", "pc"} \subseteq DOMAIN calls[c]
    BY <1>0 DEF ListingOK
  <2> QED BY <1>1, <2>1, <2>2, ResolveStays, PutKeepsListings
<1>2. CASE calls[c].kind # "commit"
  <2>1. Put(c, ListInstallationRepositories(calls[c], answer))
    BY <1>2 DEF Answered
  <2>2. calls[c].kind = "repos"
    BY <1>0, <1>2 DEF ListingOK
  <2> QED BY <1>0, <2>1, <2>2, ListGoesOn, PutKeepsListings
<1> QED BY <1>1, <1>2

\* A change on GitHub marks the listings it disturbs.
LEMMA EditKeepsListings ==
  ASSUME ListingInv, Edit
  PROVE  ListingInv'
<1>1. CASE UNCHANGED <<repos, calls>>
  BY <1>1 DEF ListingInv
<1>2. CASE ~ UNCHANGED <<repos, calls>>
  <2>1. PICK k \in DOMAIN repos : repos' = RemoveAt(repos, k)
    BY <1>2 DEF Edit
  <2>2. calls' = [c \in Calls |->
          IF Running(c) /\ calls[c].kind = "repos" THEN [calls[c] EXCEPT !.shifted = TRUE]
          ELSE calls[c]]
    BY <1>2 DEF Edit
  <2>3. repos' \in Seq(Nat)
    <3>1. repos \in Seq(Nat) /\ k \in 1..Len(repos)
      BY DEF ListingInv
    <3>2. SubSeq(repos, 1, k - 1) \in Seq(Nat) /\ SubSeq(repos, k + 1, Len(repos)) \in Seq(Nat)
      BY <3>1, SubSeqProperties
    <3> QED BY <2>1, <3>2, ConcatProperties DEF RemoveAt
  <2>4. ASSUME NEW c \in Calls
        PROVE  ListingOK(calls[c], repos)'
    <3>1. ListingOK(calls[c], repos)
      BY DEF ListingInv
    <3>2. CASE Running(c) /\ calls[c].kind = "repos"
      <4> DEFINE x == [calls[c] EXCEPT !.shifted = TRUE]
      <4>1. ListingFields \subseteq DOMAIN calls[c]
        BY <3>1, <3>2 DEF ListingOK, Running
      <4>2. ListingFields \subseteq DOMAIN x /\ x.shifted /\ x.pc = calls[c].pc /\ x.kind = "repos"
        BY <3>2, <4>1 DEF ListingFields
      <4>3. calls'[c] = x
        BY <2>2, <3>2
      <4> HIDE DEF x
      <4> QED BY <3>1, <4>2, <4>3 DEF ListingOK, ListingFields
    <3>3. CASE ~ (Running(c) /\ calls[c].kind = "repos")
      <4>1. calls'[c] = calls[c]
        BY <2>2, <3>3
      <4> QED BY <3>1, <3>3, <4>1 DEF ListingOK, Listed, Running
    <3> QED BY <3>2, <3>3
  <2> QED BY <2>2, <2>3, <2>4 DEF ListingInv
<1> QED BY <1>1, <1>2

LEMMA CallKeepsListings ==
  ASSUME ListingInv, NEW c \in Calls, NEW kind \in {"commit", "repos"}, Call(c, kind)
  PROVE  ListingInv'
<1>1. Put(c, NewCall(kind)) /\ UNCHANGED repos /\ repos \in Seq(Nat)
  BY DEF Call, ListingInv
<1>2. ListingOK(NewCall(kind), repos)
  <2>1. (1 - 1) * PageSize = 0 /\ 1 \in 1..MAX_PAGES /\ Len(repos) \in Nat
    BY <1>1, TimingAssumption, PagesAssumption
  <2>2. SubSeq(repos, 1, 0) = << >>
    BY <1>1, SubSeqEmpty
  <2>3. Listed(NewCall(kind), repos)
    BY <1>1, <2>1, <2>2 DEF Listed, NewCall
  <2> QED BY <2>3 DEF ListingOK, ListingFields, NewCall
<1> QED BY <1>1, <1>2, PutKeepsListings

\* Only the token and the time of a call change.
LEMMA WaitKeepsListings ==
  ASSUME ListingInv, NEW c \in Calls, calls[c].pc \in {"headers", "exchange"},
         NEW x, Put(c, x), DOMAIN x = DOMAIN calls[c], x.pc \in {"exchange", "sent"},
         \A f \in DOMAIN x : f \notin {"pc", "since", "token"} => x[f] = calls[c][f],
         UNCHANGED repos
  PROVE  ListingInv'
<1>1. ListingOK(calls[c], repos)
  BY DEF ListingInv
<1>2. x.kind = calls[c].kind /\ {"kind", "pc"} \subseteq DOMAIN x
  BY <1>1 DEF ListingOK
<1>3. CASE x.kind = "repos"
  <2>1. ListingFields \subseteq DOMAIN x
    BY <1>1, <1>2, <1>3 DEF ListingOK
  <2>2. /\ x.names = calls[c].names /\ x.page = calls[c].page /\ x.asked = calls[c].asked
        /\ x.shifted = calls[c].shifted /\ x.cut = calls[c].cut
    BY <2>1 DEF ListingFields
  <2>3. ListingOK(x, repos)
    BY <1>1, <1>2, <1>3, <2>1, <2>2 DEF ListingOK, Listed
  <2> QED BY <2>3, PutKeepsListings
<1>4. CASE x.kind # "repos"
  <2>1. ListingOK(x, repos)
    BY <1>1, <1>2, <1>4 DEF ListingOK
  <2> QED BY <2>1, PutKeepsListings
<1> QED BY <1>3, <1>4

LEMMA TokenKeepsListings ==
  ASSUME ListingInv, NEW c \in Calls, GetInstallationToken(c)
  PROVE  ListingInv'
<1>0. calls[c].pc = "headers" /\ UNCHANGED repos /\ {"kind", "pc"} \subseteq DOMAIN calls[c]
  BY DEF GetInstallationToken, ListingInv, ListingOK
<1>1. CASE cached # Nothing /\ Fresh(cached)
  <2> DEFINE x == [calls[c] EXCEPT !.pc = "sent", !.since = now, !.token = cached]
  <2>1. Put(c, x)
    BY <1>1 DEF GetInstallationToken
  <2>2. /\ DOMAIN x = DOMAIN calls[c] /\ x.pc = "sent"
        /\ \A f \in DOMAIN x : f \notin {"pc", "since", "token"} => x[f] = calls[c][f]
    BY <1>0
  <2> HIDE DEF x
  <2> QED BY <1>0, <2>1, <2>2, WaitKeepsListings
<1>2. CASE ~ (cached # Nothing /\ Fresh(cached))
  <2> DEFINE x == [calls[c] EXCEPT !.pc = "exchange", !.since = now]
  <2>1. Put(c, x)
    BY <1>2 DEF GetInstallationToken
  <2>2. /\ DOMAIN x = DOMAIN calls[c] /\ x.pc = "exchange"
        /\ \A f \in DOMAIN x : f \notin {"pc", "since", "token"} => x[f] = calls[c][f]
    BY <1>0
  <2> HIDE DEF x
  <2> QED BY <1>0, <2>1, <2>2, WaitKeepsListings
<1> QED BY <1>1, <1>2

LEMMA RefreshKeepsListings ==
  ASSUME ListingInv, NEW c \in Calls, RefreshToken(c)
  PROVE  ListingInv'
<1>0. calls[c].pc = "exchange" /\ UNCHANGED repos /\ {"kind", "pc"} \subseteq DOMAIN calls[c]
  BY DEF RefreshToken, ListingInv, ListingOK
<1>1. CASE Answered(c, "error")
  BY <1>0, <1>1, AnswerKeepsListings
<1>2. CASE ~ Answered(c, "error")
  <2>1. PICK issued \in calls[c].since..now :
          Put(c, [calls[c] EXCEPT !.pc = "sent", !.since = now, !.token = issued + Life])
    BY <1>2 DEF RefreshToken
  <2> DEFINE x == [calls[c] EXCEPT !.pc = "sent", !.since = now, !.token = issued + Life]
  <2>2. /\ DOMAIN x = DOMAIN calls[c] /\ x.pc = "sent"
        /\ \A f \in DOMAIN x : f \notin {"pc", "since", "token"} => x[f] = calls[c][f]
    BY <1>0
  <2>3. Put(c, x)
    BY <2>1
  <2> HIDE DEF x
  <2> QED BY <1>0, <2>2, <2>3, WaitKeepsListings
<1> QED BY <1>1, <1>2

\* A listing that GitHub answered to the end, and during which nothing was taken
\* away, is GitHub's list in its order, up to the cap, for any list of repositories and
\* any page size (listInstallationRepositories stops at a page that is not full).
THEOREM ListingsAreComplete == ApiSpec => []ListingIsComplete
<1>1. ApiInit => ListingInv
  BY PagesAssumption DEF ApiInit, ListingInv, ListingOK, Idle
<1>2. ListingInv /\ [ApiNext]_apiVars => ListingInv'
  <2> SUFFICES ASSUME ListingInv, [ApiNext]_apiVars PROVE ListingInv'
    OBVIOUS
  <2>1. CASE UNCHANGED apiVars
    BY <2>1 DEF apiVars, ListingInv
  <2>2. CASE Tick
    BY <2>2 DEF Tick, ListingInv
  <2>3. ASSUME NEW c \in Calls, Request(c) PROVE ListingInv'
    BY <2>3, AnswerKeepsListings DEF Request
  <2> QED BY <2>1, <2>2, <2>3, EditKeepsListings, CallKeepsListings, TokenKeepsListings, RefreshKeepsListings DEF ApiNext
<1>3. ListingInv => ListingIsComplete
  <2> SUFFICES ASSUME ListingInv, NEW c \in Calls, calls[c].kind = "repos",
                      calls[c].pc = "done", ~ calls[c].shifted, ~ calls[c].cut
               PROVE  calls[c].names = Slice(calls[c].asked, 1, MAX_PAGES * PageSize)
    BY DEF ListingIsComplete
  <2> QED BY DEF ListingInv, ListingOK, Listed
<1> QED BY <1>1, <1>2, <1>3, PTL DEF ApiSpec

----------------------------------------------------------------------------
(* What is made of webhooks                                                 *)

Review == "pull_request_review"

\* The times of an object, of which a payload may lack some, up to a moment: the
\* first is the earliest, the last change the latest, and only reviews are dismissed.
Until(x, at) == x # Nil => x \in Nat /\ x <= at
InOrderUntil(t, at, event) ==
  /\ at \in Nat
  /\ {"created", "updated", "dismissed"} \subseteq DOMAIN t
  /\ Until(t.created, at) /\ Until(t.updated, at) /\ Until(t.dismissed, at)
  /\ t.created # Nil /\ t.updated # Nil => t.created <= t.updated
  /\ t.dismissed # Nil =>
       /\ event = Review
       /\ t.created # Nil => t.created <= t.dismissed
       /\ t.updated # Nil => t.dismissed <= t.updated

\* What happens first to an object is dated by it.
BeginsAt(t, at) == t.created \in {at, Nil} /\ t.updated \in {at, Nil} /\ t.dismissed = Nil

\* A body that is not a push is about its object, and carries its times.
TellsOf(b) ==
  b.event # "push" =>
    /\ b.of \in Objects /\ b.event \in EventsOf(b.of)
    /\ b.number = Number(b.of) /\ b.pointer = IsPull(b.number)
    /\ b.html \in HtmlUrls(b.of)
    /\ InOrderUntil(b.times, b.at, b.event)
    /\ b.action \in {"created", "submitted"} => BeginsAt(b.times, b.at)

\* Of a stored event, all but its text is what one of the normalizers made of the body.
MadeOf(e, d, b) ==
  \E when, x : /\ x \in HandleWebhook(d, b, when)
              /\ e.kind = x.kind /\ e.url = x.url /\ e.occurred = x.occurred

\* The event a thread is told of by; of a number it is none of a review's.
KindOf(o) == IF o \in Threads THEN home[o].event ELSE "number"

WorldGood ==
  /\ kindOf \in [Numbers -> {"issue", "pull_request"}]
  /\ home \in [Threads -> [number : Numbers, event : CommentEvents]]
  /\ \A t \in Threads : home[t].event # "issue_comment" => IsPull(home[t].number)
  /\ clock \in Nat
  /\ DOMAIN times = Objects
  /\ \A o \in Objects : times[o] # Nil => InOrderUntil(times[o], clock, KindOf(o))

HookInv ==
  /\ WorldGood
  /\ DOMAIN sent = Deliveries
  /\ \A d \in Deliveries : \A b : b = sent[d] /\ b # Nil => TellsOf(b)
  /\ \A id \in DOMAIN log :
       id[1] \in Deliveries /\ sent[id[1]] # Nil /\ MadeOf(log[id], id[1], sent[id[1]])

----------------------------------------------------------------------------

LEMMA ChangesInOrder ==
  ASSUME NEW u, NEW at, NEW when \in Nat, NEW event, InOrderUntil(u, at, event), at <= when
  PROVE  /\ InOrderUntil(u, when, event)
         /\ InOrderUntil([u EXCEPT !.updated = when], when, event)
         /\ event = Review =>
              InOrderUntil([u EXCEPT !.updated = when, !.dismissed = when], when, event)
<1>1. InOrderUntil(u, when, event)
  BY DEF InOrderUntil, Until
<1> DEFINE v == [u EXCEPT !.updated = when]
           w == [u EXCEPT !.updated = when, !.dismissed = when]
<1>2. /\ v.created = u.created /\ v.updated = when /\ v.dismissed = u.dismissed /\ DOMAIN v = DOMAIN u
      /\ w.created = u.created /\ w.updated = when /\ w.dismissed = when /\ DOMAIN w = DOMAIN u
  BY DEF InOrderUntil
<1> HIDE DEF v, w
<1>3. InOrderUntil(v, when, event)
  BY <1>2 DEF InOrderUntil, Until
<1>4. event = Review => InOrderUntil(w, when, event)
  BY <1>2 DEF InOrderUntil, Until
<1> QED BY <1>1, <1>3, <1>4 DEF v, w

\* What happens leaves the times of its object in order, and so does a payload that
\* lacks some of them.
LEMMA TouchTells ==
  ASSUME WorldGood, NEW o \in Objects, NEW when \in {clock, clock + 1},
         NEW action \in IF times[o] = Nil THEN {FirstAction(o)} ELSE LaterActions(o)
  PROVE  LET t == Touch(o, action, when) IN
         /\ InOrderUntil(t, when, KindOf(o))
         /\ action \in {"created", "submitted"} => BeginsAt(t, when)
<1> DEFINE t == Touch(o, action, when)
<1>0. clock \in Nat /\ when \in Nat /\ clock <= when
  BY DEF WorldGood
<1>1. CASE times[o] = Nil
  <2>1. t = [created |-> when, updated |-> when, dismissed |-> Nil]
    BY <1>1 DEF Touch
  <2> HIDE DEF t
  <2>2. t.created = when /\ t.updated = when /\ t.dismissed = Nil
    BY <2>1
  <2>3. InOrderUntil(t, when, KindOf(o))
    BY <1>0, <2>1, <2>2 DEF InOrderUntil, Until
  <2>4. BeginsAt(t, when)
    BY <2>2 DEF BeginsAt
  <2> QED BY <2>3, <2>4 DEF t
<1>2. CASE times[o] # Nil
  <2> DEFINE u == times[o]
  <2>1. InOrderUntil(u, clock, KindOf(o)) /\ action \notin {"created", "submitted"}
    BY <1>2 DEF WorldGood, LaterActions
  <2>2. \/ t = u
        \/ t = [u EXCEPT !.updated = when]
        \/ action = "dismissed" /\ t = [u EXCEPT !.updated = when, !.dismissed = when]
    BY <1>2 DEF Touch
  <2>3. action = "dismissed" => KindOf(o) = Review
    BY <1>2 DEF LaterActions, KindOf, Review
  <2> HIDE DEF t, u
  <2>4. /\ InOrderUntil(u, when, KindOf(o))
        /\ InOrderUntil([u EXCEPT !.updated = when], when, KindOf(o))
        /\ KindOf(o) = Review =>
             InOrderUntil([u EXCEPT !.updated = when, !.dismissed = when], when, KindOf(o))
    BY <1>0, <2>1, ChangesInOrder
  <2>5. InOrderUntil(t, when, KindOf(o))
    BY <2>2, <2>3, <2>4, Zenon
  <2> QED BY <2>1, <2>5 DEF t
<1> QED BY <1>1, <1>2

LEMMA StampTells ==
  ASSUME NEW t, NEW at, NEW event, InOrderUntil(t, at, event), NEW x \in Stamps(t)
  PROVE  /\ InOrderUntil(x, at, event)
         /\ BeginsAt(t, at) => BeginsAt(x, at)
<1>1. /\ x = [created |-> x.created, updated |-> x.updated, dismissed |-> x.dismissed]
      /\ x.created \in {t.created, Nil} /\ x.updated \in {t.updated, Nil}
      /\ x.dismissed \in {t.dismissed, Nil}
  BY DEF Stamps
<1>2. InOrderUntil(x, at, event)
  BY <1>1 DEF InOrderUntil, Until
<1>3. BeginsAt(t, at) => BeginsAt(x, at)
  BY <1>1 DEF BeginsAt
<1> QED BY <1>2, <1>3

\* What the normalizers choose among the times of a payload.
LEMMA ChosenTime ==
  ASSUME NEW b, TellsOf(b), b.event # "push",
         NEW x, x # Nil, x = ProviderTime(b) \/ (x = LastTime(b) /\ b.event # Review)
  PROVE  x \in Nat /\ x <= b.at /\ (SaysWhen(b) => x = b.at) /\ b.at \in Nat
<1> DEFINE c == b.times.created
           u == b.times.updated
           v == b.times.dismissed
<1>1. /\ InOrderUntil(b.times, b.at, b.event)
      /\ b.action \in {"created", "submitted"} => BeginsAt(b.times, b.at)
  BY DEF TellsOf
<1>2. x \in {c, u, v}
  BY DEF ProviderTime, LastTime, Else
<1>3. x \in Nat /\ x <= b.at /\ b.at \in Nat
  BY <1>1, <1>2 DEF InOrderUntil, Until
<1>4. ASSUME SaysWhen(b) PROVE x = b.at
  <2>1. b.at \in {c, u, v} /\ b.at # Nil
    BY <1>4 DEF SaysWhen
  <2>2. CASE u # Nil /\ x = u
    BY <1>1, <2>1, <2>2 DEF InOrderUntil, Until
  <2>3. CASE b.action \in {"created", "submitted"}
    BY <1>1, <1>2, <2>3 DEF BeginsAt
  <2>4. CASE b.action \notin {"created", "submitted"} /\ ~ (u # Nil /\ x = u)
    <3>1. u = Nil /\ (b.event = Review => x = v) /\ (b.event # Review => x = c)
      BY <2>4 DEF ProviderTime, LastTime, Else, Review
    <3> QED BY <1>1, <2>1, <3>1 DEF InOrderUntil, Until
  <2> QED BY <2>2, <2>3, <2>4
<1> QED BY <1>3, <1>4

LEMMA LogStays ==
  ASSUME HookInv, NEW d \in Deliveries, sent[d] = Nil, NEW b,
         sent' = [sent EXCEPT ![d] = b], UNCHANGED <<kindOf, home, log>>
  PROVE  \A id \in DOMAIN log' :
           id[1] \in Deliveries /\ sent'[id[1]] # Nil /\ MadeOf(log'[id], id[1], sent'[id[1]])
<1> TAKE id \in DOMAIN log'
<1>1. /\ id[1] \in Deliveries /\ sent[id[1]] # Nil /\ MadeOf(log[id], id[1], sent[id[1]])
      /\ id[1] # d
  BY DEF HookInv
<1>2. sent'[id[1]] = sent[id[1]] /\ log'[id] = log[id]
  BY <1>1 DEF HookInv
<1> QED BY <1>1, <1>2

\* Kinds and homes are for ever.
LEMMA TellsStays ==
  ASSUME UNCHANGED <<kindOf, home>>, NEW b, TellsOf(b)
  PROVE  TellsOf(b)'
BY DEF TellsOf, InOrderUntil, Until, BeginsAt, EventsOf, Number, IsPull, HtmlUrls, TrueUrl

LEMMA WorldStays ==
  ASSUME WorldGood, UNCHANGED <<kindOf, home, times, clock>>
  PROVE  WorldGood'
BY DEF WorldGood, InOrderUntil, Until, KindOf, IsPull

LEMMA SendKeeps ==
  ASSUME HookInv, WorldGood', NEW d \in Deliveries, sent[d] = Nil, NEW b, TellsOf(b),
         sent' = [sent EXCEPT ![d] = b], UNCHANGED <<kindOf, home, log>>
  PROVE  HookInv'
<1>1. DOMAIN sent' = Deliveries
  BY DEF HookInv
<1>2. ASSUME NEW c \in Deliveries, NEW x, x = sent'[c], x # Nil
      PROVE  TellsOf(x)'
  <2>1. TellsOf(x)
    BY <1>2 DEF HookInv
  <2> QED BY <2>1, TellsStays
<1> QED BY <1>1, <1>2, LogStays DEF HookInv

\* Redaction takes something from the text, and nothing else.
LEMMA RedactKeeps ==
  ASSUME NEW d, NEW b, NEW when, NEW x \in HandleWebhook(d, b, when)
  PROVE  /\ Redact(x).delivery = d
         /\ Redact(x).kind = x.kind /\ Redact(x).url = x.url /\ Redact(x).occurred = x.occurred
<1>1. PICK kind, item, url, occurred, payload :
        x = NormalizedEvent(d, kind, item, url, occurred, payload)
  BY DEF HandleWebhook, NormalizePushEvent, NormalizePullRequestEvent, NormalizeGithubIssueEvent,
         NormalizeCommentEvent
<1> QED BY <1>1 DEF NormalizedEvent, Redact

LEMMA HappensKeeps ==
  ASSUME HookInv, NEW d \in Deliveries, NEW o \in Objects, Happens(d, o)
  PROVE  HookInv'
<1>1. PICK action \in IF times[o] = Nil THEN {FirstAction(o)} ELSE LaterActions(o),
           when \in {clock, clock + 1} :
       LET t == Touch(o, action, when) IN
       \E event \in EventsOf(o), html \in HtmlUrls(o), stamp \in Stamps(t) :
         /\ ~ Odd(o, html, stamp, t)
         /\ times' = [times EXCEPT ![o] = t]
         /\ sent' = [sent EXCEPT ![d] =
              [event |-> event, action |-> action, of |-> o, at |-> when, number |-> Number(o),
               pointer |-> IsPull(Number(o)), html |-> html, text |-> BODY, times |-> stamp]]
         /\ clock' = when
  BY DEF Happens
<1> DEFINE t == Touch(o, action, when)
<1>2. PICK event \in EventsOf(o), html \in HtmlUrls(o), stamp \in Stamps(t) :
         /\ times' = [times EXCEPT ![o] = t]
         /\ sent' = [sent EXCEPT ![d] =
              [event |-> event, action |-> action, of |-> o, at |-> when, number |-> Number(o),
               pointer |-> IsPull(Number(o)), html |-> html, text |-> BODY, times |-> stamp]]
         /\ clock' = when
  BY <1>1
<1> DEFINE b == [event |-> event, action |-> action, of |-> o, at |-> when, number |-> Number(o),
               pointer |-> IsPull(Number(o)), html |-> html, text |-> BODY, times |-> stamp]
<1>3. /\ sent[d] = Nil /\ clock \in Nat /\ when \in Nat /\ clock <= when
      /\ UNCHANGED <<kindOf, home, log>>
  BY DEF Happens, IsNext, HookInv, WorldGood
<1>4. /\ InOrderUntil(t, when, KindOf(o))
      /\ action \in {"created", "submitted"} => BeginsAt(t, when)
  BY TouchTells DEF HookInv
<1>5. sent' = [sent EXCEPT ![d] = b] /\ times' = [times EXCEPT ![o] = t] /\ clock' = when
  BY <1>2
<1> HIDE DEF t
<1>6. TellsOf(b)
  <2>1. /\ InOrderUntil(stamp, when, KindOf(o))
        /\ action \in {"created", "submitted"} => BeginsAt(stamp, when)
    BY <1>4, StampTells
  <2>2. InOrderUntil(stamp, when, event)
    <3>1. KindOf(o) = Review => event = Review
      BY DEF KindOf, EventsOf, Review
    <3> QED BY <2>1, <3>1 DEF InOrderUntil, Until
  <2> QED BY <2>1, <2>2 DEF TellsOf
<1>7. WorldGood'
  <2>1. ASSUME NEW p \in Objects, times'[p] # Nil
        PROVE  InOrderUntil(times'[p], when, KindOf(p))
    <3>1. CASE p = o
      BY <1>4, <1>5, <3>1 DEF HookInv, WorldGood
    <3>2. CASE p # o
      <4>1. times'[p] = times[p] /\ InOrderUntil(times[p], clock, KindOf(p))
        BY <1>5, <2>1, <3>2 DEF HookInv, WorldGood
      <4> QED BY <1>3, <4>1 DEF InOrderUntil, Until
    <3> QED BY <3>1, <3>2
  <2>2. \A p : KindOf(p)' = KindOf(p)
    BY <1>3 DEF KindOf
  <2>3. \A p \in Objects : times'[p] # Nil => InOrderUntil(times[p], clock, KindOf(p))'
    BY <1>5, <2>1, <2>2 DEF InOrderUntil, Until
  <2>4. DOMAIN times' = Objects
    BY <1>5 DEF HookInv, WorldGood
  <2> QED BY <1>3, <1>5, <2>3, <2>4 DEF HookInv, WorldGood, IsPull
<1> HIDE DEF b
<1> QED BY <1>3, <1>5, <1>6, <1>7, SendKeeps

LEMMA PushedKeeps ==
  ASSUME HookInv, NEW d \in Deliveries, Pushed(d)
  PROVE  HookInv'
<1>1. PICK commits, branch, deleted, bad :
       sent' = [sent EXCEPT ![d] =
            [event |-> "push", action |-> Nil, branch |-> branch, deleted |-> deleted,
             commits |-> commits, bad |-> bad, text |-> BODY, at |-> clock]]
  BY ZenonT(60) DEF Pushed
<1> DEFINE b == [event |-> "push", action |-> Nil, branch |-> branch, deleted |-> deleted,
             commits |-> commits, bad |-> bad, text |-> BODY, at |-> clock]
<1>2. sent[d] = Nil /\ UNCHANGED <<kindOf, home, log, times, clock>>
  BY DEF Pushed, IsNext
<1>3. WorldGood'
  BY <1>2, WorldStays DEF HookInv
<1>4. TellsOf(b)
  BY DEF TellsOf
<1>5. sent' = [sent EXCEPT ![d] = b]
  BY <1>1
<1> HIDE DEF b
<1> QED BY <1>2, <1>3, <1>4, <1>5, SendKeeps

\* What is stored was made of its delivery, the first time it came.
LEMMA ArriveKeeps ==
  ASSUME HookInv, NEW d \in Deliveries, Arrive(d)
  PROVE  HookInv'
<1> DEFINE events == {Redact(e) : e \in HandleWebhook(d, sent[d], clock)}
<1>1. PICK failed \in (SUBSET events \ {events}) \union {{}} :
        LET new == {x \in events \ failed : AnswerTo(x) = "accepted"} IN
        log' = [id \in DOMAIN log \union {Identity(e) : e \in new} |->
                  IF id \in DOMAIN log THEN log[id] ELSE CHOOSE e \in new : Identity(e) = id]
  BY DEF Arrive
<1> DEFINE new == {x \in events \ failed : AnswerTo(x) = "accepted"}
           Added(id) == CHOOSE e \in new : Identity(e) = id
<1>2. /\ sent[d] # Nil /\ UNCHANGED <<kindOf, home, times, clock, sent>>
  BY DEF Arrive
<1>3. log' = [id \in DOMAIN log \union {Identity(e) : e \in new} |->
                IF id \in DOMAIN log THEN log[id] ELSE Added(id)]
  BY <1>1
<1>4. ASSUME NEW e \in new
      PROVE  Identity(e)[1] = d /\ MadeOf(Added(Identity(e)), d, sent[d])
  <2> DEFINE f == Added(Identity(e))
  <2>1. f \in new /\ Identity(f) = Identity(e)
    <3> HIDE DEF new
    <3> QED OBVIOUS
  <2>2. PICK x \in HandleWebhook(d, sent[d], clock) : f = Redact(x)
    BY <2>1
  <2> HIDE DEF f
  <2>3. f.delivery = d /\ MadeOf(f, d, sent[d])
    BY <2>2, RedactKeeps DEF MadeOf
  <2>4. MadeOf(Added(Identity(e)), d, sent[d])
    BY <2>3 DEF f
  <2> QED BY <2>1, <2>3, <2>4 DEF Identity
<1> HIDE DEF Added, new
<1>5. ASSUME NEW id \in DOMAIN log'
      PROVE  id[1] \in Deliveries /\ sent'[id[1]] # Nil /\ MadeOf(log'[id], id[1], sent'[id[1]])
  <2>1. CASE id \in DOMAIN log
    <3>1. log'[id] = log[id]
      BY <1>3, <2>1
    <3> QED BY <1>2, <2>1, <3>1 DEF HookInv
  <2>2. CASE id \notin DOMAIN log
    <3>1. PICK e \in new : id = Identity(e)
      BY <1>3, <1>5, <2>2
    <3>2. log'[id] = Added(id)
      BY <1>3, <1>5, <2>2
    <3> QED BY <1>2, <1>4, <3>1, <3>2
  <2> QED BY <2>1, <2>2
<1>6. WorldGood'
  BY <1>2, WorldStays DEF HookInv
<1>7. \A b : TellsOf(b) => TellsOf(b)'
  BY <1>2, TellsStays
<1> QED BY <1>2, <1>5, <1>6, <1>7 DEF HookInv

LEMMA HookStart == HookInit => HookInv
<1> SUFFICES ASSUME HookInit PROVE HookInv
  OBVIOUS
<1>1. \A o \in Objects : times[o] # Nil => InOrderUntil(times[o], clock, KindOf(o))
  BY DEF HookInit, InOrderUntil, Until
<1>2. WorldGood
  BY <1>1 DEF HookInit, WorldGood
<1> QED BY <1>2 DEF HookInit, HookInv

LEMMA HookStep == HookInv /\ [HookNext]_hookVars => HookInv'
<1> SUFFICES ASSUME HookInv, [HookNext]_hookVars PROVE HookInv'
  OBVIOUS
<1>1. CASE UNCHANGED hookVars
  <2>1. WorldGood'
    BY <1>1, WorldStays DEF hookVars, HookInv
  <2>2. \A b : TellsOf(b) => TellsOf(b)'
    BY <1>1, TellsStays DEF hookVars
  <2> QED BY <1>1, <2>1, <2>2 DEF hookVars, HookInv
<1> QED BY <1>1, HappensKeeps, PushedKeeps, ArriveKeeps DEF HookNext

\* The events there are of a delivery, by their kind.
LEMMA EventsMade ==
  ASSUME NEW b, NEW d, NEW e, MadeOf(e, d, b), e.kind # "github_commit", TellsOf(b)
  PROVE  /\ b.event # "push" /\ e.kind \in {"github_pr", "github_issue", "github_pr_comment"}
         /\ e.kind = "github_pr" =>
              /\ b.event = "pull_request" /\ e.url = GithubPullRequestUrl(b.number)
              /\ \E when : e.occurred = Occurred(LastTime(b), when)
         /\ e.kind = "github_issue" =>
              /\ b.event = "issues" /\ ~ b.pointer
              /\ e.url = IF IsValidUrl(b.html) THEN b.html ELSE GithubIssueUrl(b.number)
              /\ LastTime(b) # Nil /\ e.occurred.at = LastTime(b)
         /\ e.kind = "github_pr_comment" =>
              /\ b.event \notin {"push", "pull_request", "issues"}
              /\ e.url = ResolveCommentPermalink(b.html, ExtractParent(b), b.number, b.event, b.of)
              /\ \E when : e.occurred = Occurred(ProviderTime(b), when)
<1>1. PICK when, x : /\ x \in HandleWebhook(d, b, when)
                    /\ e.kind = x.kind /\ e.url = x.url /\ e.occurred = x.occurred
  BY DEF MadeOf
<1>2. CASE b.event = "push"
  BY <1>1, <1>2 DEF HandleWebhook, NormalizePushEvent, NormalizedEvent
<1>3. CASE b.event = "pull_request"
  BY <1>1, <1>3 DEF HandleWebhook, NormalizePullRequestEvent, NormalizedEvent
<1>4. CASE b.event = "issues"
  BY <1>1, <1>4 DEF HandleWebhook, NormalizeGithubIssueEvent, NormalizedEvent
<1>5. CASE b.event \notin {"push", "pull_request", "issues"}
  BY <1>1, <1>5 DEF HandleWebhook, NormalizeCommentEvent, NormalizedEvent
<1> QED BY <1>2, <1>3, <1>4, <1>5

\* The link of a comment is its permalink, whatever link the payload carried.
LEMMA PermalinkIsTrue ==
  ASSUME WorldGood, NEW b, TellsOf(b), b.event \notin {"push", "pull_request", "issues"}
  PROVE  ResolveCommentPermalink(b.html, ExtractParent(b), b.number, b.event, b.of) = TrueUrl(b.of)
<1>1. b.of \in Threads /\ b.event = home[b.of].event /\ b.number = home[b.of].number
      /\ b.html \in HtmlUrls(b.of) /\ b.pointer = IsPull(b.number)
  BY DEF TellsOf, EventsOf, Number
<1>2. b.number \in Numbers /\ b.event \in CommentEvents
      /\ (b.event # "issue_comment" => IsPull(b.number))
  BY <1>1 DEF WorldGood
<1>3. ExtractParent(b) = kindOf[b.number]
  BY <1>1, <1>2 DEF ExtractParent, IsPull, WorldGood
<1> DEFINE parent == kindOf[b.number]
           true == GithubCommentPermalink(parent, b.number, b.event, b.of)
<1>4. TrueUrl(b.of) = true
  BY <1>1 DEF TrueUrl
<1>5. true = <<"github.com", IF parent = "pull_request" THEN "pull" ELSE "issues", b.number,
               GithubCommentAnchor(b.event, b.of)>>
  BY DEF GithubCommentPermalink, ParentUrl, GithubPullRequestUrl, GithubIssueUrl
<1>6. b.html = Nil \/ b.html = true \/ b.html = [true EXCEPT ![4] = Nil]
      \/ b.html = [true EXCEPT ![1] = "elsewhere"] \/ b.html = NOT_A_URL
  BY <1>1, <1>4 DEF HtmlUrls
<1> HIDE DEF true, parent
<1>7. CASE b.html # Nil /\ IsHtmlUrlConsistentWithFacts(b.html, parent, b.number, b.event, b.of)
  <2>0. /\ b.html[1] = "github.com" /\ b.html[2] \in {"pull", "issues"}
        /\ b.html[4] = GithubCommentAnchor(b.event, b.of)
    BY <1>7 DEF IsHtmlUrlConsistentWithFacts
  <2>1. ASSUME b.html = [true EXCEPT ![4] = Nil] PROVE b.html = true
    <3>1. b.html = <<"github.com", IF parent = "pull_request" THEN "pull" ELSE "issues", b.number, Nil>>
      BY <1>5, <2>1
    <3>2. Nil = GithubCommentAnchor(b.event, b.of)
      BY <2>0, <3>1
    <3> QED BY <1>5, <3>1, <3>2
  <2>2. ASSUME b.html = [true EXCEPT ![1] = "elsewhere"] PROVE FALSE
    BY <1>5, <2>0, <2>2
  <2>3. ASSUME b.html = NOT_A_URL PROVE FALSE
    BY <2>0, <2>3 DEF NOT_A_URL
  <2>4. b.html = true
    BY <1>6, <1>7, <2>1, <2>2, <2>3
  <2> QED BY <1>3, <1>4, <1>7, <2>4 DEF ResolveCommentPermalink, parent
<1>8. CASE ~ (b.html # Nil /\ IsHtmlUrlConsistentWithFacts(b.html, parent, b.number, b.event, b.of))
  BY <1>3, <1>4, <1>8 DEF ResolveCommentPermalink, parent, true
<1> QED BY <1>7, <1>8

----------------------------------------------------------------------------

\* A stored event is about the thing it says, in any order of deliveries, and the link
\* of a pull request, a comment or a review leads there whatever link the payload
\* carried; that of an issue is the one that parses (resolveCommentPermalink and the
\* four normalizers).
THEOREM EvidenceIsTrue == HookSpec => []EvidenceMatchesObject
<1>1. HookInv => EvidenceMatchesObject
  <2> SUFFICES ASSUME HookInv, NEW id \in DOMAIN log, NEW b, b = sent[id[1]], NEW e, e = log[id]
               PROVE  /\ e.kind = "github_issue" =>
                           ~ IsPull(b.of) /\ IsValidUrl(e.url) /\ e.url \in {TrueUrl(b.of), b.html}
                      /\ e.kind = "github_pr" => IsPull(b.of)
                      /\ e.kind \in {"github_pr", "github_pr_comment"} => e.url = TrueUrl(b.of)
    BY DEF EvidenceMatchesObject
  <2>1. TellsOf(b) /\ MadeOf(e, id[1], b) /\ WorldGood
    BY DEF HookInv
  <2>2. CASE e.kind = "github_pr" /\ b.event = "pull_request"
    <3>1. e.url = GithubPullRequestUrl(b.number)
      BY <2>1, <2>2, EventsMade
    <3>2. b.of \notin Threads /\ b.of \in Numbers /\ IsPull(b.of) /\ b.number = b.of
      BY <2>1, <2>2 DEF TellsOf, EventsOf, Objects, Number, WorldGood, CommentEvents
    <3>3. e.url = TrueUrl(b.of)
      BY <3>1, <3>2 DEF TrueUrl, ParentUrl, IsPull
    <3> QED BY <2>2, <3>2, <3>3
  <2>3. CASE e.kind = "github_issue" /\ b.event = "issues"
    <3>1. e.url = (IF IsValidUrl(b.html) THEN b.html ELSE GithubIssueUrl(b.number)) /\ ~ b.pointer
      BY <2>1, <2>3, EventsMade
    <3>2. b.of \notin Threads /\ b.of \in Numbers /\ b.number = b.of
      BY <2>1, <2>3 DEF TellsOf, EventsOf, Objects, Number, WorldGood, CommentEvents
    <3>3. ~ IsPull(b.of)
      BY <2>1, <2>3, <3>1, <3>2 DEF TellsOf
    <3>4. TrueUrl(b.of) = GithubIssueUrl(b.of)
      BY <3>2, <3>3 DEF TrueUrl, ParentUrl, IsPull
    <3>5. IsValidUrl(GithubIssueUrl(b.of))
      <4>1. GithubIssueUrl(b.of)[1] = "github.com" /\ GithubIssueUrl(b.of)[2] = "issues"
        BY DEF GithubIssueUrl
      <4>2. NOT_A_URL[1] = NOT_A_URL[2]
        BY DEF NOT_A_URL
      <4> QED BY <4>1, <4>2 DEF IsValidUrl
    <3> QED BY <2>3, <3>1, <3>2, <3>3, <3>4, <3>5
  <2>4. CASE e.kind = "github_pr_comment"
    <3>1. /\ b.event \notin {"push", "pull_request", "issues"}
          /\ e.url = ResolveCommentPermalink(b.html, ExtractParent(b), b.number, b.event, b.of)
      BY <2>1, <2>4, EventsMade
    <3>2. e.url = TrueUrl(b.of)
      BY <2>1, <3>1, PermalinkIsTrue
    <3> QED BY <2>4, <3>2
  <2>5. CASE e.kind = "github_commit"
    BY <2>5
  <2> QED BY <2>1, <2>2, <2>3, <2>4, <2>5, EventsMade
<1> QED BY <1>1, HookStart, HookStep, PTL DEF HookSpec

\* Times of the provider tell the order in which things happened to an object, to the
\* second, however the deliveries arrived and whatever times their payloads lack: an
\* edited review is not dated by its submission.
THEOREM ProviderTimesOrder == HookSpec => []ProviderOrder
<1>1. ASSUME NEW b, NEW d, NEW e, MadeOf(e, d, b), TellsOf(b), e.kind # "github_commit",
             e.occurred.by = "provider"
      PROVE  LET x == e.occurred.at IN
             x \in Nat /\ x <= b.at /\ (SaysWhen(b) => x = b.at) /\ b.at \in Nat
  <2>1. /\ b.event # "push"
        /\ \/ \E when : e.occurred = Occurred(LastTime(b), when) /\ b.event # Review
           \/ e.occurred.at = LastTime(b) /\ LastTime(b) # Nil /\ b.event # Review
           \/ \E when : e.occurred = Occurred(ProviderTime(b), when)
    <3>1. b.event \in {"pull_request", "issues"} => b.event # Review
      BY DEF Review
    <3> QED BY <1>1, <3>1, EventsMade
  <2>2. \A x, when : e.occurred = Occurred(x, when) => x # Nil /\ e.occurred.at = x
    BY <1>1 DEF Occurred
  <2>3. /\ e.occurred.at # Nil
        /\ e.occurred.at = ProviderTime(b) \/ (e.occurred.at = LastTime(b) /\ b.event # Review)
    BY <2>1, <2>2
  <2> QED BY <1>1, <2>1, <2>3, ChosenTime
<1>2. HookInv => ProviderOrder
  <2> SUFFICES ASSUME HookInv, NEW i \in DOMAIN log, NEW j \in DOMAIN log,
                      log[i].kind # "github_commit", log[j].kind # "github_commit",
                      log[i].occurred.by = "provider", log[j].occurred.by = "provider",
                      sent[i[1]].at <= sent[j[1]].at, SaysWhen(sent[j[1]])
               PROVE  /\ log[i].occurred.at <= log[j].occurred.at
                      /\ sent[i[1]].at < sent[j[1]].at => log[i].occurred.at < log[j].occurred.at
    BY DEF ProviderOrder
  <2>1. /\ log[i].occurred.at \in Nat /\ log[i].occurred.at <= sent[i[1]].at /\ sent[i[1]].at \in Nat
        /\ log[j].occurred.at = sent[j[1]].at /\ sent[j[1]].at \in Nat
    BY <1>1 DEF HookInv
  <2> QED BY <2>1
<1> QED BY <1>2, HookStart, HookStep, PTL DEF HookSpec

----------------------------------------------------------------------------
(* The settings of a team's provider                                        *)

PageStates ==
  [at : {"loading", "ready"}, config : Rows \union {None}, provider : PROVIDERS_STORED,
   model : PROVIDERS_STORED \union {None}, typed : KeysIssued \union {None},
   models : PROVIDERS_STORED \union {None}, asked : PROVIDERS_STORED \union {None}]
Saves ==
  [at : {"idle", "sent", "kept", "written", "rewritten", "acknowledged"},
   provider : PROVIDERS_STORED, model : PROVIDERS_STORED \union {None},
   key : KeysIssued \union KEPT \union {None}]
Tests ==
  [at : {"idle", "sent", "calling"}, provider : PROVIDERS_STORED,
   model : PROVIDERS_STORED \union {None}, key : KeysIssued \union {"__STORED__", None}]

SettingsTyped ==
  /\ row \in Rows \union {None}
  /\ page \in [ADMINS -> PageStates]
  /\ save \in [ADMINS -> Saves]
  /\ test \in [ADMINS -> Tests]

\* A save that nobody has written over is what the row says, and one that was
\* acknowledged is that while no other is under way.
Stands(s) ==
  /\ row # None /\ row.provider = s.provider /\ row.key = s.key
  /\ s.key \in KeysIssued

SavesStand ==
  \A a \in ADMINS :
    /\ save[a].at = "sent" => save[a].key \in KeysIssued \union KEPT
    /\ save[a].at = "kept" => save[a].key \in KeysIssued \union {None}
    /\ save[a].at \in {"written", "acknowledged"} => Stands(save[a])
    /\ save[a].at = "acknowledged" => Alone(a)

SettingsInv == SettingsTyped /\ SavesStand

----------------------------------------------------------------------------

\* What only changes a page.
LEMMA PageMoves ==
  ASSUME SettingsInv, NEW a \in ADMINS, NEW p \in PageStates,
         page' = [page EXCEPT ![a] = p], UNCHANGED <<row, save, test>>
  PROVE  SettingsInv'
BY DEF SettingsInv, SettingsTyped, SavesStand, Stands, Alone

LEMMA ShownTyped ==
  ASSUME NEW p \in PageStates, NEW config \in Rows \union {None}
  PROVE  Shown(p, config) \in PageStates
<1>1. CASE config = None
  BY <1>1 DEF Shown, PageStates
<1>2. CASE config # None
  <2>1. config.model \in PROVIDERS_STORED \union {None}
    BY <1>2 DEF Rows
  <2> QED BY <1>2, <2>1 DEF Shown, PageStates
<1> QED BY <1>1, <1>2

LEMMA PagesKeep ==
  ASSUME SettingsInv, NEW a \in ADMINS,
         \/ Load(a) \/ TypeKey(a) \/ PickModel(a) \/ LoadModels(a)
         \/ \E p \in PROVIDERS_STORED : SelectProvider(a, p)
         \/ \E listed \in BOOLEAN : ModelsArrive(a, listed)
  PROVE  SettingsInv'
<1>0. page[a] \in PageStates /\ row \in Rows \union {None}
  BY DEF SettingsInv, SettingsTyped
<1>1. CASE Load(a)
  <2> DEFINE q == Shown(page[a], row)
             provider == IF row = None THEN page[a].provider ELSE row.provider
             p == [[q EXCEPT !.at = "ready"] EXCEPT !.provider = provider]
  <2>1. q \in PageStates
    BY <1>0, ShownTyped
  <2>2. page' = [page EXCEPT ![a] = p] /\ UNCHANGED <<row, save, test>>
    BY <1>1, <2>1 DEF Load, PageStates
  <2>3. p \in PageStates
    <3> HIDE DEF q
    <3>1. provider \in PROVIDERS_STORED
      BY <1>0, <2>1 DEF Rows, PageStates
    <3> HIDE DEF provider
    <3> QED BY <2>1, <3>1 DEF PageStates
  <2> HIDE DEF p
  <2> QED BY <2>2, <2>3, PageMoves
<1>2. CASE TypeKey(a)
  <2> DEFINE p == [page[a] EXCEPT !.typed = Key(page[a].provider, a)]
  <2>1. Key(page[a].provider, a) \in KeysIssued
    BY <1>0 DEF Key, KeysIssued, PageStates
  <2>2. p \in PageStates
    BY <1>0, <2>1 DEF PageStates
  <2>3. page' = [page EXCEPT ![a] = p] /\ UNCHANGED <<row, save, test>>
    BY <1>2 DEF TypeKey
  <2> HIDE DEF p
  <2> QED BY <2>2, <2>3, PageMoves
<1>3. CASE PickModel(a)
  <2> DEFINE p == [page[a] EXCEPT !.model = page[a].models]
  <2>1. p \in PageStates
    BY <1>0 DEF PageStates
  <2>2. page' = [page EXCEPT ![a] = p] /\ UNCHANGED <<row, save, test>>
    BY <1>3 DEF PickModel
  <2> HIDE DEF p
  <2> QED BY <2>1, <2>2, PageMoves
<1>4. CASE LoadModels(a)
  <2> DEFINE p == [page[a] EXCEPT !.asked = page[a].provider]
  <2>1. p \in PageStates
    BY <1>0 DEF PageStates
  <2>2. page' = [page EXCEPT ![a] = p] /\ UNCHANGED <<row, save, test>>
    BY <1>4 DEF LoadModels
  <2> HIDE DEF p
  <2> QED BY <2>1, <2>2, PageMoves
<1>5. ASSUME NEW provider \in PROVIDERS_STORED, SelectProvider(a, provider)
      PROVE  SettingsInv'
  <2> DEFINE model == IF page[a].config # None /\ provider = page[a].config.provider
                      THEN page[a].config.model ELSE None
             p == [[[page[a] EXCEPT !.provider = provider] EXCEPT !.models = None]
                     EXCEPT !.model = model]
  <2>1. model \in PROVIDERS_STORED \union {None}
    BY <1>0 DEF PageStates, Rows
  <2>2. p \in PageStates
    <3> HIDE DEF model
    <3> QED BY <1>0, <2>1 DEF PageStates
  <2>3. page' = [page EXCEPT ![a] = p] /\ UNCHANGED <<row, save, test>>
    BY <1>5 DEF SelectProvider
  <2> HIDE DEF p
  <2> QED BY <2>2, <2>3, PageMoves
<1>6. ASSUME NEW listed \in BOOLEAN, ModelsArrive(a, listed)
      PROVE  SettingsInv'
  <2> DEFINE models == IF listed THEN page[a].asked ELSE None
             p == [[page[a] EXCEPT !.asked = None] EXCEPT !.models = models]
  <2>1. models \in PROVIDERS_STORED \union {None}
    BY <1>0 DEF PageStates
  <2>2. p \in PageStates
    <3> HIDE DEF models
    <3> QED BY <1>0, <2>1 DEF PageStates
  <2>3. page' = [page EXCEPT ![a] = p] /\ UNCHANGED <<row, save, test>>
    BY <1>6 DEF ModelsArrive
  <2> HIDE DEF p
  <2> QED BY <2>2, <2>3, PageMoves
<1> QED BY <1>1, <1>2, <1>3, <1>4, <1>5, <1>6

\* A save that is sent takes the last word from every other.
LEMMA SentKeeps ==
  ASSUME SettingsInv, NEW a \in ADMINS, NEW request \in Saves, request.at = "sent",
         request.key \in KeysIssued \union KEPT,
         save' = Sent(a, request), UNCHANGED <<row, page, test>>
  PROVE  SettingsInv'
<1>0. NoRequest \in Saves /\ NoRequest.at = "idle"
  BY DEF NoRequest, Saves, PROVIDERS_STORED
<1>1. /\ save' \in [ADMINS -> Saves]
      /\ save'[a] = request
      /\ \A b \in ADMINS : b # a =>
           \/ save'[b] = save[b] /\ save[b].at # "acknowledged"
           \/ save'[b] = NoRequest
  BY <1>0 DEF Sent, SettingsInv, SettingsTyped
<1> QED BY <1>0, <1>1 DEF SettingsInv, SettingsTyped, SavesStand, Stands, Alone

LEMMA SavesKeep ==
  ASSUME SettingsInv, NEW a \in ADMINS,
         Save(a) \/ \E p \in PROVIDERS_STORED : SaveLlmProvider(a, p)
  PROVE  SettingsInv'
<1>0. page[a] \in PageStates
  BY DEF SettingsInv, SettingsTyped
<1>1. CASE Save(a)
  <2> DEFINE key == KeyToSend(a)
             request == [at |-> "sent", provider |-> page[a].provider,
                         model |-> page[a].model, key |-> key]
  <2>1. key \in KeysIssued \union KEPT
    <3>1. key # None
      BY <1>1 DEF Save
    <3> QED BY <1>0, <3>1 DEF KeyToSend, KEPT, PageStates
  <2>2. save' = Sent(a, request) /\ UNCHANGED <<row, page, test>>
    BY <1>1 DEF Save
  <2> HIDE DEF key
  <2>3. request \in Saves /\ request.at = "sent" /\ request.key \in KeysIssued \union KEPT
    BY <1>0, <2>1 DEF Saves, PageStates
  <2> HIDE DEF request
  <2> QED BY <2>2, <2>3, SentKeeps
<1>2. ASSUME NEW p \in PROVIDERS_STORED, SaveLlmProvider(a, p) PROVE SettingsInv'
  <2> DEFINE request == [at |-> "sent", provider |-> p, model |-> None, key |-> "omitted"]
  <2>1. save' = Sent(a, request) /\ UNCHANGED <<row, page, test>>
    BY <1>2 DEF SaveLlmProvider
  <2>2. request \in Saves /\ request.at = "sent" /\ request.key \in KEPT
    BY DEF Saves, KEPT
  <2> HIDE DEF request
  <2> QED BY <2>1, <2>2, SentKeeps
<1> QED BY <1>1, <1>2

\* While a save is under way no other is acknowledged.
LEMMA NobodyElse ==
  ASSUME SettingsInv, NEW a \in ADMINS, save[a].at \notin {"idle", "acknowledged"},
         NEW b \in ADMINS
  PROVE  save[b].at # "acknowledged"
BY DEF SettingsInv, SavesStand, Alone

LEMMA KeepKeyKeeps ==
  ASSUME SettingsInv, NEW a \in ADMINS, KeepKey(a)
  PROVE  SettingsInv'
<1>0. save[a] \in Saves /\ save[a].at = "sent" /\ save \in [ADMINS -> Saves]
      /\ UNCHANGED <<row, page, test>>
  BY DEF SettingsInv, SettingsTyped, KeepKey
<1>1. StoredKey \in KeysIssued \union {None}
  BY DEF StoredKey, SettingsInv, SettingsTyped, Rows
<1> DEFINE kept == [[save[a] EXCEPT !.at = "kept"] EXCEPT !.key = StoredKey]
<1>2. kept \in Saves /\ kept.at = "kept" /\ kept.key = StoredKey
  BY <1>0, <1>1 DEF Saves
<1>3. NoRequest \in Saves /\ NoRequest.at = "idle"
  BY DEF NoRequest, Saves, PROVIDERS_STORED
<1>4. save' = [save EXCEPT ![a] = NoRequest] \/ save' = [save EXCEPT ![a] = kept]
  BY <1>0 DEF KeepKey
<1> HIDE DEF kept
<1>5. /\ save' \in [ADMINS -> Saves]
      /\ save'[a] = NoRequest \/ save'[a] = kept
      /\ \A b \in ADMINS : b # a => save'[b] = save[b]
  BY <1>0, <1>2, <1>3, <1>4
<1>6. \A b \in ADMINS : save[b].at # "acknowledged"
  BY <1>0, NobodyElse
<1> QED BY <1>0, <1>1, <1>2, <1>3, <1>5, <1>6
        DEF SettingsInv, SettingsTyped, SavesStand, Stands, Alone

LEMMA UpsertKeeps ==
  ASSUME SettingsInv, NEW a \in ADMINS, UpsertConfig(a)
  PROVE  SettingsInv'
<1> DEFINE tested == IF row = None THEN None ELSE row.tested
           new == [provider |-> save[a].provider, model |-> save[a].model,
                   key |-> save[a].key,
                   embeddingAvailable |-> save[a].provider \in EMBEDDING_PROVIDERS,
                   tested |-> tested]
           at == IF save[a].at = "sent" THEN "written" ELSE "rewritten"
           mine == [save[a] EXCEPT !.at = at]
<1>0. /\ save[a] \in Saves /\ save \in [ADMINS -> Saves]
      /\ row \in Rows \union {None}
      /\ save[a].at \in {"sent", "kept"}
      /\ row' = new /\ save' = Overtaking(a) /\ UNCHANGED <<page, test>>
  BY DEF SettingsInv, SettingsTyped, UpsertConfig
<1>1. /\ save[a].key \in KeysIssued \union {None}
      /\ save[a].at = "sent" => save[a].key \in KeysIssued
  BY <1>0 DEF UpsertConfig, SettingsInv, SavesStand
<1>2. tested \in Results \union {None}
  BY <1>0 DEF Rows
<1> HIDE DEF tested
<1>3. new \in Rows /\ new.provider = save[a].provider /\ new.key = save[a].key
  BY <1>0, <1>1, <1>2 DEF Rows, Saves
<1>4. mine \in Saves /\ mine.at = at /\ mine.provider = save[a].provider
      /\ mine.key = save[a].key
  BY <1>0 DEF Saves
<1> HIDE DEF new
<1>5. \A b \in ADMINS : [save[b] EXCEPT !.at = "rewritten"] \in Saves
                        /\ [save[b] EXCEPT !.at = "rewritten"].at = "rewritten"
  BY <1>0 DEF Saves
<1>6. /\ save' \in [ADMINS -> Saves]
      /\ save'[a] = mine
      /\ \A b \in ADMINS : b # a =>
           \/ save'[b] = save[b] /\ save[b].at # "written"
           \/ save'[b] \in Saves /\ save'[b].at = "rewritten"
  BY <1>0, <1>4, <1>5 DEF Overtaking
<1>7. \A b \in ADMINS : save[b].at # "acknowledged"
  BY <1>0, NobodyElse
<1>8. SettingsTyped'
  BY <1>0, <1>3, <1>6 DEF SettingsInv, SettingsTyped
<1>9. save'[a].at = "written" =>
        /\ row' # None /\ row'.provider = save'[a].provider /\ row'.key = save'[a].key
        /\ save'[a].key \in KeysIssued
  BY <1>0, <1>1, <1>3, <1>4, <1>6, NoneAssumption
<1> HIDE DEF mine, at
<1>10. at \in {"written", "rewritten"}
  BY DEF at
<1>11. SavesStand'
  <2>1. ASSUME NEW b \in ADMINS, b # a
        PROVE  save'[b].at \notin {"written", "acknowledged"}
               /\ (save'[b].at \in {"sent", "kept"} => save'[b] = save[b])
    BY <1>6, <1>7, <2>1
  <2>2. ASSUME NEW b \in ADMINS
        PROVE  /\ save'[b].at = "sent" => save'[b].key \in KeysIssued \union KEPT
               /\ save'[b].at = "kept" => save'[b].key \in KeysIssued \union {None}
               /\ save'[b].at # "acknowledged"
    BY <1>4, <1>6, <1>10, <2>1 DEF SettingsInv, SavesStand
  <2>3. ASSUME NEW b \in ADMINS, save'[b].at = "written"
        PROVE  Stands(save[b])'
    <3>1. b = a
      BY <2>1, <2>3
    <3> QED BY <1>9, <2>3, <3>1 DEF Stands
  <2> QED BY <2>2, <2>3 DEF SavesStand
<1> QED BY <1>8, <1>11 DEF SettingsInv

LEMMA AnswerKeepsSettings ==
  ASSUME SettingsInv, NEW a \in ADMINS, SaveAnswered(a)
  PROVE  SettingsInv'
<1>0. /\ save[a] \in Saves /\ save \in [ADMINS -> Saves] /\ page \in [ADMINS -> PageStates]
      /\ row \in Rows \union {None}
      /\ save[a].at \in {"written", "rewritten"} /\ UNCHANGED <<row, test>>
  BY DEF SettingsInv, SettingsTyped, SaveAnswered
<1> DEFINE q == Shown(page[a], row)
           p == [q EXCEPT !.typed = None]
           acked == [save[a] EXCEPT !.at = "acknowledged"]
<1>1. page' \in [ADMINS -> PageStates]
  <2>1. q \in PageStates
    BY <1>0, ShownTyped
  <2>2. page' = [page EXCEPT ![a] = p]
    BY DEF SaveAnswered
  <2> HIDE DEF q
  <2>3. p \in PageStates
    BY <2>1 DEF PageStates
  <2> QED BY <1>0, <2>2, <2>3
<1> HIDE DEF p, q
<1>2. acked \in Saves /\ acked.at = "acknowledged" /\ acked.provider = save[a].provider
      /\ acked.key = save[a].key
  BY <1>0 DEF Saves
<1>3. NoRequest \in Saves /\ NoRequest.at = "idle"
  BY DEF NoRequest, Saves, PROVIDERS_STORED
<1>4. \/ save[a].at = "written" /\ Alone(a) /\ save' = [save EXCEPT ![a] = acked]
      \/ save' = [save EXCEPT ![a] = NoRequest]
  BY DEF SaveAnswered
<1> HIDE DEF acked
<1>5. /\ save' \in [ADMINS -> Saves]
      /\ \A b \in ADMINS : b # a => save'[b] = save[b]
      /\ \/ save[a].at = "written" /\ Alone(a) /\ save'[a] = acked
         \/ save'[a] = NoRequest
  BY <1>0, <1>2, <1>3, <1>4
<1>6. \A b \in ADMINS : save[b].at # "acknowledged"
  BY <1>0, NobodyElse
<1>7. SavesStand'
  BY <1>0, <1>2, <1>3, <1>5, <1>6 DEF SettingsInv, SavesStand, Stands, Alone
<1> QED BY <1>0, <1>1, <1>5, <1>7 DEF SettingsInv, SettingsTyped

\* A connection test, whatever it finds, changes neither provider nor key.
LEMMA TestsKeep ==
  ASSUME SettingsInv, NEW a \in ADMINS,
         TestKey(a) \/ TestDone(a) \/ \E stored \in BOOLEAN : TestConnection(a, stored)
  PROVE  SettingsInv'
<1>0. /\ test[a] \in Tests /\ test \in [ADMINS -> Tests] /\ page \in [ADMINS -> PageStates]
      /\ page[a] \in PageStates /\ row \in Rows \union {None}
  BY DEF SettingsInv, SettingsTyped
<1>1. ASSUME NEW t \in Tests, test' = [test EXCEPT ![a] = t], UNCHANGED <<row, page, save>>
      PROVE  SettingsInv'
  BY <1>0, <1>1 DEF SettingsInv, SettingsTyped, SavesStand, Stands, Alone
<1>2. ASSUME NEW stored \in BOOLEAN, TestConnection(a, stored) PROVE SettingsInv'
  <2> DEFINE key == IF stored THEN "__STORED__" ELSE page[a].typed
             t == [at |-> "sent", provider |-> page[a].provider, model |-> None, key |-> key]
  <2>1. key \in KeysIssued \union {"__STORED__", None}
    BY <1>0 DEF PageStates
  <2>2. test' = [test EXCEPT ![a] = t] /\ UNCHANGED <<row, page, save>>
    BY <1>2 DEF TestConnection
  <2> HIDE DEF key
  <2>3. t \in Tests
    BY <1>0, <2>1 DEF Tests, PageStates
  <2> HIDE DEF t
  <2> QED BY <1>1, <2>2, <2>3
<1>3. CASE TestKey(a)
  <2> DEFINE key == IF test[a].key = "__STORED__" /\ StoredKey # None
                    THEN StoredKey ELSE test[a].key
             t == [[test[a] EXCEPT !.at = "calling"] EXCEPT !.key = key]
  <2>1. key \in KeysIssued \union {"__STORED__", None}
    <3>1. StoredKey \in KeysIssued \union {None}
      BY <1>0 DEF StoredKey, Rows
    <3> QED BY <1>0, <3>1 DEF Tests
  <2>2. test' = [test EXCEPT ![a] = t] /\ UNCHANGED <<row, page, save>>
    BY <1>0, <1>3 DEF TestKey, Tests
  <2> HIDE DEF key
  <2>3. t \in Tests
    BY <1>0, <2>1 DEF Tests
  <2> HIDE DEF t
  <2> QED BY <1>1, <2>2, <2>3
<1>4. CASE TestDone(a)
  <2> DEFINE ok == test[a].key # "__STORED__" /\ HomeOf(test[a].key) = test[a].provider
             result == [ok |-> ok, provider |-> test[a].provider, key |-> test[a].key]
             tested == [row EXCEPT !.tested = result]
             p == [page[a] EXCEPT !.config = row']
  <2>1. /\ row' = IF row = None THEN None ELSE tested
        /\ test' = [test EXCEPT ![a] = NoRequest]
        /\ page' = [page EXCEPT ![a] = p] /\ UNCHANGED save
    BY <1>4 DEF TestDone
  <2>2. result \in Results
    <3>1. ok \in BOOLEAN
      OBVIOUS
    <3> HIDE DEF ok
    <3> QED BY <1>0, <3>1 DEF Results, Tests
  <2> HIDE DEF result
  <2>3. row # None => tested \in Rows /\ tested.provider = row.provider /\ tested.key = row.key
    BY <1>0, <2>2 DEF Rows
  <2> HIDE DEF tested
  <2>4. row' \in Rows \union {None}
        /\ (row # None => row' # None /\ row'.provider = row.provider /\ row'.key = row.key)
    BY <2>1, <2>3, NoneAssumption
  <2>5. p \in PageStates
    BY <1>0, <2>4 DEF PageStates
  <2>6. NoRequest \in Tests
    BY DEF NoRequest, Tests, PROVIDERS_STORED
  <2> HIDE DEF p
  <2>7. SettingsTyped'
    BY <1>0, <2>1, <2>4, <2>5, <2>6 DEF SettingsInv, SettingsTyped
  <2>8. SavesStand'
    BY <2>1, <2>4 DEF SettingsInv, SavesStand, Stands, Alone
  <2> QED BY <2>7, <2>8 DEF SettingsInv
<1> QED BY <1>2, <1>3, <1>4

----------------------------------------------------------------------------

\* A key that a page was told is stored is the key of the next compile job, until
\* somebody saves again, for any admins and any clicks (the PUT handler reads the
\* key to keep and writes the row in two statements).
THEOREM StoredKeyIsUsed == ConfigSpec => []AcknowledgedKeyIsUsed
<1>1. ConfigInit => SettingsInv
  <2>1. NoRequest \in Saves /\ NoRequest \in Tests /\ NoRequest.at = "idle"
    BY DEF NoRequest, Saves, Tests, PROVIDERS_STORED
  <2>2. NoPage \in PageStates
    BY DEF NoPage, PageStates, PROVIDERS_STORED
  <2> QED BY <2>1, <2>2 DEF ConfigInit, SettingsInv, SettingsTyped, SavesStand
<1>2. SettingsInv /\ [ConfigNext]_configVars => SettingsInv'
  <2> SUFFICES ASSUME SettingsInv, [ConfigNext]_configVars PROVE SettingsInv'
    OBVIOUS
  <2>1. CASE UNCHANGED configVars
    BY <2>1 DEF configVars, SettingsInv, SettingsTyped, SavesStand, Stands, Alone
  <2> QED BY <2>1, PagesKeep, SavesKeep, KeepKeyKeeps, UpsertKeeps, AnswerKeepsSettings, TestsKeep
          DEF ConfigNext
<1>3. SettingsInv => AcknowledgedKeyIsUsed
  <2> SUFFICES ASSUME SettingsInv, NEW a \in ADMINS, save[a].at = "acknowledged",
                      save[a].provider # "custom"
               PROVE  Resolve(row).provider = save[a].provider /\ Resolve(row).key = save[a].key
    BY DEF AcknowledgedKeyIsUsed
  <2>1. Stands(save[a])
    BY DEF SettingsInv, SavesStand
  <2> QED BY <2>1, NoneAssumption DEF Stands, Resolve, HasKey
<1> QED BY <1>1, <1>2, <1>3, PTL DEF ConfigSpec
=============================================================================
