------------------------------ MODULE ApiKeys -------------------------------
(***************************************************************************)
(* API keys: minted, revoked, rotated by an admin and presented by clients, *)
(* over the pool of database connections they all share.                   *)
(*                                                                         *)
(* Every statement goes through db.$client, a pg Pool: it takes the        *)
(* connection that became idle last, or a new one, runs, and gives it back. *)
(* The BEGIN and COMMIT of a rotation are statements like any other, so    *)
(* the transaction belongs to a connection and not to the request. The     *)
(* same BEGIN/COMMIT is used to create and to delete a team.               *)
(***************************************************************************)
EXTENDS Naturals, Sequences, SequencesExt, Functions

CONSTANTS
  Keys,
  InitialKeys, \* the keys there are from the start
  KeyRequests,    \* requests in flight or answered, each used once
  Conns,       \* bound: connections of the pool (DEFAULT_POOL_BOUNDS.max)
  Nil,
  MaxErrors,   \* bound: statements the database refuses
  MaxTimeouts  \* bound: connections closed for being idle

ASSUME KeysAssumption ==
  /\ InitialKeys \subseteq Keys
  /\ {MaxErrors, MaxTimeouts} \subseteq Nat
  /\ Nil \notin Keys \union Conns \union {"live", "revoked"}

VARIABLES
  key,      \* committed rows of api_keys: absent, live or revoked
  tx,       \* per connection, whether BEGIN is open and what it holds back
  idle,     \* idle connections, the last one is taken first
  turn,
  errors,
  timeouts

keysVars == <<key, tx, idle, turn, errors, timeouts>>

NoWrites == [k \in Keys |-> Nil]
Autocommit == [mode |-> "auto", writes |-> NoWrites]
Unsent == [pc |-> "new", op |-> Nil, key |-> Nil, heir |-> Nil, conn |-> Nil,
          ran |-> {}, overlapped |-> FALSE]
Statements == {"lookup", "insert", "revoke", "read", "begin", "update", "mint", "commit", "rollback"}

KeysInit ==
  /\ key = [k \in Keys |-> IF k \in InitialKeys THEN "live" ELSE "absent"]
  /\ tx = [c \in Conns |-> Autocommit]
  /\ idle = << >>
  /\ turn = [r \in KeyRequests |-> Unsent]
  /\ errors = 0
  /\ timeouts = 0

----------------------------------------------------------------------------
(* The pool and its transactions                                            *)

Running == {r \in KeyRequests : turn[r].pc \in Statements}
Busy == {turn[r].conn : r \in KeyRequests} \ {Nil}

\* What a statement on connection c sees.
View(c) == [k \in Keys |-> IF tx[c].writes[k] = Nil THEN key[k] ELSE tx[c].writes[k]]

\* A row written by an open transaction is locked for the other connections.
Locked(k, c) == \E d \in Conns \ {c} : tx[d].writes[k] # Nil

Write(c, k, state) ==
  IF tx[c].mode = "open"
  THEN /\ tx' = [tx EXCEPT ![c].writes[k] = state]
       /\ UNCHANGED key
  ELSE /\ key' = [key EXCEPT ![k] = state]
       /\ UNCHANGED tx

Taken(k) == key[k] # "absent" \/ \E r \in KeyRequests : turn[r].heir = k
Unused == {k \in Keys : ~Taken(k)}

\* pool.query: the connection that was released last, or one more.
TakeConnection(r) ==
  /\ r \in Running
  /\ turn[r].conn = Nil
  /\ LET new == Conns \ (Busy \union ToSet(idle)) IN
     \/ /\ idle # << >>
        /\ turn' = [turn EXCEPT ![r].conn = Last(idle), ![r].ran = @ \union {Last(idle)}]
        /\ idle' = Front(idle)
     \/ /\ idle = << >>
        /\ \E c \in new :
             turn' = [turn EXCEPT ![r].conn = c, ![r].ran = @ \union {c}]
        /\ UNCHANGED idle
  /\ UNCHANGED <<key, tx, errors, timeouts>>

\* An idle connection is closed, and what it had open is rolled back. A request
\* that is between two statements is faster than the timeout.
IdleTimeout ==
  /\ timeouts < MaxTimeouts
  /\ timeouts' = timeouts + 1
  /\ \E i \in DOMAIN idle :
       /\ \A r \in Running : idle[i] \notin turn[r].ran
       /\ idle' = RemoveAt(idle, i)
       /\ tx' = [tx EXCEPT ![idle[i]] = Autocommit]
  /\ UNCHANGED <<key, turn, errors>>

AtStep(r, pc) == turn[r].pc = pc /\ turn[r].conn # Nil

\* The statement of r has run: its connection is idle, r goes on.
Release(r, pc) ==
  /\ turn' = [turn EXCEPT ![r].pc = pc, ![r].conn = Nil]
  /\ idle' = Append(idle, turn[r].conn)

\* The database refuses a statement; an open transaction is aborted by it, and
\* refuses every statement until it is closed.
Refused(r) ==
  LET c == turn[r].conn IN
  /\ r \in Running /\ c # Nil
  /\ turn[r].pc \notin {"begin", "commit", "rollback"}
  /\ \/ tx[c].mode = "aborted" /\ UNCHANGED errors
     \/ tx[c].mode # "aborted" /\ errors < MaxErrors /\ errors' = errors + 1
  /\ tx' = IF tx[c].mode = "auto" THEN tx
           ELSE [tx EXCEPT ![c] = [mode |-> "aborted", writes |-> NoWrites]]
  /\ Release(r, IF turn[r].pc \in {"update", "mint"} THEN "rollback" ELSE "failed")
  /\ UNCHANGED <<key, timeouts>>

----------------------------------------------------------------------------
(* Requests                                                                 *)

First == [use |-> "lookup", mint |-> "insert", revoke |-> "revoke", rotate |-> "read"]

Arrive(r) ==
  /\ turn[r].pc = "new"
  /\ \E op \in DOMAIN First, k \in Keys :
       /\ IF op = "mint" THEN k \in Unused ELSE Taken(k)
       /\ turn' = [q \in KeyRequests |->
            IF q = r THEN [Unsent EXCEPT !.pc = First[op], !.op = op, !.overlapped = Running # {},
                             !.key = IF op = "mint" THEN Nil ELSE k,
                             !.heir = IF op = "mint" THEN k ELSE Nil]
            ELSE [turn[q] EXCEPT !.overlapped = @ \/ q \in Running]]
  /\ UNCHANGED <<key, tx, idle, errors, timeouts>>

\* requireAuth: the row of the hash that is not revoked.
ResolveTokenHash(r) ==
  /\ AtStep(r, "lookup")
  /\ tx[turn[r].conn].mode # "aborted"
  /\ Release(r, IF View(turn[r].conn)[turn[r].key] = "live" THEN "answered" ELSE "failed")
  /\ UNCHANGED <<key, tx, errors, timeouts>>

Mint(r) ==
  /\ AtStep(r, "insert")
  /\ tx[turn[r].conn].mode # "aborted"
  /\ Write(turn[r].conn, turn[r].heir, "live")
  /\ Release(r, "answered")
  /\ UNCHANGED <<errors, timeouts>>

\* UPDATE ... WHERE revoked_at IS NULL RETURNING: 404 when there was no row.
Revoke(r) ==
  LET c == turn[r].conn
      k == turn[r].key
  IN
  /\ AtStep(r, "revoke")
  /\ tx[c].mode # "aborted"
  /\ ~Locked(k, c)
  /\ IF View(c)[k] = "live"
     THEN Write(c, k, "revoked") /\ Release(r, "answered")
     ELSE Release(r, "failed") /\ UNCHANGED <<key, tx>>
  /\ UNCHANGED <<errors, timeouts>>

----------------------------------------------------------------------------
(* Rotation                                                                 *)

\* The old key is read, and refused when revoked, before the transaction.
ReadKey(r) ==
  /\ AtStep(r, "read")
  /\ tx[turn[r].conn].mode # "aborted"
  /\ IF View(turn[r].conn)[turn[r].key] = "live"
     THEN \E n \in Unused :
            turn' = [turn EXCEPT ![r].pc = "begin", ![r].heir = n, ![r].conn = Nil]
     ELSE turn' = [turn EXCEPT ![r].pc = "failed", ![r].conn = Nil]
  /\ idle' = Append(idle, turn[r].conn)
  /\ UNCHANGED <<key, tx, errors, timeouts>>

\* Mutant: nothing is opened, every statement commits by itself.
Begin_Not(r) ==
  /\ AtStep(r, "begin")
  /\ Release(r, "update")
  /\ UNCHANGED <<key, tx, errors, timeouts>>

\* A second BEGIN on a connection is a warning.
Begin(r) ==
  LET c == turn[r].conn IN
  /\ AtStep(r, "begin")
  /\ tx' = IF tx[c].mode = "auto" THEN [tx EXCEPT ![c].mode = "open"] ELSE tx
  /\ Release(r, IF tx[c].mode = "aborted" THEN "failed" ELSE "update")
  /\ UNCHANGED <<key, errors, timeouts>>

\* UPDATE ... WHERE id: of a row that is gone again, which takes a rollback, nothing.
RevokeOld(r) ==
  LET c == turn[r].conn
      k == turn[r].key
  IN
  /\ AtStep(r, "update")
  /\ tx[c].mode # "aborted"
  /\ ~Locked(k, c)
  /\ IF View(c)[k] = "absent" THEN UNCHANGED <<key, tx>> ELSE Write(c, k, "revoked")
  /\ Release(r, "mint")
  /\ UNCHANGED <<errors, timeouts>>

MintHeir(r) ==
  /\ AtStep(r, "mint")
  /\ tx[turn[r].conn].mode # "aborted"
  /\ Write(turn[r].conn, turn[r].heir, "live")
  /\ Release(r, "commit")
  /\ UNCHANGED <<errors, timeouts>>

\* COMMIT without a transaction is a warning, of an aborted one a rollback; the
\* request is answered either way.
Commit(r) ==
  LET c == turn[r].conn IN
  /\ AtStep(r, "commit")
  /\ key' = View(c)
  /\ tx' = [tx EXCEPT ![c] = Autocommit]
  /\ Release(r, "answered")
  /\ UNCHANGED <<errors, timeouts>>

Rollback(r) ==
  /\ AtStep(r, "rollback")
  /\ tx' = [tx EXCEPT ![turn[r].conn] = Autocommit]
  /\ Release(r, "failed")
  /\ UNCHANGED <<key, errors, timeouts>>

----------------------------------------------------------------------------

Turn(r) ==
  \/ Arrive(r) \/ TakeConnection(r) \/ Refused(r)
  \/ ResolveTokenHash(r) \/ Mint(r) \/ Revoke(r)
  \/ ReadKey(r) \/ Begin(r) \/ RevokeOld(r) \/ MintHeir(r) \/ Commit(r) \/ Rollback(r)

KeysNext == IdleTimeout \/ \E r \in KeyRequests : Turn(r)
KeysSpec == KeysInit /\ [][KeysNext]_keysVars

----------------------------------------------------------------------------
(* Properties                                                               *)

\* Another request was on its way while a rotation was.
RotationOverlapped == \E r \in KeyRequests : turn[r].op = "rotate" /\ turn[r].overlapped

\* Connections are idle or busy, never both, and only an open transaction holds
\* writes back.
KeysTypeOK ==
  /\ key \in [Keys -> {"absent", "live", "revoked"}]
  /\ IsInjective(idle) /\ ToSet(idle) \subseteq Conns \ Busy
  /\ \A r, q \in Running : r # q => turn[r].conn = Nil \/ turn[r].conn # turn[q].conn
  /\ \A c \in Conns : tx[c].writes # NoWrites => tx[c].mode = "open"

\* What was answered as done is committed for good, at least until a rotation has
\* overlapped another request: from then on an answered statement may sit in a
\* transaction that nobody closes.
AnswersHold ==
  RotationOverlapped \/ \A r \in KeyRequests : turn[r].pc = "answered" =>
    /\ turn[r].heir # Nil => key[turn[r].heir] # "absent"
    /\ turn[r].op \in {"rotate", "revoke"} => key[turn[r].key] = "revoked"

\* A rotation that had the server for itself replaces the old key by the new one
\* in one step; clients never find both of them live, or neither.
LoneRotationIsAtomic ==
  [][\A r \in KeyRequests :
       (r \in Running /\ turn[r].op = "rotate" /\ ~turn[r].overlapped
        /\ turn[r].heir # Nil /\ turn'[r].conn # turn[r].conn) =>
         (key'[turn[r].key] # key[turn[r].key]
            <=> key'[turn[r].heir] # key[turn[r].heir])]_keysVars

\* A key is rotated into one new key, unless two rotations of it overlap: the
\* check for revoked_at and the update are not one statement.
OneHeirUnlessOverlapped ==
  \A r, q \in KeyRequests :
    (/\ r # q /\ turn[r].op = "rotate" /\ turn[q].op = "rotate"
     /\ turn[r].key = turn[q].key
     /\ turn[r].pc = "answered" /\ turn[q].pc = "answered") =>
       turn[r].overlapped \/ turn[q].overlapped

\* The comment of the route, "mint a new key and revoke the old one
\* simultaneously": the new key is never there beside the old one.
RotatesSimultaneously ==
  \A r \in KeyRequests :
    turn[r].op = "rotate" /\ turn[r].heir # Nil =>
      ~(key[turn[r].heir] = "live" /\ key[turn[r].key] = "live")
=============================================================================
