----------------------------- MODULE JobLedger -----------------------------
(***************************************************************************)
(* What the compilation of a job promises to whoever pays for it.  Model   *)
(* calls cost money, so every run must have been asked for, and every      *)
(* concept written must belong to a run:                                   *)
(*   - a submission grants a job its first run, once;                      *)
(*   - a retry grants one more, and only to a job that has run before;     *)
(*   - a run uses up one grant;                                            *)
(*   - a run writes at most one concept for each event.                    *)
(* CompileJobs keeps this promise: see Ledger there.                       *)
(***************************************************************************)
EXTENDS Naturals

CONSTANTS Jobs, Events

VARIABLES
  granted,  \* runs asked for, by the submission and by retries
  used,     \* runs begun
  pages     \* concepts written for each event

vars == <<granted, used, pages>>

Init ==
  /\ granted = [j \in Jobs |-> 0]
  /\ used    = [j \in Jobs |-> 0]
  /\ pages   = [j \in Jobs |-> [e \in Events |-> 0]]

Submit(j) ==
  /\ granted[j] = 0
  /\ granted' = [granted EXCEPT ![j] = 1]
  /\ UNCHANGED <<used, pages>>

Retry(j) ==
  /\ used[j] > 0
  /\ granted' = [granted EXCEPT ![j] = @ + 1]
  /\ UNCHANGED <<used, pages>>

Run(j) ==
  /\ used[j] < granted[j]
  /\ used' = [used EXCEPT ![j] = @ + 1]
  /\ UNCHANGED <<granted, pages>>

Write(j, e) ==
  /\ pages[j][e] < used[j]
  /\ pages' = [pages EXCEPT ![j][e] = @ + 1]
  /\ UNCHANGED <<granted, used>>

Next ==
  \E j \in Jobs :
    \/ Submit(j) \/ Retry(j) \/ Run(j)
    \/ \E e \in Events : Write(j, e)

Spec == Init /\ [][Next]_vars

=============================================================================
