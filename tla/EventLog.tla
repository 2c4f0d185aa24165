------------------------------ MODULE EventLog ------------------------------
(* What event intake promises, whatever path an event takes in: the first    *)
(* payload delivered under an identity is stored and never changes, exactly  *)
(* one delivery is told that it stored it, and every other one is told       *)
(* truly whether what it brought is what is stored.                          *)
CONSTANTS Ids, Payloads, Deliveries, Nothing

VARIABLES
  stored,  \* the payload under each identity, Nothing if there is none
  told     \* what each delivery has been told, Nothing if not yet

Init ==
  /\ stored = [i \in Ids |-> Nothing]
  /\ told = [d \in Deliveries |-> Nothing]

Tell(d, i, p, verdict) ==
  told' = [told EXCEPT ![d] = [id |-> i, payload |-> p, verdict |-> verdict]]

\* The first delivery of an identity.
Accept(d, i, p) ==
  /\ stored[i] = Nothing
  /\ stored' = [stored EXCEPT ![i] = p]
  /\ Tell(d, i, p, "accepted")

\* A later one, with the same payload or another.
Refuse(d, i, p) ==
  /\ stored[i] # Nothing
  /\ UNCHANGED stored
  /\ Tell(d, i, p, IF stored[i] = p THEN "duplicate" ELSE "conflict")

Speaks(d) == told[d] = Nothing /\ told'[d] # Nothing

Next ==
  \E d \in Deliveries :
    /\ Speaks(d)
    /\ \E i \in Ids, p \in Payloads : Accept(d, i, p) \/ Refuse(d, i, p)

Spec == Init /\ [][Next]_<<stored, told>>
=============================================================================
