----------------------------- MODULE MCConcepts -----------------------------
(* Instances of Concepts for TLC.                                            *)
EXTENDS Concepts, TLC

CONSTANTS e1, e2, f1, f2, alice, w1, w2

\* Two events that share a piece of evidence; one has no trusted contributor.
SharedCites == [e \in Events |-> IF e = e1 THEN {f1} ELSE {f1, f2}]
OneAuthor == [e \in Events |-> IF e = e1 THEN alice ELSE None]

Symmetry == Permutations(Workers)
=============================================================================
