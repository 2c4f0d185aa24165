-------------------------------- MODULE Paging --------------------------------
(***************************************************************************)
(* What a query with ORDER BY and LIMIT finds, as a set: the lists, the    *)
(* search and the download all read their rows in pages of one.  An order  *)
(* is a set of pairs, the earlier row first.                               *)
(***************************************************************************)
EXTENDS Naturals, FiniteSets

\* What comes before x.
Ahead(S, order, x) == {y \in S : <<y, x>> \in order}

\* ORDER BY order LIMIT n.
FirstOf(S, order, n) == {x \in S : Cardinality(Ahead(S, order, x)) < n}

\* The last row of an ordered answer.
LastOf(S, order) == CHOOSE x \in S : \A y \in S \ {x} : <<y, x>> \in order
=============================================================================
