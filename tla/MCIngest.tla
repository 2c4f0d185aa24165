------------------------------ MODULE MCIngest ------------------------------
(* Instances of Ingest for TLC.                                              *)
EXTENDS Ingest, TLC

CONSTANTS k1, p1, p2

One(p) == [item |-> Root, hash |-> p]
Two(p, q) == <<[item |-> Root, hash |-> p], [item |-> "second", hash |-> q]>>
From(via, channel, items, compile, wait) ==
  [via |-> via, channel |-> channel, key |-> k1, items |-> items,
   compile |-> compile, wait |-> wait, wants |-> {},
   allowed |-> TRUE]

\* One key for all: every pair of bodies meets on an event, a job or both.
CliEvents == { <<"cli", k1, Root>>, <<"cli", k1, "second">> }
AllBodies ==
  { From("single", "cli", <<One(p1)>>, TRUE, TRUE),
    From("direct", "cli", <<One(p2)>>, FALSE, FALSE),
    From("memory", "mcp", <<One(p1)>>, TRUE, FALSE),
    From("webhook", "github", Two(p1, p1), TRUE, FALSE),
    From("batch", "cli", Two(p1, p1), TRUE, FALSE),
    From("batch", "cli", Two(p1, p1), FALSE, FALSE),
    From("batch", "cli", Two(p2, p1), TRUE, FALSE),
    [From("compilation", "cli", << >>, TRUE, FALSE) EXCEPT !.wants = CliEvents],
    [From("single", "cli", <<One(p1)>>, TRUE, FALSE) EXCEPT !.allowed = FALSE] }

Symmetry == Permutations(Requests)
=============================================================================
