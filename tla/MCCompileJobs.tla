---------------------------- MODULE MCCompileJobs ----------------------------
(* Instances of CompileJobs for TLC.                                         *)
EXTENDS CompileJobs, TLC

\* Actors of one kind and events are interchangeable (safety runs only).
Symmetry == UNION {Permutations(Events), Permutations(Handlers), Permutations(Admins),
                   Permutations(Producers)}
==============================================================================
