------------------------------ MODULE MCRuntime ------------------------------
(* The model values of MC_runtime.cfg: an all-in-one server and a standalone  *)
(* worker on one database.                                                    *)
EXTENDS Runtime

CONSTANTS server, worker, r1, r2
==============================================================================
