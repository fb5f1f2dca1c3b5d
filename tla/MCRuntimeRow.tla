---------------------------- MODULE MCRuntimeRow ----------------------------
(* Model values for RuntimeRow: gateways and databases are interchangeable. *)
EXTENDS RuntimeRow, TLC

Symmetric == Permutations(Gateway) \cup Permutations(Database)
=============================================================================
