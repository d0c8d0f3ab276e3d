---------------------------- MODULE MCStoredPool ----------------------------
(* An instance of StoredPool for TLC. *)
EXTENDS StoredPool, TLC

\* Handlers are interchangeable.
Symmetric == Permutations(Writers)
=============================================================================
