--------------------------- MODULE MCAccountPool ---------------------------
(* Instances of AccountPool for TLC. *)
EXTENDS AccountPool
=============================================================================
