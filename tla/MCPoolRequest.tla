---------------------------- MODULE MCPoolRequest ----------------------------
(* PoolRequest for TLC: the configurations give every constant. *)
EXTENDS PoolRequest, TLC

Symmetric == Permutations(Requests)

=============================================================================
