-------------------------- MODULE MCMaterialization --------------------------
(* Instances of Materialization for TLC. *)
EXTENDS Materialization, TLC

Symmetry == Permutations(Accounts)
=============================================================================
