-------------------------- MODULE MCDeliveryIngest --------------------------
(* Instances of DeliveryIngest for TLC: a delivery, another one with the   *)
(* same message, and one that reuses the first one's identity.             *)
EXTENDS DeliveryIngest, TLC

CONSTANTS d1, d2, d3, i1, i2, o1, o2

MCIdentityOf == (d1 :> i1) @@ (d2 :> i2) @@ (d3 :> i1)
MCContentOf == (d1 :> o1) @@ (d2 :> o1) @@ (d3 :> o2)

Symmetry == Permutations(Processes)
=============================================================================
