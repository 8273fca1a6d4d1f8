-------------------------- MODULE MCStorageMarkers --------------------------
(* Operators for TLC: careful ones whose runs overlap, and ones of every   *)
(* care who start a run after the other.                                   *)
EXTENDS StorageMarkers

MCOperators ==
    {[overlap |-> 3, care |-> "always"]} \union [overlap : {1}, care : Cares]
=============================================================================
