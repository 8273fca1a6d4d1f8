---------------------------- MODULE DurableLog ----------------------------
(***************************************************************************)
(* What the mutation journal promises: a log that only grows, whatever     *)
(* crashes, and whose entries are reported to callers only once they are   *)
(* in it for good.                                                         *)
(***************************************************************************)
EXTENDS Naturals, Sequences

CONSTANT Entries

VARIABLES
  committed,  \* the durable log
  returned    \* positions whose append was reported as successful

vars == <<committed, returned>>

Init == committed = << >> /\ returned = {}

(* Entries become durable, with or without their writer learning of it. *)
Commit ==
  /\ Len(committed') >= Len(committed)
  /\ committed' \in Seq(Entries)
  /\ SubSeq(committed', 1, Len(committed)) = committed

Report ==
  \/ UNCHANGED returned
  \/ \E n \in DOMAIN committed' : returned' = returned \cup {n}

Next == Commit /\ Report

Spec == Init /\ [][Next]_vars
=============================================================================
