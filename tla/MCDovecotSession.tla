-------------------------- MODULE MCDovecotSession --------------------------
(* The messages are interchangeable. The records of a pass are applied     *)
(* without another step between them, except where the account is held:    *)
(* the daemon answers a write, and serves after a start, when its pass has *)
(* ended.                                                                  *)
EXTENDS DovecotSession, TLC

Symmetric == Permutations(Messages)

PassEnded == Applicable => box.held
MCNext == ApplyRecord \/ Hold \/ (PassEnded /\ Next)
MCSpec == Init /\ [][MCNext]_vars
=============================================================================
