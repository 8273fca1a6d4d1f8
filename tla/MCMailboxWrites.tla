---------------------------- MODULE MCMailboxWrites ----------------------------
(* Which records the clients of a run write. *)
EXTENDS MailboxWrites

AllOperations == Types
EveryTrouble == AllTroubles
=============================================================================
