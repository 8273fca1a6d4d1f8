-------------------------- MODULE MCPostfixDelivery -------------------------
(* A message to two recipients, by either transport, and one daemon that   *)
(* may be killed or stopped and started again.  What no client and no      *)
(* store can tell is done at once: a daemon's steps where it does not      *)
(* listen, before it does or between the close of its socket and the       *)
(* removal of the file, and those of a session that has read no request,   *)
(* has handled one or is over.                                             *)
EXTENDS PostfixDelivery, TLC
CONSTANTS r1, r2

MCRecipients == [q \in Entries |-> <<r1, r2>>]
Symmetry == Permutations(Connections)
MCStorageOf == [d \in Daemons |-> d]

UnseenDaemons == {d \in Daemons : daemon[d].pc \in (Starting \ Listening) \cup {"unbound", "matched"}}
UnseenSessions ==
  {k \in Connections : \/ conn[k].at \in {"accepted", "materializing", "closing"}
                       \/ conn[k].at = "reset" /\ conn[k].client = Nobody}
MCNext ==
  \/ \E d \in UnseenDaemons : DaemonStep(d) /\ UNCHANGED deliveryVars
  \/ \E k \in UnseenSessions : SessionStep(k) /\ UNCHANGED deliveryVars
  \/ UnseenDaemons \cup UnseenSessions = {} /\ Next
MCSpec == Init /\ [][MCNext]_vars
=============================================================================
