--------------------------- MODULE AccountReplay ---------------------------
(***************************************************************************)
(* What delivery materialization promises, however its passes scan, hold,  *)
(* skip, fail and resume: the catalog receives the records of an account   *)
(* in journal order, without a gap, independently of other accounts; the   *)
(* facts of a message are journaled once, behind the message's application *)
(* and never again, not even after a rebuild, which forgets the catalog    *)
(* and nothing else.                                                       *)
(***************************************************************************)
EXTENDS Naturals, Sequences

CONSTANT Accounts

VARIABLES
  journal,  \* the records, in the order they became durable
  applied   \* indices of the records the catalog contains

vars == <<journal, applied>>

OfAccount(a) == {i \in DOMAIN journal : journal[i].account = a}
Messages == {i \in DOMAIN journal : journal[i].kind \in {"delivery", "append"}}
Described == {journal[f].of : f \in {i \in DOMAIN journal : journal[i].kind = "facts"}}

Init == journal = << >> /\ applied = {}

(* A client's message or other mutation becomes durable.                   *)
Submit ==
  /\ \E a \in Accounts, k \in {"delivery", "append", "update"} :
       journal' = Append(journal, [account |-> a, kind |-> k, of |-> 0])
  /\ UNCHANGED applied

(* The facts of a message in the catalog, while no record has them yet.    *)
Describe ==
  /\ \E i \in (applied \cap Messages) \ Described :
       journal' = Append(journal, [account |-> journal[i].account, kind |-> "facts", of |-> i])
  /\ UNCHANGED applied

(* A change of an account's views, which follow what the catalog has of    *)
(* the account.                                                            *)
ChangeView ==
  /\ \E a \in Accounts :
       /\ \E i \in applied \cap OfAccount(a) : journal[i].kind # "view"
       /\ journal' = Append(journal, [account |-> a, kind |-> "view", of |-> 0])
  /\ UNCHANGED applied

(* The next records of one account become visible together.                *)
Replay ==
  \E a \in Accounts :
    \E next \in SUBSET (OfAccount(a) \ applied) :
      /\ \A i \in next, j \in OfAccount(a) : j < i => j \in applied \cup next
      /\ applied' = applied \cup next
      /\ UNCHANGED journal

(* The catalog is discarded; the journal is not.                           *)
Rebuild == applied' = {} /\ UNCHANGED journal

Next == Submit \/ Describe \/ ChangeView \/ Replay \/ Rebuild

Spec == Init /\ [][Next]_vars
=============================================================================
