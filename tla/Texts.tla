-------------------------------- MODULE Texts --------------------------------
(***************************************************************************)
(* The strings of requests and journal records, as far as their validators *)
(* tell them apart: a sequence of characters, each a letter (what tokens,   *)
(* keywords, predicate names and hexadecimal keys may hold), a control      *)
(* character or the backslash that begins a system flag.                   *)
(***************************************************************************)
EXTENDS Naturals, Sequences, SequencesExt

CONSTANTS
  None,         \* a string that is not there (NULL); what is refused
  SystemFlags   \* the strings that name a system flag

(* What one function says, and another where it says nothing; one value.   *)
Onto(f, g) == [x \in DOMAIN f \cup DOMAIN g |-> IF x \in DOMAIN f THEN f[x] ELSE g[x]]
Single(x, v) == [y \in {x} |-> v]

Letters == {1, 2}
Control == 3
Backslash == 4

Required(s) == s # None /\ s # << >>
NoControl(s) == s = None \/ Control \notin ToSet(s)
IsPlain(s) == Required(s) /\ NoControl(s)
IsToken(s) == Required(s) /\ ToSet(s) \subseteq Letters
IsPredicate(s) == IsToken(s)

(* A keyword as journal records take it, and as requests do.               *)
IsKeyword(s) == s # << >> /\ s[1] # Backslash /\ NoControl(s)
IsUserKeywordAny(s) == Required(s)  \* variant: any text will do
IsUserKeyword(s) == IsToken(s)

Names(flags, keywords, IsName(_)) ==
  /\ ToSet(flags) \subseteq SystemFlags /\ IsInjective(flags)
  /\ \A k \in ToSet(keywords) : IsName(k)
  /\ IsInjective(keywords)

Ascending(uids) == \A i \in DOMAIN uids : uids[i] > (IF i = 1 THEN 0 ELSE uids[i - 1])
=============================================================================
