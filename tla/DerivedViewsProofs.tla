--------------------------- MODULE DerivedViewsProofs ---------------------------
(***************************************************************************)
(* Proofs about the virtual mailboxes, for any messages, facts, rules and  *)
(* order of events: a UID never names a second message, views of which     *)
(* only changed threads were evaluated show what the rules say of all, and *)
(* a journal brings back the catalog that was deleted.                     *)
(***************************************************************************)
EXTENDS DerivedViews, SequenceTheorems, FiniteSetTheorems, WellFoundedInduction, TLAPS

-----------------------------------------------------------------------------
(* Types                                                                   *)

Rules == {c.rules : c \in Configs}
Names == {None} \cup UNION {{c.names[c.scopes[i]] : i \in DOMAIN c.scopes} : c \in Configs}
Rows == [view : Views, msg : Messages, rules : Rules, uid : Nat, visible : BOOLEAN]
ViewRecords == [kind : {"view"}, row : Rows]
Records == [kind : {"delivered"}, facts : SUBSET Facts] \cup ViewRecords
           \cup [kind : {"insert", "retract"}, fact : Facts] \cup [kind : {"expunge"}, msg : Messages]
Catalogs == [facts : [Facts -> [active : BOOLEAN, sequence : Nat]], expunged : [Messages -> Nat],
             rows : SUBSET Rows, uidnext : [Views -> Nat], names : [Views -> Names],
             refreshed : {None} \cup [config : Configs, sequence : Nat], applied : Nat]
Pcs == {"down", "idle", "held", "conflict", "applying", "naming", "refreshing"}
Daemons == [pc : Pcs, due : BOOLEAN, config : {None} \cup Configs, scan : Nat, scope : Nat,
            todo : SUBSET (Messages \X Messages), full : BOOLEAN, since : Nat, latest : Nat,
            pending : Seq(ViewRecords)]
Copies == [rows : SUBSET Rows, uidnext : [Views -> Nat], records : Nat, changes : Nat,
           current : {None} \cup Configs]
Histories == [named : SUBSET (Views \X Nat \X Messages), lost : BOOLEAN, reverted : BOOLEAN,
              deleted : {None} \cup Copies]

Typed ==
  /\ journal \in Seq(Records) /\ journal # << >>
  /\ catalog \in Catalogs /\ IsFiniteSet(catalog.rows)
  /\ daemon \in Daemons
  /\ bound \in [changes : Nat, upsets : Nat]
  /\ history \in Histories

-----------------------------------------------------------------------------
(* Where the pass is                                                       *)

Working == daemon.pc \in {"naming", "refreshing"}
IsView(i) == journal[i].kind = "view"
Unapplied == {i \in DOMAIN journal : catalog.applied < i /\ IsView(i)}

PassInv ==
  /\ daemon.pc # "down" => daemon.config \in Configs
  /\ daemon.pending # << >> => daemon.pc = "refreshing"
  /\ catalog.applied <= Len(journal)
  /\ daemon.pc = "applying" => /\ daemon.scan \in 1 .. Len(journal) /\ catalog.applied <= daemon.scan
                               /\ \A i \in DOMAIN journal : IsView(i) => i <= daemon.scan
  /\ Working => /\ daemon.scope \in DOMAIN daemon.config.scopes /\ 0 < catalog.applied
                /\ daemon.latest = Latest
                /\ IF catalog.refreshed # None /\ catalog.refreshed.config = daemon.config
                   THEN ~daemon.full /\ daemon.since = catalog.refreshed.sequence
                   ELSE daemon.full /\ daemon.since = 0

-----------------------------------------------------------------------------
(* UIDs                                                                    *)

SeenAs(row) == <<row.view, row.uid, row.msg>>
RowsNamed ==
  /\ Seen(catalog.rows) \subseteq history.named
  /\ \A i \in DOMAIN journal : IsView(i) => SeenAs(journal[i].row) \in history.named
  /\ \A i \in DOMAIN daemon.pending : SeenAs(daemon.pending[i].row) \in history.named
NamedRecorded ==
  ~history.lost => \A t \in history.named :
    \/ \E i \in DOMAIN journal : IsView(i) /\ t = SeenAs(journal[i].row)
    \/ \E i \in DOMAIN daemon.pending : t = SeenAs(daemon.pending[i].row)
AppliedPast ==
  \A i \in 1 .. catalog.applied :
    IsView(i) => journal[i].row.uid < catalog.uidnext[journal[i].row.view]
NamedPast == Working /\ ~history.lost => \A t \in history.named : t[2] < catalog.uidnext[t[1]]

UidInv == RowsNamed /\ NamedRecorded /\ AppliedPast /\ NamedPast /\ UidsNameOneMessage

-----------------------------------------------------------------------------
(* Facts                                                                   *)

LastSays(f, n) == \E i \in 1 .. n :
  /\ i \in About(f) /\ journal[i].kind # "retract"
  /\ \A j \in 1 .. n : j \in About(f) => j <= i
FactsInv ==
  /\ \A f \in Facts : /\ catalog.facts[f].active <=> LastSays(f, catalog.applied)
                      /\ catalog.facts[f].sequence <= catalog.applied
  /\ \A m \in Messages : /\ catalog.expunged[m] <= catalog.applied
                         /\ catalog.expunged[m] # 0 <=> \E i \in 1 .. catalog.applied :
                                journal[i].kind = "expunge" /\ journal[i].msg = m

-----------------------------------------------------------------------------
(* Rows                                                                    *)

(* The messages of a view that the rules name, when evaluated over all.    *)
Truth(config, view) == Derived(config.rules, view, ActiveFacts) \cap Ordinary
RightAt(config, view, m) ==
  /\ \A r \in RowsOf(view, m) : r.visible <=> r.rules = config.rules /\ m \in Truth(config, view)
  /\ m \in Truth(config, view) => \E r \in RowsOf(view, m) : r.rules = config.rules

Reach(view, since, full) == Near(view, ThreadLinks(since, full))
Due(view, since, full) ==
  {m \in Messages : \E s \in Changed(since) : <<s, m>> \in Reach(view, since, full)}
Todo == {p[2] : p \in daemon.todo}

AtWork(config, scope, since, full) ==
  /\ daemon.config = config /\ daemon.scope = scope /\ daemon.since = since /\ daemon.full = full
TodoInv ==
  daemon.pc = "refreshing" =>
    /\ \A p, q \in daemon.todo : p[2] = q[2] => p = q
    /\ \A config \in Configs, scope, since \in Nat, full \in BOOLEAN :
         AtWork(config, scope, since, full) =>
           \A p \in daemon.todo, n \in Messages :
             <<p[2], n>> \in Reach(config.scopes[scope], since, full) => <<p[1], n>> \in daemon.todo

(* Is this view and message behind the pass?                               *)
Behind(view, m) ==
  \E i \in 1 .. daemon.scope :
    /\ view = daemon.config.scopes[i]
    /\ i = daemon.scope => daemon.pc = "refreshing" /\ m \notin Todo

RowsInv ==
  /\ \A r, s \in catalog.rows : SameMembership(r, s) => r = s
  /\ catalog.refreshed # None => catalog.refreshed.sequence \in 1 .. catalog.applied
  /\ (catalog.refreshed # None \/ Working) =>
       /\ \A i \in Unapplied : journal[i].row \in catalog.rows
       /\ \A i \in DOMAIN daemon.pending : daemon.pending[i].row \in catalog.rows
  /\ Working =>
       /\ \A i \in Unapplied : Behind(journal[i].row.view, journal[i].row.msg)
       /\ \A i \in DOMAIN daemon.pending : Behind(daemon.pending[i].row.view, daemon.pending[i].row.msg)

(* A view is right but for messages that are due; within a refresh, one    *)
(* that is behind is right.                                                *)
Shown(config, view, since, full) ==
  \A m \in Messages \ Due(view, since, full) : RightAt(config, view, m)
Within(config, scope, since, full) ==
  \A i \in DOMAIN config.scopes :
    /\ i < scope => \A m \in Messages : RightAt(config, config.scopes[i], m)
    /\ i = scope /\ daemon.pc = "refreshing" =>
         \A m \in Messages \ Todo : RightAt(config, config.scopes[i], m)
    /\ scope < i \/ (i = scope /\ daemon.pc = "naming") => Shown(config, config.scopes[i], since, full)
ShownInv ==
  /\ \A config \in Configs, since \in Nat :
       (/\ catalog.refreshed # None /\ catalog.refreshed = [config |-> config, sequence |-> since]
        /\ ~history.reverted) =>
         \A i \in DOMAIN config.scopes : Shown(config, config.scopes[i], since, FALSE)
  /\ \A config \in Configs, scope, since \in Nat, full \in BOOLEAN :
       Working /\ AtWork(config, scope, since, full) /\ (full \/ ~history.reverted) =>
         Within(config, scope, since, full)

IInv == Typed /\ PassInv /\ UidInv /\ FactsInv /\ TodoInv /\ RowsInv /\ ShownInv

-----------------------------------------------------------------------------
(* Numbers                                                                 *)

(* A set of numbers that is not empty has a least one.                     *)
LEMMA NatMin ==
  ASSUME NEW S, S \subseteq Nat, S # {}
  PROVE  Min(S) \in S /\ \A y \in S : Min(S) <= y
  <1>1. \E x \in S : \A y \in S : ~(<<y, x>> \in OpToRel(<, Nat))
    BY NatLessThanWellFounded, WFMin
  <1>2. PICK x \in S : \A y \in S : ~(<<y, x>> \in OpToRel(<, Nat))
    BY <1>1
  <1>3. \A y \in S : ~(y < x)
    BY <1>2 DEF OpToRel
  <1>4. \A y \in S : x =< y
    BY <1>3
  <1> QED
    BY <1>4 DEF Min

(* A finite one has a greatest: else one with the fewest elements had none.*)
LEMMA FiniteMax ==
  ASSUME NEW S, IsFiniteSet(S), S \subseteq Nat, S # {}
  PROVE  Max(S) \in S /\ \A y \in S : y <= Max(S)
  <1> DEFINE HasMax(X) == \E x \in X : \A y \in X : y <= x
             Bad == {n \in Nat : \E X \in SUBSET Nat :
                       IsFiniteSet(X) /\ X # {} /\ Cardinality(X) = n /\ ~HasMax(X)}
  <1>1. Bad = {}
    <2> SUFFICES ASSUME Bad # {} PROVE FALSE
      OBVIOUS
    <2>1. Bad \subseteq Nat
      OBVIOUS
    <2>2. PICK n \in Bad : \A k \in Bad : n <= k
      <3> HIDE DEF Bad
      <3> QED
        BY <2>1, NatMin
    <2>3. PICK X \in SUBSET Nat : IsFiniteSet(X) /\ X # {} /\ Cardinality(X) = n /\ ~HasMax(X)
      BY <2>2
    <2>4. PICK x \in X : TRUE
      BY <2>3
    <2>5. /\ IsFiniteSet(X \ {x}) /\ Cardinality(X \ {x}) = n - 1 /\ X \ {x} \in SUBSET Nat
          /\ Cardinality(X \ {x}) \in Nat
      BY <2>3, <2>4, FS_RemoveElement, FS_CardinalityType
    <2>6. X \ {x} # {}
      BY <2>3, <2>4
    <2>7. HasMax(X \ {x})
      <3>1. n - 1 \notin Bad
        BY <2>1, <2>2
      <3> HIDE DEF HasMax
      <3> QED
        BY <2>5, <2>6, <3>1
    <2>8. PICK z \in X \ {x} : \A y \in X \ {x} : y <= z
      BY <2>7
    <2>9. HasMax(X)
      <3>1. CASE x <= z
        BY <2>8, <3>1
      <3>2. CASE ~(x <= z)
        <4>1. \A y \in X : y <= x
          BY <2>3, <2>4, <2>8, <3>2
        <4> QED
          BY <2>4, <4>1
      <3> QED
        BY <3>1, <3>2
    <2> QED
      BY <2>3, <2>9
  <1>2. Cardinality(S) \in Nat
    BY FS_CardinalityType
  <1>3. HasMax(S)
    <2> HIDE DEF HasMax
    <2> QED
      BY <1>1, <1>2
  <1>4. \E x \in S : \A y \in S : x >= y
    BY <1>3
  <1> QED
    BY <1>4 DEF Max

-----------------------------------------------------------------------------
(* Threads                                                                 *)

(* Being in one thread: every message is with itself, ...                  *)
LEMMA ThreadsReflexive ==
  ASSUME NEW links, NEW m \in Messages
  PROVE  <<m, m>> \in Threads(links)
  BY DEF Threads

(* ... a link puts its ends in one thread, ...                             *)
LEMMA LinkIsThread ==
  ASSUME NEW facts, NEW m \in Messages, NEW n \in Messages, <<m, n>> \in Linked(facts)
  PROVE  <<m, n>> \in Threads(Linked(facts))
  <1>1. ASSUME NEW S \in SUBSET Messages, m \in S, \A l \in Linked(facts) : l[1] \in S => l[2] \in S
        PROVE  n \in S
    BY <1>1
  <1> QED
    BY <1>1 DEF Threads

(* ... since links go both ways, so do threads, ...                        *)
LEMMA ThreadsSymmetric ==
  ASSUME NEW facts, NEW m \in Messages, NEW n \in Messages, <<m, n>> \in Threads(Linked(facts))
  PROVE  <<n, m>> \in Threads(Linked(facts))
  <1> SUFFICES ASSUME NEW S \in SUBSET Messages, n \in S,
                      \A l \in Linked(facts) : l[1] \in S => l[2] \in S, m \notin S
               PROVE  FALSE
    BY DEF Threads
  <1>1. \A S2 \in SUBSET Messages :
          m \in S2 /\ (\A l \in Linked(facts) : l[1] \in S2 => l[2] \in S2) => n \in S2
    BY DEF Threads
  <1>2. ASSUME NEW l \in Linked(facts), l[1] \in Messages \ S
        PROVE  l[2] \in Messages \ S
    <2>1. l[1] \in Messages /\ l[2] \in Messages /\ <<l[2], l[1]>> \in Linked(facts)
      BY DEF Linked
    <2> QED
      BY <1>2, <2>1
  <1>3. Messages \ S \in SUBSET Messages /\ m \in Messages \ S
    OBVIOUS
  <1> QED
    BY <1>1, <1>2, <1>3

(* ... and two threads with a message in common are one.                   *)
LEMMA ThreadsTransitive ==
  ASSUME NEW links, NEW m \in Messages, NEW n \in Messages, NEW k \in Messages,
         <<m, n>> \in Threads(links), <<n, k>> \in Threads(links)
  PROVE  <<m, k>> \in Threads(links)
  BY DEF Threads

(* More facts only join threads.                                           *)
LEMMA ThreadsGrow ==
  ASSUME NEW facts, NEW more, facts \subseteq more, NEW m \in Messages, NEW n \in Messages,
         <<m, n>> \in Threads(Linked(facts))
  PROVE  <<m, n>> \in Threads(Linked(more))
  <1>1. Linked(facts) \subseteq Linked(more)
    BY DEF Linked
  <1> QED
    BY <1>1 DEF Threads

(* Which of its messages are in one thread is for a set that no thread     *)
(* leaves to say, from their own facts.                                    *)
LEMMA ThreadsAreLocal ==
  ASSUME NEW facts, NEW others, NEW C \in SUBSET Messages, NEW m \in C, NEW n \in Messages,
         \A x \in C, y \in Messages : <<x, y>> \in Threads(Linked(facts)) => y \in C,
         \A x \in C, k \in Keys : <<x, k>> \in facts => <<x, k>> \in others,
         <<m, n>> \in Threads(Linked(facts))
  PROVE  <<m, n>> \in Threads(Linked(others))
  <1> SUFFICES ASSUME NEW S \in SUBSET Messages, m \in S,
                      \A l \in Linked(others) : l[1] \in S => l[2] \in S
               PROVE  n \in S
    BY DEF Threads
  <1>1. \A S2 \in SUBSET Messages :
          m \in S2 /\ (\A l \in Linked(facts) : l[1] \in S2 => l[2] \in S2) => n \in S2
    BY DEF Threads
  <1>2. ASSUME NEW l \in Linked(facts), l[1] \in S \cap C
        PROVE  l[2] \in S \cap C
    <2>1. /\ l = <<l[1], l[2]>> /\ l[1] \in Messages /\ l[2] \in Messages
          /\ \E k \in Keys : <<l[1], k>> \in facts /\ <<l[2], k>> \in facts
      BY DEF Linked
    <2>2. l[2] \in C
      BY <1>2, <2>1, LinkIsThread
    <2>3. l \in Linked(others)
      BY <1>2, <2>1, <2>2 DEF Linked
    <2> QED
      BY <1>2, <2>2, <2>3
  <1> QED
    BY <1>1, <1>2

(* What a view's scope promises a rule, too, is in each message's own      *)
(* class: an equivalence, ...                                              *)
LEMMA NearEquivalence ==
  ASSUME NEW view \in Views, NEW facts
  PROVE  /\ Near(view, facts) \subseteq Messages \X Messages
         /\ \A m \in Messages : <<m, m>> \in Near(view, facts)
         /\ \A m, n \in Messages : <<m, n>> \in Near(view, facts) => <<n, m>> \in Near(view, facts)
         /\ \A m, n, k \in Messages : <<m, n>> \in Near(view, facts) /\ <<n, k>> \in Near(view, facts)
              => <<m, k>> \in Near(view, facts)
  <1>1. CASE view = "message"
    BY <1>1 DEF Near
  <1>2. CASE view = "thread"
    <2>1. Near(view, facts) = Threads(Linked(facts))
      BY <1>2 DEF Near
    <2>2. Threads(Linked(facts)) \subseteq Messages \X Messages
      BY DEF Threads
    <2> QED
      BY <2>1, <2>2, ThreadsReflexive, ThreadsSymmetric, ThreadsTransitive
  <1>3. CASE view = "account"
    BY <1>3 DEF Near
  <1> QED
    BY <1>1, <1>2, <1>3, ViewsAssumption

(* ... that more facts only make coarser, ...                              *)
LEMMA NearGrows ==
  ASSUME NEW view \in Views, NEW facts, NEW more, facts \cap (Messages \X Keys) \subseteq more,
         NEW m \in Messages, NEW n \in Messages, <<m, n>> \in Near(view, facts)
  PROVE  <<m, n>> \in Near(view, more)
  <1>1. CASE view = "thread"
    <2> DEFINE some == facts \cap (Messages \X Keys)
    <2>1. Linked(facts) = Linked(some)
      BY DEF Linked
    <2>2. <<m, n>> \in Threads(Linked(some))
      BY <1>1, <2>1 DEF Near
    <2> HIDE DEF some
    <2>3. <<m, n>> \in Threads(Linked(more))
      BY <2>2, ThreadsGrow DEF some
    <2> QED
      BY <1>1, <2>3 DEF Near
  <1>2. CASE view # "thread"
    BY <1>2, ViewsAssumption DEF Near
  <1> QED
    BY <1>1, <1>2

(* ... and that facts elsewhere do not change.                             *)
LEMMA NearIsLocal ==
  ASSUME NEW view \in Views, NEW facts, NEW others, NEW C \in SUBSET Messages,
         NEW m \in C, NEW n \in Messages,
         \A x \in C, y \in Messages : <<x, y>> \in Near(view, facts) => y \in C,
         \A x \in C, k \in Keys : <<x, k>> \in facts => <<x, k>> \in others,
         <<m, n>> \in Near(view, facts)
  PROVE  <<m, n>> \in Near(view, others)
  <1>1. CASE view = "thread"
    <2>1. /\ \A x \in C, y \in Messages : <<x, y>> \in Threads(Linked(facts)) => y \in C
          /\ <<m, n>> \in Threads(Linked(facts))
      BY <1>1 DEF Near
    <2>2. <<m, n>> \in Threads(Linked(others))
      BY <2>1, ThreadsAreLocal
    <2> QED
      BY <1>1, <2>2 DEF Near
  <1>2. CASE view # "thread"
    BY <1>2, ViewsAssumption DEF Near
  <1> QED
    BY <1>1, <1>2

(* So what rules derive of a message follows from the facts of any set of  *)
(* messages that holds it and that neither evaluation looks out of.        *)
LEMMA DerivedIsLocal ==
  ASSUME NEW rules, NEW view \in Views, NEW facts, NEW others, NEW C \in SUBSET Messages, NEW m \in C,
         \A x \in C, y \in Messages : <<x, y>> \in Near(view, facts) => y \in C,
         \A x \in C, y \in Messages : <<x, y>> \in Near(view, others) => y \in C,
         \A x \in C, k \in Keys \cup {"mark"} : <<x, k>> \in facts <=> <<x, k>> \in others
  PROVE  m \in Derived(rules, view, facts) <=> m \in Derived(rules, view, others)
  <1>1. \A n \in Messages : <<m, n>> \in Near(view, facts) => <<m, n>> \in Near(view, others)
    BY NearIsLocal
  <1>2. \A n \in Messages : <<m, n>> \in Near(view, others) => <<m, n>> \in Near(view, facts)
    BY NearIsLocal
  <1>3. CASE rules = "marked"
    <2>1. \A n \in Messages : <<m, n>> \in Near(view, facts) <=> <<m, n>> \in Near(view, others)
      BY <1>1, <1>2
    <2>2. \A n \in Messages : <<m, n>> \in Near(view, facts) =>
            (<<n, "mark">> \in facts <=> <<n, "mark">> \in others)
      OBVIOUS
    <2> QED
      BY <1>3, <2>1, <2>2 DEF Derived
  <1>4. CASE rules # "marked"
    BY <1>4 DEF Derived
  <1> QED
    BY <1>3, <1>4

-----------------------------------------------------------------------------
(* What a change of facts can make wrong                                   *)

(* The last change is the greatest of the sequences.                       *)
LEMMA LatestIsLast ==
  ASSUME Typed, FactsInv
  PROVE  /\ Latest \in 0 .. catalog.applied /\ (catalog.applied > 0 => Latest > 0)
         /\ \A f \in Facts : catalog.facts[f].sequence <= Latest
         /\ \A m \in Messages : catalog.expunged[m] <= Latest
  <1> DEFINE all == {IF catalog.applied > 0 THEN 1 ELSE 0} \cup {catalog.facts[f].sequence : f \in Facts}
                    \cup {catalog.expunged[m] : m \in Messages}
  <1>1. /\ catalog.applied \in Nat /\ catalog.facts \in [Facts -> [active : BOOLEAN, sequence : Nat]]
        /\ catalog.expunged \in [Messages -> Nat]
    BY DEF Typed, Catalogs
  <1>2. all \subseteq 0 .. catalog.applied /\ all # {}
    <2>1. \A f \in Facts : catalog.facts[f].sequence \in 0 .. catalog.applied
      BY <1>1 DEF FactsInv
    <2>2. \A m \in Messages : catalog.expunged[m] \in 0 .. catalog.applied
      BY <1>1 DEF FactsInv
    <2>3. (IF catalog.applied > 0 THEN 1 ELSE 0) \in 0 .. catalog.applied
      BY <1>1
    <2> QED
      BY <2>1, <2>2, <2>3
  <1>3. IsFiniteSet(0 .. catalog.applied)
    <2>1. 0 \in Int /\ catalog.applied \in Int
      BY <1>1
    <2> QED
      BY <2>1, FS_Interval
  <1>4. /\ (IF catalog.applied > 0 THEN 1 ELSE 0) \in all
        /\ \A f \in Facts : catalog.facts[f].sequence \in all
        /\ \A m \in Messages : catalog.expunged[m] \in all
    OBVIOUS
  <1>5. Latest = Max(all)
    BY DEF Latest
  <1> HIDE DEF all
  <1>6. IsFiniteSet(all)
    BY <1>2, <1>3, FS_Subset
  <1>7. all \subseteq Nat
    BY <1>1, <1>2
  <1>8. Max(all) \in all /\ \A y \in all : y <= Max(all)
    BY <1>2, <1>6, <1>7, FiniteMax
  <1>9. Latest \in 0 .. catalog.applied
    BY <1>2, <1>5, <1>8
  <1> QED
    BY <1>1, <1>4, <1>5, <1>8, <1>9

(* When nothing changed since, nothing is due.                             *)
LEMMA NothingDue ==
  ASSUME Typed, FactsInv, NEW since \in Nat \ {0}, Latest <= since, NEW view, NEW full
  PROVE  Due(view, since, full) = {}
  <1>1. Latest \in Nat /\ catalog.applied \in Nat
    BY LatestIsLast DEF Typed, Catalogs
  <1>2. ASSUME NEW f \in Facts PROVE ~(catalog.facts[f].sequence > since)
    <2>1. catalog.facts[f].sequence \in Nat
      BY DEF Typed, Catalogs
    <2> QED
      BY <1>1, <2>1, LatestIsLast
  <1>3. ASSUME NEW m \in Messages PROVE ~(catalog.expunged[m] > since)
    <2>1. catalog.expunged[m] \in Nat
      BY DEF Typed, Catalogs
    <2> QED
      BY <1>1, <2>1, LatestIsLast
  <1>4. DeliveredMessages \subseteq Messages
    BY DEF DeliveredMessages
  <1>5. Changed(since) = {}
    BY <1>2, <1>3, <1>4 DEF Changed
  <1> QED
    BY <1>5 DEF Due

(* When everything is evaluated, everything is due.                        *)
LEMMA AllDue ==
  ASSUME Typed, catalog.applied > 0, NEW view \in Views, NEW full
  PROVE  Due(view, 0, full) = Messages
  <1>1. Changed(0) = Messages
    BY DEF Changed, DeliveredMessages
  <1> QED
    BY <1>1, NearEquivalence DEF Due, Reach

(* A rule's evaluation stays in the reach of the refresh.                  *)
LEMMA NearInReach ==
  ASSUME NEW view \in Views, NEW since, NEW full, NEW facts \in SUBSET ActiveFacts,
         NEW m \in Messages, NEW n \in Messages, <<m, n>> \in Near(view, facts)
  PROVE  <<m, n>> \in Reach(view, since, full)
  <1>1. facts \cap (Messages \X Keys) \subseteq ThreadLinks(since, full)
    BY DEF ActiveFacts, ThreadLinks, Facts
  <1> QED
    BY <1>1, NearGrows DEF Reach

(* A record that changes facts or an expunge can make wrong only messages  *)
(* that are due after it, since their threads hold a changed message.      *)
LEMMA ChangesMakeDue ==
  ASSUME Typed, catalog' \in Catalogs,
         catalog'.applied = catalog.applied + 1, catalog'.rows = catalog.rows,
         \A f \in Facts : \/ catalog'.facts[f] = catalog.facts[f]
                          \/ catalog'.facts[f].sequence = catalog.applied + 1,
         \A m \in Messages : \/ catalog'.expunged[m] = catalog.expunged[m]
                             \/ catalog'.expunged[m] = catalog.applied + 1,
         NEW config, NEW view \in Views, NEW since \in 1 .. catalog.applied,
         NEW m \in Messages, m \notin Due(view, since, FALSE)'
  PROVE  /\ m \notin Due(view, since, FALSE)
         /\ RightAt(config, view, m) => RightAt(config, view, m)'
  <1> DEFINE C == {n \in Messages : <<m, n>> \in Reach(view, since, FALSE)'}
  <1>0. /\ catalog.applied \in Nat /\ since \in Nat /\ since <= catalog.applied /\ 1 <= since
        /\ catalog.facts \in [Facts -> [active : BOOLEAN, sequence : Nat]]
        /\ catalog'.facts \in [Facts -> [active : BOOLEAN, sequence : Nat]]
        /\ catalog.expunged \in [Messages -> Nat] /\ catalog'.expunged \in [Messages -> Nat]
    BY DEF Typed, Catalogs
  <1>1. DeliveredMessages = Messages /\ DeliveredMessages' = Messages
    BY <1>0 DEF DeliveredMessages
  <1>2. Changed(since) \subseteq Changed(since)'
    BY <1>0, <1>1 DEF Changed
  <1>3. ThreadLinks(since, FALSE) \subseteq ThreadLinks(since, FALSE)'
    BY <1>0 DEF ThreadLinks
  <1>4. \A x, y \in Messages : <<x, y>> \in Reach(view, since, FALSE) => <<x, y>> \in Reach(view, since, FALSE)'
    <2> SUFFICES ASSUME NEW x \in Messages, NEW y \in Messages, <<x, y>> \in Reach(view, since, FALSE)
                 PROVE  <<x, y>> \in Near(view, ThreadLinks(since, FALSE)')
      BY DEF Reach
    <2> DEFINE more == ThreadLinks(since, FALSE)'
    <2>1. ThreadLinks(since, FALSE) \cap (Messages \X Keys) \subseteq more
      BY <1>3
    <2>2. <<x, y>> \in Near(view, ThreadLinks(since, FALSE))
      BY DEF Reach
    <2> HIDE DEF more
    <2>3. <<x, y>> \in Near(view, more)
      BY <2>1, <2>2, NearGrows
    <2> QED
      BY <2>3 DEF more
  <1>5. m \notin Due(view, since, FALSE)
    BY <1>1, <1>2, <1>4 DEF Due, Changed
  <1>6. /\ \A x \in Messages : <<x, x>> \in Reach(view, since, FALSE)'
        /\ \A x, y \in Messages : <<x, y>> \in Reach(view, since, FALSE)' => <<y, x>> \in Reach(view, since, FALSE)'
        /\ \A x, y, z \in Messages : <<x, y>> \in Reach(view, since, FALSE)' /\ <<y, z>> \in Reach(view, since, FALSE)'
             => <<x, z>> \in Reach(view, since, FALSE)'
    <2> DEFINE more == ThreadLinks(since, FALSE)'
    <2> DEFINE reach == Near(view, more)
    <2>1. Reach(view, since, FALSE)' = reach
      BY DEF Reach
    <2> HIDE DEF more
    <2>2. /\ \A x \in Messages : <<x, x>> \in reach
          /\ \A x, y \in Messages : <<x, y>> \in reach => <<y, x>> \in reach
          /\ \A x, y, z \in Messages : <<x, y>> \in reach /\ <<y, z>> \in reach => <<x, z>> \in reach
      BY NearEquivalence
    <2> HIDE DEF reach
    <2> QED
      BY <2>1, <2>2
  <1>7. \A s \in C : s \notin Changed(since)'
    BY <1>6 DEF Due
  <1>8. \A s \in C : /\ catalog'.expunged[s] = catalog.expunged[s]
                     /\ \A f \in Facts : f[1] = s => catalog'.facts[f] = catalog.facts[f]
    <2> SUFFICES ASSUME NEW s \in Messages, s \notin Changed(since)'
                 PROVE  /\ catalog'.expunged[s] = catalog.expunged[s]
                        /\ \A f \in Facts : f[1] = s => catalog'.facts[f] = catalog.facts[f]
      BY <1>7
    <2>1. ~(catalog'.expunged[s] > since)
      BY <1>1 DEF Changed
    <2>2. \A f \in Facts : f[1] = s => ~(catalog'.facts[f].sequence > since)
      BY <1>1 DEF Changed
    <2>3. catalog'.expunged[s] = catalog.expunged[s]
      BY <1>0, <2>1
    <2>4. ASSUME NEW f \in Facts, f[1] = s PROVE catalog'.facts[f] = catalog.facts[f]
      BY <1>0, <2>2, <2>4
    <2> QED
      BY <2>3, <2>4
  <1>9. m \in C
    BY <1>6
  <1>10. \A x \in C, k \in Keys \cup {"mark"} : <<x, k>> \in ActiveFacts <=> <<x, k>> \in ActiveFacts'
    <2> SUFFICES ASSUME NEW x \in C, NEW k \in Keys \cup {"mark"}
                 PROVE  <<x, k>> \in ActiveFacts <=> <<x, k>> \in ActiveFacts'
      OBVIOUS
    <2>1. x \in Messages
      OBVIOUS
    <2>2. <<x, k>> \in Facts /\ <<x, k>>[1] = x
      BY <2>1 DEF Facts
    <2>3. catalog'.facts[<<x, k>>] = catalog.facts[<<x, k>>]
      BY <1>8, <2>2
    <2> QED
      BY <2>2, <2>3 DEF ActiveFacts
  <1>11. \A x \in C, y \in Messages : <<x, y>> \in Near(view, ActiveFacts) => y \in C
    BY <1>4, <1>6, NearInReach
  <1>12. \A x \in C, y \in Messages : <<x, y>> \in Near(view, ActiveFacts') => y \in C
    <2> SUFFICES ASSUME NEW x \in C, NEW y \in Messages, <<x, y>> \in Near(view, ActiveFacts')
                 PROVE  y \in C
      OBVIOUS
    <2> DEFINE active == ActiveFacts'  more == ThreadLinks(since, FALSE)'
    <2>1. active \cap (Messages \X Keys) \subseteq more
      BY DEF ActiveFacts, ThreadLinks, Facts
    <2>2. <<x, y>> \in Near(view, active)
      OBVIOUS
    <2> HIDE DEF active, more
    <2>3. <<x, y>> \in Near(view, more)
      BY <2>1, <2>2, NearGrows
    <2>4. <<x, y>> \in Reach(view, since, FALSE)'
      BY <2>3 DEF Reach, more
    <2> QED
      BY <1>6, <2>4
  <1>13. m \in Derived(config.rules, view, ActiveFacts) <=> m \in Derived(config.rules, view, ActiveFacts')
    <2> DEFINE active == ActiveFacts  actives == ActiveFacts'
    <2>1. /\ \A x \in C, k \in Keys \cup {"mark"} : <<x, k>> \in active <=> <<x, k>> \in actives
          /\ \A x \in C, y \in Messages : <<x, y>> \in Near(view, active) => y \in C
          /\ \A x \in C, y \in Messages : <<x, y>> \in Near(view, actives) => y \in C
          /\ C \in SUBSET Messages
      BY <1>10, <1>11, <1>12
    <2> HIDE DEF active, actives, C
    <2>2. m \in Derived(config.rules, view, active) <=> m \in Derived(config.rules, view, actives)
      BY <1>9, <2>1, DerivedIsLocal
    <2> QED
      BY <2>2 DEF active, actives
  <1>14. m \in Ordinary <=> m \in Ordinary'
    BY <1>1, <1>8, <1>9 DEF Ordinary
  <1>15. m \in Truth(config, view) <=> m \in Truth(config, view)'
    <2>1. Truth(config, view)' = Derived(config.rules, view, ActiveFacts') \cap Ordinary'
      BY DEF Truth, Derived, Near, Threads, Linked
    <2> QED
      BY <1>13, <1>14, <2>1 DEF Truth
  <1>16. RowsOf(view, m)' = RowsOf(view, m)
    BY DEF RowsOf
  <1>17. RightAt(config, view, m)' <=>
           /\ \A r \in RowsOf(view, m)' : r.visible <=> r.rules = config.rules /\ m \in Truth(config, view)'
           /\ m \in Truth(config, view)' => \E r \in RowsOf(view, m)' : r.rules = config.rules
    BY DEF RightAt
  <1> QED
    BY <1>5, <1>15, <1>16, <1>17 DEF RightAt

-----------------------------------------------------------------------------
(* The changes of a batch                                                  *)

(* What a function makes of a finite set is finite.                        *)
LEMMA ImageFinite ==
  ASSUME NEW S, IsFiniteSet(S), NEW f, DOMAIN f = S
  PROVE  IsFiniteSet({f[x] : x \in S})
  <1> DEFINE T == {f[x] : x \in S}  g == [x \in S |-> f[x]]
  <1>1. g \in [S -> T] /\ \A t \in T : \E x \in S : g[x] = t
    OBVIOUS
  <1>2. g \in Surjection(S, T)
    BY <1>1 DEF Surjection
  <1> HIDE DEF T, g
  <1>3. IsFiniteSet(T)
    BY <1>2, FS_Surjection
  <1> QED
    BY <1>3 DEF T

RowsUnique == \A r, s \in catalog.rows : SameMembership(r, s) => r = s

(* A row that is flipped changes in nothing but what it shows.             *)
LEMMA FlippedRows ==
  ASSUME Typed, RowsUnique, daemon.config \in Configs, NEW view \in Views, NEW batch \in SUBSET Messages,
         NEW members, NEW x \in {[r EXCEPT !.visible = ~@] : r \in Flipped(view, batch, members)}
  PROVE  /\ x \in Rows /\ x.view = view /\ x.msg \in batch
         /\ x.visible <=> x.rules = daemon.config.rules /\ x.msg \in members
         /\ \E r \in catalog.rows : /\ SameMembership(r, x) /\ r.uid = x.uid
                                    /\ \A s \in catalog.rows : SameMembership(s, x) => s = r
  <1>1. PICK r \in Flipped(view, batch, members) : x = [r EXCEPT !.visible = ~@]
    OBVIOUS
  <1>2. /\ r \in catalog.rows /\ r \in Rows /\ r.view = view /\ r.msg \in batch
        /\ r.visible # (r.rules = daemon.config.rules /\ r.msg \in members)
    BY DEF Flipped, Typed, Catalogs
  <1> DEFINE shown == ~r.visible
  <1>3. x = [r EXCEPT !.visible = shown] /\ shown \in BOOLEAN
    BY <1>1
  <1>4. shown <=> r.rules = daemon.config.rules /\ r.msg \in members
    BY <1>2 DEF Rows
  <1> HIDE DEF shown
  <1>5. /\ x \in Rows /\ x.view = r.view /\ x.msg = r.msg /\ x.rules = r.rules /\ x.uid = r.uid
        /\ x.visible = shown
    BY <1>2, <1>3 DEF Rows
  <1>6. \A s \in catalog.rows : SameMembership(s, x) => s = r
    BY <1>2, <1>5 DEF RowsUnique, SameMembership
  <1> QED
    BY <1>2, <1>4, <1>5, <1>6 DEF SameMembership

(* Messages of the scope follow one another.                               *)
Placed(batch) == \A m \in batch : ComponentOf(m) \in Messages

LEMMA PrecedesOrders ==
  ASSUME NEW batch \in SUBSET Messages, Placed(batch), NEW a \in batch, NEW b \in batch, NEW c \in batch
  PROVE  /\ ~Precedes(a, a)
         /\ Precedes(a, b) /\ Precedes(b, c) => Precedes(a, c)
         /\ a # b => Precedes(a, b) \/ Precedes(b, a)
  <1>1. /\ a \in Nat /\ b \in Nat /\ c \in Nat
        /\ ComponentOf(a) \in Nat /\ ComponentOf(b) \in Nat /\ ComponentOf(c) \in Nat
    BY ViewsAssumption DEF Placed
  <1> QED
    BY <1>1 DEF Precedes

(* A row that is inserted is the first of its message under these rules,   *)
(* visible, and takes a UID no other row of the batch does.                *)
LEMMA InsertedRows ==
  ASSUME Typed, daemon.config \in Configs, NEW view \in Views, NEW batch \in SUBSET Messages,
         NEW members, Placed(batch), NEW x \in Inserted(view, batch, members)
  PROVE  /\ x \in Rows /\ x.view = view /\ x.msg \in batch \cap members
         /\ x.visible /\ x.rules = daemon.config.rules
         /\ catalog.uidnext[view] <= x.uid
         /\ \A r \in catalog.rows : ~SameMembership(r, x)
         /\ \A y \in Inserted(view, batch, members) : x.msg = y.msg \/ x.uid = y.uid => x = y
  <1> DEFINE entering == Entering(view, batch, members)
             before(m) == {n \in entering : Precedes(n, m)}
             made(m) == Row(view, m, daemon.config.rules, catalog.uidnext[view] + Cardinality(before(m)), TRUE)
  <1>1. entering \subseteq Messages /\ IsFiniteSet(entering) /\ entering \subseteq batch
    <2>1. entering \subseteq Messages /\ entering \subseteq batch
      BY DEF Entering
    <2> HIDE DEF entering
    <2> QED
      BY <2>1, FS_Subset, ViewsAssumption
  <1>2. \A m \in entering : IsFiniteSet(before(m)) /\ Cardinality(before(m)) \in Nat
    <2> HIDE DEF entering
    <2> TAKE m \in entering
    <2>1. before(m) \in SUBSET entering
      OBVIOUS
    <2> HIDE DEF before
    <2> QED
      BY <1>1, <2>1, FS_Subset, FS_CardinalityType
  <1>3. \A m, k \in entering : Precedes(m, k) => Cardinality(before(m)) < Cardinality(before(k))
    <2> HIDE DEF entering
    <2> SUFFICES ASSUME NEW m \in entering, NEW k \in entering, Precedes(m, k)
                 PROVE  Cardinality(before(m)) < Cardinality(before(k))
      OBVIOUS
    <2>1. m \in batch /\ k \in batch /\ \A n \in entering : n \in batch
      BY <1>1
    <2>2. before(m) \in SUBSET before(k) /\ m \in before(k) /\ m \notin before(m)
      <3>1. \A n \in entering : Precedes(n, m) => Precedes(n, k)
        BY <2>1, PrecedesOrders
      <3>2. ~Precedes(m, m)
        BY <2>1, PrecedesOrders
      <3> QED
        BY <3>1, <3>2
    <2>3. IsFiniteSet(before(k)) /\ Cardinality(before(m)) \in Nat /\ Cardinality(before(k)) \in Nat
      BY <1>2
    <2> HIDE DEF before
    <2>4. /\ Cardinality(before(m)) <= Cardinality(before(k))
          /\ Cardinality(before(k)) = Cardinality(before(m)) => before(k) = before(m)
      BY <2>2, <2>3, FS_Subset
    <2> QED
      BY <2>2, <2>3, <2>4
  <1>4. catalog.uidnext[view] \in Nat
    BY DEF Typed, Catalogs
  <1>5. Inserted(view, batch, members) = {made(m) : m \in entering}
    BY DEF Inserted
  <1>6. \A m \in entering : /\ m \in batch \cap members
                            /\ \A r \in RowsOf(view, m) : r.rules # daemon.config.rules
    BY DEF Entering
  <1>7. \A m, k \in entering : made(m).uid = made(k).uid => m = k
    <2>1. \A m \in entering : made(m).uid = catalog.uidnext[view] + Cardinality(before(m))
      BY DEF Row
    <2>2. \A m, k \in entering : m # k => Precedes(m, k) \/ Precedes(k, m)
      BY <1>1, PrecedesOrders
    <2> HIDE DEF entering, before, made
    <2>3. \A m, k \in entering : made(m).uid = made(k).uid => Cardinality(before(m)) = Cardinality(before(k))
      BY <1>2, <1>4, <2>1
    <2>4. \A m, k \in entering : Cardinality(before(m)) = Cardinality(before(k)) => ~Precedes(m, k) /\ ~Precedes(k, m)
      BY <1>2, <1>3
    <2> QED
      BY <2>2, <2>3, <2>4
  <1>8. \A m \in entering : /\ made(m).view = view /\ made(m).msg = m /\ made(m).rules = daemon.config.rules
                            /\ made(m).visible = TRUE
                            /\ made(m).uid \in Nat /\ catalog.uidnext[view] <= made(m).uid
    <2> HIDE DEF entering, before
    <2> QED
      BY <1>2, <1>4 DEF Row
  <1>9. \A m \in entering : made(m) \in Rows
    <2> HIDE DEF entering, before
    <2>1. daemon.config.rules \in Rules
      BY DEF Rules
    <2> QED
      BY <1>1, <1>2, <1>4, <2>1 DEF Row, Rows
  <1> HIDE DEF entering, made, before
  <1>10. PICK m \in entering : x = made(m)
    BY <1>5
  <1>11. \A r \in catalog.rows : ~SameMembership(r, x)
    BY <1>6, <1>8, <1>10 DEF RowsOf, SameMembership
  <1>12. ASSUME NEW y \in Inserted(view, batch, members), x.msg = y.msg \/ x.uid = y.uid
         PROVE  x = y
    <2>1. PICK k \in entering : y = made(k)
      BY <1>5
    <2> QED
      BY <1>7, <1>8, <1>10, <1>12, <2>1
  <1> QED
    BY <1>6, <1>8, <1>9, <1>10, <1>11, <1>12

HasRow(x) == \E r \in catalog.rows : SameMembership(r, x) /\ r.uid = x.uid

(* The changes of a batch: rows of its messages as the evaluation says,    *)
(* one per membership, each with its row's UID or with a new one.          *)
LEMMA ChangesShape ==
  ASSUME Typed, RowsUnique, daemon.config \in Configs, NEW view \in Views, NEW batch \in SUBSET Messages,
         NEW members, NEW changes, changes = Changes(view, batch, members), Placed(batch)
  PROVE  /\ changes \subseteq Rows /\ IsFiniteSet(changes)
         /\ \A x \in changes :
              /\ x.view = view /\ x.msg \in batch
              /\ x.visible <=> x.rules = daemon.config.rules /\ x.msg \in members
              /\ HasRow(x) \/ catalog.uidnext[view] <= x.uid
         /\ \A x, y \in changes : SameMembership(x, y) => x = y
         /\ \A x, y \in changes : x.uid = y.uid => x = y \/ HasRow(x) \/ HasRow(y)
  <1> DEFINE flipped == Flipped(view, batch, members)
             flips == {[r EXCEPT !.visible = ~@] : r \in flipped}
             inserted == Inserted(view, batch, members)
  <1>1. changes = flips \cup inserted
    BY DEF Changes
  <1>2. \A x \in flips :
          /\ x \in Rows /\ x.view = view /\ x.msg \in batch
          /\ x.visible <=> x.rules = daemon.config.rules /\ x.msg \in members
          /\ HasRow(x)
    <2> SUFFICES ASSUME NEW x \in flips
                 PROVE  /\ x \in Rows /\ x.view = view /\ x.msg \in batch
                        /\ x.visible <=> x.rules = daemon.config.rules /\ x.msg \in members
                        /\ HasRow(x)
      OBVIOUS
    <2>1. x \in {[r EXCEPT !.visible = ~@] : r \in Flipped(view, batch, members)}
      OBVIOUS
    <2> QED
      BY <2>1, FlippedRows DEF HasRow
  <1>3. \A x, y \in flips : SameMembership(x, y) => x = y
    <2> SUFFICES ASSUME NEW x \in flips, NEW y \in flips, SameMembership(x, y)
                 PROVE  x = y
      OBVIOUS
    <2>1. PICK r \in catalog.rows : SameMembership(r, x) /\ r.uid = x.uid
      BY <1>2 DEF HasRow
    <2>2. PICK s \in catalog.rows : SameMembership(s, y) /\ s.uid = y.uid
      BY <1>2 DEF HasRow
    <2>3. r = s
      BY <2>1, <2>2 DEF RowsUnique, SameMembership
    <2>4. /\ x.view = y.view /\ x.msg = y.msg /\ x.rules = y.rules /\ x.uid = y.uid
      BY <2>1, <2>2, <2>3 DEF SameMembership
    <2>5. x.visible <=> y.visible
      BY <1>2, <2>4
    <2>6. x \in Rows /\ y \in Rows
      BY <1>2
    <2> QED
      BY <2>4, <2>5, <2>6 DEF Rows
  <1>4. \A x \in inserted :
          /\ x \in Rows /\ x.view = view /\ x.msg \in batch \cap members
          /\ x.visible /\ x.rules = daemon.config.rules /\ catalog.uidnext[view] <= x.uid
          /\ \A r \in catalog.rows : ~SameMembership(r, x)
    <2> SUFFICES ASSUME NEW x \in inserted
                 PROVE  /\ x \in Rows /\ x.view = view /\ x.msg \in batch \cap members
                        /\ x.visible /\ x.rules = daemon.config.rules /\ catalog.uidnext[view] <= x.uid
                        /\ \A r \in catalog.rows : ~SameMembership(r, x)
      OBVIOUS
    <2>1. x \in Inserted(view, batch, members)
      OBVIOUS
    <2> QED
      BY <2>1, InsertedRows
  <1>5. \A x, y \in inserted : x.msg = y.msg \/ x.uid = y.uid => x = y
    BY InsertedRows
  <1>6. \A x \in flips, y \in inserted : ~SameMembership(x, y) /\ ~SameMembership(y, x)
    <2> SUFFICES ASSUME NEW x \in flips, NEW y \in inserted, SameMembership(x, y) \/ SameMembership(y, x)
                 PROVE  FALSE
      OBVIOUS
    <2>1. PICK r \in catalog.rows : SameMembership(r, x)
      BY <1>2 DEF HasRow
    <2>2. SameMembership(r, y)
      BY <2>1 DEF SameMembership
    <2> QED
      BY <1>4, <2>2
  <1>7. IsFiniteSet(flips)
    <2> DEFINE f == [r \in flipped |-> [r EXCEPT !.visible = ~@]]
    <2>1. flipped \in SUBSET catalog.rows
      BY DEF Flipped
    <2>2. IsFiniteSet(flipped)
      BY <2>1, FS_Subset DEF Typed
    <2>3. flips = {f[r] : r \in flipped} /\ DOMAIN f = flipped
      OBVIOUS
    <2> HIDE DEF f, flips, flipped
    <2> QED
      BY <2>2, <2>3, ImageFinite
  <1>8. IsFiniteSet(inserted)
    <2> DEFINE g == [m \in Entering(view, batch, members) |->
                       Row(view, m, daemon.config.rules, catalog.uidnext[view]
                           + Cardinality({n \in Entering(view, batch, members) : Precedes(n, m)}), TRUE)]
    <2>1. Entering(view, batch, members) \in SUBSET Messages
      BY DEF Entering
    <2>2. IsFiniteSet(Entering(view, batch, members))
      BY <2>1, FS_Subset, ViewsAssumption
    <2>3. inserted = {g[m] : m \in Entering(view, batch, members)} /\ DOMAIN g = Entering(view, batch, members)
      BY DEF Inserted
    <2> HIDE DEF g, inserted
    <2> QED
      BY <2>2, <2>3, ImageFinite
  <1> HIDE DEF flips, inserted
  <1>9. IsFiniteSet(changes)
    BY <1>1, <1>7, <1>8, FS_Union
  <1>10. \A x \in changes :
           /\ x \in Rows /\ x.view = view /\ x.msg \in batch
           /\ x.visible <=> x.rules = daemon.config.rules /\ x.msg \in members
           /\ HasRow(x) \/ catalog.uidnext[view] <= x.uid
    BY <1>1, <1>2, <1>4
  <1>11. \A x, y \in changes : SameMembership(x, y) => x = y
    <2>1. \A x, y \in inserted : SameMembership(x, y) => x = y
      BY <1>5 DEF SameMembership
    <2> QED
      BY <1>1, <1>3, <1>6, <2>1
  <1>12. \A x, y \in changes : x.uid = y.uid => x = y \/ HasRow(x) \/ HasRow(y)
    BY <1>1, <1>2, <1>5
  <1> QED
    BY <1>9, <1>10, <1>11, <1>12

Committed(changes) == {r \in catalog.rows : \A x \in changes : ~SameMembership(r, x)} \cup changes

(* The rows once they are committed: those of the batch are as evaluated,  *)
(* the others are what they were.                                          *)
LEMMA CommittedRows ==
  ASSUME Typed, RowsUnique, daemon.config \in Configs, NEW view \in Views, NEW batch \in SUBSET Messages,
         NEW members, NEW changes, changes = Changes(view, batch, members), Placed(batch)
  PROVE  /\ Committed(changes) \subseteq Rows /\ IsFiniteSet(Committed(changes))
         /\ \A r, s \in Committed(changes) : SameMembership(r, s) => r = s
         /\ \A r : ~(r.view = view /\ r.msg \in batch) => (r \in Committed(changes) <=> r \in catalog.rows)
         /\ \A r \in Committed(changes) : r.view = view /\ r.msg \in batch =>
              (r.visible <=> r.rules = daemon.config.rules /\ r.msg \in members)
         /\ \A m \in batch \cap members : \E r \in Committed(changes) :
              r.view = view /\ r.msg = m /\ r.rules = daemon.config.rules
  <1> DEFINE kept == {r \in catalog.rows : \A x \in changes : ~SameMembership(r, x)}
  <1>1. /\ changes \subseteq Rows /\ IsFiniteSet(changes)
        /\ \A x \in changes : /\ x.view = view /\ x.msg \in batch
                              /\ x.visible <=> x.rules = daemon.config.rules /\ x.msg \in members
        /\ \A x, y \in changes : SameMembership(x, y) => x = y
    BY ChangesShape
  <1>2. Committed(changes) = kept \cup changes /\ kept \in SUBSET catalog.rows
    BY DEF Committed
  <1>3. catalog.rows \subseteq Rows /\ IsFiniteSet(catalog.rows)
    BY DEF Typed, Catalogs
  <1>4. Committed(changes) \subseteq Rows
    BY <1>1, <1>2, <1>3
  <1>5. IsFiniteSet(Committed(changes))
    <2> HIDE DEF kept
    <2>1. IsFiniteSet(kept)
      BY <1>2, <1>3, FS_Subset
    <2>2. IsFiniteSet(changes)
      BY <1>1
    <2>3. IsFiniteSet(kept \cup changes)
      BY <2>1, <2>2, FS_Union
    <2> QED
      BY <1>2, <2>3
  <1>6. \A r, s \in Committed(changes) : SameMembership(r, s) => r = s
    <2>0. \A r, x : SameMembership(r, x) => SameMembership(x, r)
      BY DEF SameMembership
    <2>1. \A r \in kept, x \in changes : ~SameMembership(r, x) /\ ~SameMembership(x, r)
      BY <2>0
    <2>2. \A r, s \in kept : SameMembership(r, s) => r = s
      BY DEF RowsUnique
    <2> HIDE DEF kept
    <2> QED
      BY <1>1, <1>2, <2>1, <2>2
  <1>7. \A r : ~(r.view = view /\ r.msg \in batch) => (r \in Committed(changes) <=> r \in catalog.rows)
    <2> SUFFICES ASSUME NEW r, ~(r.view = view /\ r.msg \in batch)
                 PROVE  r \in Committed(changes) <=> r \in catalog.rows
      OBVIOUS
    <2>1. r \notin changes /\ \A x \in changes : ~SameMembership(r, x)
      BY <1>1 DEF SameMembership
    <2> QED
      BY <1>2, <2>1
  <1>8. ASSUME NEW r \in kept, r.view = view, r.msg \in batch
        PROVE  r.visible <=> r.rules = daemon.config.rules /\ r.msg \in members
    <2>1. r \notin Flipped(view, batch, members)
      <3> SUFFICES ASSUME r \in Flipped(view, batch, members) PROVE FALSE
        OBVIOUS
      <3>1. r \in Rows
        BY <1>3
      <3> DEFINE x == [r EXCEPT !.visible = ~@]
      <3>2. x \in changes
        BY DEF Changes
      <3>3. SameMembership(r, x)
        BY <3>1 DEF Rows, SameMembership
      <3> HIDE DEF x
      <3> QED
        BY <3>2, <3>3
    <2>2. r \in Rows
      BY <1>3
    <2> QED
      BY <1>8, <2>1, <2>2 DEF Flipped, Rows
  <1>9. ASSUME NEW m \in batch \cap members
        PROVE  \E r \in Committed(changes) : r.view = view /\ r.msg = m /\ r.rules = daemon.config.rules
    <2>1. CASE m \in Entering(view, batch, members)
      <3>1. PICK x \in changes : x.view = view /\ x.msg = m /\ x.rules = daemon.config.rules
        <4> DEFINE x0 == Row(view, m, daemon.config.rules,
                             catalog.uidnext[view]
                             + Cardinality({n \in Entering(view, batch, members) : Precedes(n, m)}), TRUE)
        <4>0. x0 \in Inserted(view, batch, members) /\ x0.msg = m
          BY <2>1 DEF Inserted, Row
        <4> HIDE DEF x0
        <4>1. PICK x \in Inserted(view, batch, members) : x.msg = m
          BY <4>0
        <4>2. x.view = view /\ x.rules = daemon.config.rules
          BY InsertedRows
        <4> QED
          BY <4>1, <4>2 DEF Changes
      <3> QED
        BY <1>2, <3>1
    <2>2. CASE m \notin Entering(view, batch, members)
      <3>1. PICK r \in catalog.rows : r.view = view /\ r.msg = m /\ r.rules = daemon.config.rules
        BY <2>2 DEF Entering, RowsOf
      <3>2. CASE r \in kept
        BY <1>2, <3>1, <3>2
      <3>3. CASE r \notin kept
        <4>1. PICK x \in changes : SameMembership(r, x)
          BY <3>3
        <4> QED
          BY <1>2, <3>1, <4>1 DEF SameMembership
      <3> QED
        BY <3>2, <3>3
    <2> QED
      BY <2>1, <2>2
  <1>10. \A r \in Committed(changes) : r.view = view /\ r.msg \in batch =>
           (r.visible <=> r.rules = daemon.config.rules /\ r.msg \in members)
    BY <1>1, <1>2, <1>8
  <1> QED
    BY <1>4, <1>5, <1>6, <1>7, <1>9, <1>10

-----------------------------------------------------------------------------
(* What a step that changes no fact leaves alone                           *)

FactsSame == /\ catalog'.facts = catalog.facts /\ catalog'.expunged = catalog.expunged
             /\ catalog'.applied = catalog.applied

(* The truth and what is due, ...                                          *)
LEMMA SameTruth ==
  ASSUME FactsSame
  PROVE  /\ Latest' = Latest
         /\ \A config, view : Truth(config, view)' = Truth(config, view)
         /\ \A view, since, full : Reach(view, since, full)' = Reach(view, since, full)
         /\ \A view, since, full : Due(view, since, full)' = Due(view, since, full)
  <1>1. Latest' = Latest
    BY DEF Latest, FactsSame
  <1>2. ActiveFacts' = ActiveFacts /\ Ordinary' = Ordinary
    BY DEF ActiveFacts, Ordinary, DeliveredMessages, FactsSame
  <1>3. \A since : Changed(since)' = Changed(since)
    BY DEF Changed, DeliveredMessages, FactsSame
  <1>4. \A since, full : ThreadLinks(since, full)' = ThreadLinks(since, full)
    BY DEF ThreadLinks, FactsSame
  <1>5. ASSUME NEW config, NEW view PROVE Truth(config, view)' = Truth(config, view)
    <2>1. Truth(config, view)' = Derived(config.rules, view, ActiveFacts') \cap Ordinary'
      BY DEF Truth
    <2> QED
      BY <1>2, <2>1 DEF Truth
  <1>6. ASSUME NEW view, NEW since, NEW full PROVE Reach(view, since, full)' = Reach(view, since, full)
    <2>1. Reach(view, since, full)' = Near(view, ThreadLinks(since, full)')
      BY DEF Reach
    <2> QED
      BY <1>4, <2>1 DEF Reach
  <1>7. ASSUME NEW view, NEW since, NEW full PROVE Due(view, since, full)' = Due(view, since, full)
    BY <1>3, <1>6 DEF Due
  <1> QED
    BY <1>1, <1>5, <1>6, <1>7

(* ... and with the rows, what is shown rightly.                           *)
LEMMA SameShown ==
  ASSUME FactsSame, catalog'.rows = catalog.rows
  PROVE  /\ \A config, view, m : RightAt(config, view, m)' <=> RightAt(config, view, m)
         /\ \A config, view, since, full : Shown(config, view, since, full)' <=> Shown(config, view, since, full)
  <1>1. ASSUME NEW config, NEW view, NEW m PROVE RightAt(config, view, m)' <=> RightAt(config, view, m)
    <2>1. RowsOf(view, m)' = RowsOf(view, m)
      BY DEF RowsOf
    <2>2. Truth(config, view)' = Truth(config, view)
      BY SameTruth
    <2> QED
      BY <2>1, <2>2 DEF RightAt
  <1>2. ASSUME NEW config, NEW view, NEW since, NEW full
        PROVE  Shown(config, view, since, full)' <=> Shown(config, view, since, full)
    <2>1. Due(view, since, full)' = Due(view, since, full)
      BY SameTruth
    <2> QED
      BY <1>1, <2>1 DEF Shown
  <1> QED
    BY <1>1, <1>2

(* A daemon that is where it was shows what it showed.                     *)
LEMMA SameWork ==
  ASSUME ShownInv, FactsSame, catalog'.rows = catalog.rows, catalog'.refreshed = catalog.refreshed,
         daemon'.pc = daemon.pc, daemon'.config = daemon.config, daemon'.scope = daemon.scope,
         daemon'.since = daemon.since, daemon'.full = daemon.full, daemon'.todo = daemon.todo,
         history'.reverted = history.reverted
  PROVE  ShownInv'
  <1>1. /\ \A config, view, since, full : Shown(config, view, since, full)' <=> Shown(config, view, since, full)
        /\ \A config, view, m : RightAt(config, view, m)' <=> RightAt(config, view, m)
    BY SameShown
  <1>2. Todo' = Todo /\ (Working' <=> Working)
    BY DEF Todo, Working
  <1>3. \A config, scope, since, full : AtWork(config, scope, since, full)' <=> AtWork(config, scope, since, full)
    BY DEF AtWork
  <1>4. \A config, scope, since, full : Within(config, scope, since, full)' <=> Within(config, scope, since, full)
    BY <1>1, <1>2 DEF Within
  <1> QED
    BY <1>1, <1>2, <1>3, <1>4 DEF ShownInv

(* One more record.                                                        *)
LEMMA Appended ==
  ASSUME journal \in Seq(Records), NEW r \in Records, journal' = Append(journal, r)
  PROVE  /\ journal' \in Seq(Records) /\ journal' # << >>
         /\ Len(journal) \in Nat /\ Len(journal') = Len(journal) + 1
         /\ DOMAIN journal = 1 .. Len(journal) /\ DOMAIN journal' = 1 .. Len(journal) + 1
         /\ \A i \in 1 .. Len(journal) : journal'[i] = journal[i]
         /\ journal'[Len(journal) + 1] = r
  <1>1. /\ journal' \in Seq(Records) /\ journal' # << >> /\ Len(journal') = Len(journal) + 1
        /\ \A i \in 1 .. Len(journal) : journal'[i] = journal[i]
        /\ journal'[Len(journal) + 1] = r
    BY AppendProperties
  <1>2. Len(journal) \in Nat /\ DOMAIN journal = 1 .. Len(journal)
    BY LenProperties
  <1>3. DOMAIN journal' = 1 .. Len(journal')
    BY <1>1, LenProperties
  <1> QED
    BY <1>1, <1>2, <1>3

(* What the journal says of facts and expunges, up to where it is applied. *)
LEMMA SameFactsInv ==
  ASSUME Typed, FactsInv, FactsSame, catalog.applied <= Len(journal),
         journal' = journal \/ \E r \in Records : journal' = Append(journal, r)
  PROVE  FactsInv'
  <1>1. /\ journal \in Seq(Records) /\ catalog.applied \in Nat /\ Len(journal) \in Nat
        /\ DOMAIN journal = 1 .. Len(journal)
    BY DEF Typed, Catalogs
  <1>2. \A i \in 1 .. catalog.applied : i \in DOMAIN journal /\ i \in DOMAIN journal' /\ journal'[i] = journal[i]
    <2>1. CASE journal' = journal
      BY <1>1, <2>1
    <2>2. ASSUME NEW r \in Records, journal' = Append(journal, r)
          PROVE  \A i \in 1 .. catalog.applied :
                   i \in DOMAIN journal /\ i \in DOMAIN journal' /\ journal'[i] = journal[i]
      <3>1. /\ DOMAIN journal' = 1 .. Len(journal) + 1
            /\ \A i \in 1 .. Len(journal) : journal'[i] = journal[i]
        BY <1>1, <2>2, Appended
      <3>2. \A i \in 1 .. catalog.applied : i \in 1 .. Len(journal) /\ i \in 1 .. Len(journal) + 1
        BY <1>1
      <3> QED
        BY <1>1, <3>1, <3>2
    <2> QED
      BY <2>1, <2>2
  <1>3. \A f, i : i \in 1 .. catalog.applied => (i \in About(f)' <=> i \in About(f))
    BY <1>2 DEF About
  <1>4. \A f : LastSays(f, catalog.applied)' <=> LastSays(f, catalog.applied)
    BY <1>2, <1>3 DEF LastSays, FactsSame
  <1> QED
    BY <1>2, <1>4 DEF FactsInv, FactsSame

-----------------------------------------------------------------------------
(* Components and batches                                                  *)

(* The components of a refresh are whole classes of its reach, each        *)
(* message in one, and hold all that is due.                               *)
LEMMA ComponentsAreWhole ==
  ASSUME NEW view \in Views, NEW since, NEW full, daemon.since = since, daemon.full = full
  PROVE  /\ Components(view) \in SUBSET (Messages \X Messages)
         /\ \A p, q \in Components(view) : p[2] = q[2] => p = q
         /\ \A p \in Components(view), n \in Messages :
              <<p[2], n>> \in Reach(view, since, full) => <<p[1], n>> \in Components(view)
         /\ Due(view, since, full) \subseteq {p[2] : p \in Components(view)}
  <1> DEFINE reach == Reach(view, since, full)
             from == IF view = "account" THEN Messages ELSE Changed(since)
             seeds == [m \in Messages |-> {s \in from : <<s, m>> \in reach}]
             seeded == {x \in DeliveredMessages : seeds[x] # {}}
  <1>1. reach = IF view = "thread" THEN Threads(Linked(ThreadLinks(since, full))) ELSE Near(view, {})
    BY ViewsAssumption DEF Reach, Near
  <1>2. Components(view) = {<<Min(seeds[m]), m>> : m \in seeded}
    BY <1>1 DEF Components
  <1>3. /\ \A m \in Messages : <<m, m>> \in reach
        /\ \A m, n \in Messages : <<m, n>> \in reach => <<n, m>> \in reach
        /\ \A m, n, k \in Messages : <<m, n>> \in reach /\ <<n, k>> \in reach => <<m, k>> \in reach
    BY NearEquivalence DEF Reach
  <1>4. from \subseteq Messages /\ DeliveredMessages \in {{}, Messages} /\ seeded \subseteq Messages
    BY DEF Changed, DeliveredMessages
  <1> HIDE DEF reach
  <1>5. \A m \in seeded : Min(seeds[m]) \in Messages
    <2> SUFFICES ASSUME NEW m \in seeded PROVE Min(seeds[m]) \in Messages
      OBVIOUS
    <2>1. seeds[m] \subseteq Messages /\ seeds[m] # {}
      BY <1>4
    <2> HIDE DEF seeds
    <2>2. Min(seeds[m]) \in seeds[m]
      BY <2>1, NatMin, ViewsAssumption
    <2> QED
      BY <2>1, <2>2
  <1>6. \A m \in seeded, n \in Messages : <<m, n>> \in reach => seeds[n] = seeds[m] /\ n \in seeded
    <2> SUFFICES ASSUME NEW m \in seeded, NEW n \in Messages, <<m, n>> \in reach
                 PROVE  seeds[n] = seeds[m] /\ n \in seeded
      OBVIOUS
    <2>1. m \in Messages /\ <<n, m>> \in reach
      BY <1>3, <1>4
    <2>2. \A s \in from : <<s, n>> \in reach <=> <<s, m>> \in reach
      BY <1>3, <1>4, <2>1
    <2>3. seeds[n] = seeds[m]
      BY <2>1, <2>2
    <2>4. n \in DeliveredMessages
      BY <1>4
    <2> QED
      BY <2>3, <2>4
  <1>7. Due(view, since, full) \subseteq seeded
    <2> SUFFICES ASSUME NEW m \in Due(view, since, full) PROVE m \in seeded
      OBVIOUS
    <2>1. m \in Messages
      BY DEF Due
    <2>2. PICK s \in Changed(since) : <<s, m>> \in reach
      BY DEF Due, reach
    <2>3. s \in from /\ s \in DeliveredMessages
      BY DEF Changed, DeliveredMessages
    <2> QED
      BY <1>4, <2>1, <2>2, <2>3
  <1> HIDE DEF seeds, seeded, from
  <1>8. Components(view) \in SUBSET (Messages \X Messages)
    BY <1>2, <1>4, <1>5
  <1>9. \A p \in Components(view) : p[2] \in seeded /\ p = <<Min(seeds[p[2]]), p[2]>>
    BY <1>2
  <1>10. \A m \in seeded : <<Min(seeds[m]), m>> \in Components(view)
    BY <1>2
  <1>11. \A p, q \in Components(view) : p[2] = q[2] => p = q
    BY <1>9
  <1>12. \A p \in Components(view), n \in Messages : <<p[2], n>> \in reach => <<p[1], n>> \in Components(view)
    <2> SUFFICES ASSUME NEW p \in Components(view), NEW n \in Messages, <<p[2], n>> \in reach
                 PROVE  <<p[1], n>> \in Components(view)
      OBVIOUS
    <2>1. p[2] \in seeded /\ p[1] = Min(seeds[p[2]])
      BY <1>9
    <2>2. seeds[n] = seeds[p[2]] /\ n \in seeded
      BY <1>6, <2>1
    <2> QED
      BY <1>10, <2>1, <2>2
  <1>13. Due(view, since, full) \subseteq {p[2] : p \in Components(view)}
    <2> SUFFICES ASSUME NEW m \in seeded PROVE m \in {p[2] : p \in Components(view)}
      BY <1>7
    <2>1. <<Min(seeds[m]), m>>[2] = m
      OBVIOUS
    <2> QED
      BY <1>10, <2>1
  <1> QED
    BY <1>8, <1>11, <1>12, <1>13 DEF reach

(* A batch of whole components is evaluated as if over everything.         *)
LEMMA BatchIsRight ==
  ASSUME Typed, NEW view \in Views, NEW since, NEW full, NEW c,
         \A p \in daemon.todo, n \in Messages :
           <<p[2], n>> \in Reach(view, since, full) => <<p[1], n>> \in daemon.todo
  PROVE  /\ BatchThrough(c) \in SUBSET Messages
         /\ \A m \in BatchThrough(c) :
              m \in BatchMembers(view, BatchThrough(c)) <=> m \in Truth(daemon.config, view)
  <1> DEFINE batch == BatchThrough(c)  given == GivenFacts(batch)  active == ActiveFacts
  <1>1. daemon.todo \subseteq Messages \X Messages
    BY DEF Typed, Daemons
  <1>2. batch \in SUBSET Messages
    BY <1>1 DEF BatchThrough
  <1>3. given \in SUBSET active /\ \A x \in batch : \A k : <<x, k>> \in given <=> <<x, k>> \in active
    BY DEF GivenFacts
  <1>4. \A x \in batch, y \in Messages : <<x, y>> \in Reach(view, since, full) => y \in batch
    <2> SUFFICES ASSUME NEW x \in batch, NEW y \in Messages, <<x, y>> \in Reach(view, since, full)
                 PROVE  y \in batch
      OBVIOUS
    <2>1. PICK p \in daemon.todo : p[1] <= c /\ p[2] = x
      BY DEF BatchThrough
    <2>2. <<p[1], y>> \in daemon.todo
      BY <2>1
    <2> QED
      BY <2>1, <2>2 DEF BatchThrough
  <1>5. /\ \A x \in batch, y \in Messages : <<x, y>> \in Near(view, given) => y \in batch
        /\ \A x \in batch, y \in Messages : <<x, y>> \in Near(view, active) => y \in batch
    BY <1>2, <1>3, <1>4, NearInReach
  <1> HIDE DEF batch, given, active
  <1>6. \A m \in batch : m \in Derived(daemon.config.rules, view, given)
                         <=> m \in Derived(daemon.config.rules, view, active)
    BY <1>2, <1>3, <1>5, DerivedIsLocal
  <1>7. BatchMembers(view, batch) = Derived(daemon.config.rules, view, given) \cap Ordinary
    BY DEF BatchMembers, given
  <1>8. Truth(daemon.config, view) = Derived(daemon.config.rules, view, active) \cap Ordinary
    BY DEF Truth, active
  <1> QED
    BY <1>2, <1>6, <1>7, <1>8 DEF batch

-----------------------------------------------------------------------------
(* Steps outside a refresh                                                 *)

(* The first state: one record, and nothing made of it.                    *)
LEMMA InitIInv == Init => IInv
  <1> SUFFICES ASSUME Init PROVE IInv
    OBVIOUS
  <1>1. PICK facts \in Extracted : journal = <<Delivered(facts)>>
    BY DEF Init
  <1>2. Delivered(facts) \in Records
    BY ViewsAssumption DEF Delivered, Records
  <1>3. /\ journal \in Seq(Records) /\ Len(journal) = 1 /\ journal[1] = Delivered(facts)
        /\ DOMAIN journal = 1 .. 1 /\ journal # << >>
    BY <1>1, <1>2
  <1>4. \A i \in DOMAIN journal : ~IsView(i)
    BY <1>3 DEF IsView, Delivered
  <1>5. /\ catalog \in Catalogs /\ catalog.rows = {} /\ catalog.applied = 0 /\ catalog.refreshed = None
        /\ \A f \in Facts : ~catalog.facts[f].active /\ catalog.facts[f].sequence = 0
        /\ \A m \in Messages : catalog.expunged[m] = 0
    BY DEF Init, Empty, Catalogs, NoFact, Names
  <1>6. daemon \in Daemons /\ daemon.pc = "down" /\ daemon.pending = << >>
    <2>1. << >> \in Seq(ViewRecords)
      OBVIOUS
    <2> QED
      BY <2>1 DEF Init, Down, Daemons, Pcs
  <1>7. /\ history \in Histories /\ history.named = {} /\ ~history.lost
        /\ bound \in [changes : Nat, upsets : Nat]
    BY DEF Init, Histories
  <1>8. Typed
    BY <1>3, <1>5, <1>6, <1>7, FS_EmptySet DEF Typed
  <1>9. PassInv
    BY <1>3, <1>5, <1>6 DEF PassInv, Working
  <1>10. UidInv
    BY <1>4, <1>5, <1>6, <1>7
       DEF UidInv, RowsNamed, NamedRecorded, AppliedPast, NamedPast, Seen, UidsNameOneMessage, Working
  <1>11. FactsInv
    BY <1>5 DEF FactsInv, LastSays
  <1>12. TodoInv /\ RowsInv
    BY <1>5, <1>6 DEF TodoInv, RowsInv, Working
  <1>13. ShownInv
    BY <1>5, <1>6 DEF ShownInv, Working
  <1> QED
    BY <1>8, <1>9, <1>10, <1>11, <1>12, <1>13 DEF IInv

(* A step that leaves journal and catalog alone and the daemon outside a   *)
(* refresh: records it does not append any more are counted as lost.       *)
LEMMA IdleKeeps ==
  ASSUME IInv, catalog' = catalog, journal' = journal, ~Working', daemon'.pending = << >>,
         history'.named = history.named, history'.reverted = history.reverted,
         history'.lost <=> history.lost \/ daemon.pending # << >>
  PROVE  UidInv' /\ FactsInv' /\ TodoInv' /\ RowsInv' /\ ShownInv'
  <1> USE DEF IInv
  <1>1. FactsSame
    BY DEF FactsSame
  <1>2. DOMAIN daemon'.pending = {}
    OBVIOUS
  <1>3. \A i : IsView(i)' <=> IsView(i)
    BY DEF IsView
  <1>4. UidInv'
    <2>1. RowsNamed'
      BY <1>2, <1>3 DEF UidInv, RowsNamed, SeenAs, Seen
    <2>2. NamedRecorded'
      <3>1. daemon.pending = << >> => DOMAIN daemon.pending = {}
        OBVIOUS
      <3> QED
        BY <1>3, <3>1 DEF UidInv, NamedRecorded
    <2>3. AppliedPast'
      BY <1>3 DEF UidInv, AppliedPast
    <2>4. NamedPast' /\ UidsNameOneMessage'
      BY DEF UidInv, UidsNameOneMessage, NamedPast
    <2> QED
      BY <2>1, <2>2, <2>3, <2>4 DEF UidInv
  <1>5. FactsInv'
    BY <1>1, SameFactsInv DEF PassInv
  <1>6. TodoInv'
    BY DEF TodoInv, Working
  <1>7. RowsInv'
    <2>1. Unapplied' = Unapplied
      BY <1>3 DEF Unapplied
    <2> QED
      BY <1>2, <2>1 DEF RowsInv, SameMembership
  <1>8. ShownInv'
    <2>1. \A config, view, since, full : Shown(config, view, since, full)' <=> Shown(config, view, since, full)
      BY <1>1, SameShown
    <2> QED
      BY <2>1 DEF ShownInv
  <1> QED
    BY <1>4, <1>5, <1>6, <1>7, <1>8

(* A start, a pass that begins, a crash and a failed append.               *)
LEMMA StartStep ==
  ASSUME IInv, NEW config \in Configs, Start(config)
  PROVE  IInv'
  <1> USE DEF IInv
  <1>1. /\ daemon' = [Down EXCEPT !.pc = "idle", !.due = TRUE, !.config = config] /\ daemon.pc = "down"
        /\ journal' = journal /\ catalog' = catalog /\ bound' = bound /\ history' = history
    BY DEF Start
  <1>2. daemon' \in Daemons /\ daemon'.pc = "idle" /\ daemon'.pending = << >> /\ daemon'.config = config
    <2>1. << >> \in Seq(ViewRecords)
      OBVIOUS
    <2> QED
      BY <1>1, <2>1 DEF Down, Daemons, Pcs
  <1>3. daemon.pending = << >>
    BY <1>1 DEF PassInv
  <1>4. Typed'
    BY <1>1, <1>2 DEF Typed
  <1>5. PassInv'
    BY <1>1, <1>2 DEF PassInv, Working
  <1>6. ~Working'
    BY <1>2 DEF Working
  <1> QED
    BY <1>1, <1>2, <1>3, <1>4, <1>5, <1>6, IdleKeeps

LEMMA BeginPassStep ==
  ASSUME IInv, BeginPass
  PROVE  IInv'
  <1> USE DEF IInv
  <1>1. /\ daemon' = [daemon EXCEPT !.pc = "applying", !.due = FALSE, !.scan = Len(journal)]
        /\ daemon.pc \in {"idle", "held"}
        /\ journal' = journal /\ catalog' = catalog /\ bound' = bound /\ history' = history
    BY DEF BeginPass
  <1>2. /\ daemon \in Daemons /\ Len(journal) \in Nat \ {0} /\ DOMAIN journal = 1 .. Len(journal)
        /\ catalog.applied \in Nat
    BY EmptySeq, LenProperties DEF Typed, Catalogs
  <1>3. /\ daemon' \in Daemons /\ daemon'.pc = "applying" /\ daemon'.scan = Len(journal)
        /\ daemon'.pending = daemon.pending /\ daemon'.config = daemon.config
    BY <1>1, <1>2 DEF Daemons, Pcs
  <1>4. daemon.pending = << >>
    BY <1>1 DEF PassInv
  <1>5. Typed'
    BY <1>1, <1>3 DEF Typed
  <1>6. PassInv'
    BY <1>1, <1>2, <1>3, <1>4 DEF PassInv, Working, IsView
  <1>7. ~Working'
    BY <1>3 DEF Working
  <1> QED
    BY <1>1, <1>3, <1>4, <1>5, <1>6, <1>7, IdleKeeps

LEMMA CrashStep ==
  ASSUME IInv, Crash
  PROVE  IInv'
  <1> USE DEF IInv
  <1> DEFINE lost == history.lost \/ daemon.pending # << >>
  <1>1. /\ daemon' = Down /\ journal' = journal /\ catalog' = catalog
        /\ history' = [history EXCEPT !.lost = lost]
        /\ bound' = [bound EXCEPT !.upsets = @ + 1]
    BY DEF Crash, Upset, Forgotten
  <1>2. daemon' \in Daemons /\ daemon'.pc = "down" /\ daemon'.pending = << >>
    <2>1. << >> \in Seq(ViewRecords)
      OBVIOUS
    <2> QED
      BY <1>1, <2>1 DEF Down, Daemons, Pcs
  <1>3. lost \in BOOLEAN
    BY DEF Typed, Histories
  <1> HIDE DEF lost
  <1>4. /\ history' \in Histories /\ history'.named = history.named /\ history'.reverted = history.reverted
        /\ history'.lost = lost
    BY <1>1, <1>3 DEF Typed, Histories
  <1>5. history'.lost <=> history.lost \/ daemon.pending # << >>
    BY <1>4 DEF lost
  <1>6. Typed'
    BY <1>1, <1>2, <1>4 DEF Typed
  <1>7. PassInv'
    BY <1>1, <1>2 DEF PassInv, Working
  <1>8. ~Working'
    BY <1>2 DEF Working
  <1> QED
    BY <1>1, <1>2, <1>4, <1>5, <1>6, <1>7, <1>8, IdleKeeps

LEMMA AppendFailsStep ==
  ASSUME IInv, AppendFails
  PROVE  IInv'
  <1> USE DEF IInv
  <1> DEFINE lost == history.lost \/ daemon.pending # << >>
  <1>1. /\ daemon' = [daemon EXCEPT !.pc = "held", !.due = TRUE, !.pending = << >>] /\ journal' = journal /\ catalog' = catalog
        /\ history' = [history EXCEPT !.lost = lost]
        /\ bound' = [bound EXCEPT !.upsets = @ + 1] /\ daemon.pending # << >>
    BY DEF AppendFails, Upset, Forgotten
  <1>2. /\ daemon' \in Daemons /\ daemon'.pc = "held" /\ daemon'.pending = << >>
        /\ daemon'.config = daemon.config
    <2>1. << >> \in Seq(ViewRecords)
      OBVIOUS
    <2> QED
      BY <1>1, <2>1 DEF Typed, Daemons, Pcs
  <1>3. lost \in BOOLEAN
    BY DEF Typed, Histories
  <1> HIDE DEF lost
  <1>4. /\ history' \in Histories /\ history'.named = history.named /\ history'.reverted = history.reverted
        /\ history'.lost = lost
    BY <1>1, <1>3 DEF Typed, Histories
  <1>5. history'.lost <=> history.lost \/ daemon.pending # << >>
    BY <1>4 DEF lost
  <1>6. Typed'
    BY <1>1, <1>2, <1>4 DEF Typed
  <1>7. PassInv'
    BY <1>1, <1>2 DEF PassInv, Working
  <1>8. ~Working'
    BY <1>2 DEF Working
  <1> QED
    BY <1>1, <1>2, <1>4, <1>5, <1>6, <1>7, <1>8, IdleKeeps

(* A change by a client is a record of a fact or of an expunge.            *)
LEMMA ChangeRecord ==
  ASSUME Change
  PROVE  \E r \in Records : journal' = Append(journal, r) /\ r.kind # "view"
  <1>1. ASSUME NEW f \in Claimable, NEW kind \in {"insert", "retract"},
               journal' = Append(journal, [kind |-> kind, fact |-> f])
        PROVE  \E r \in Records : journal' = Append(journal, r) /\ r.kind # "view"
    <2>1. [kind |-> kind, fact |-> f] \in Records
      BY ViewsAssumption DEF Records
    <2> QED
      BY <1>1, <2>1
  <1>2. ASSUME NEW m \in Kept, journal' = Append(journal, [kind |-> "expunge", msg |-> m])
        PROVE  \E r \in Records : journal' = Append(journal, r) /\ r.kind # "view"
    <2>1. [kind |-> "expunge", msg |-> m] \in Records
      BY DEF Kept, Records
    <2> QED
      BY <1>2, <2>1
  <1> QED
    BY <1>1, <1>2 DEF Change

(* It asks for a pass, and leaves the one under way what it is.            *)
SameButDue ==
  /\ daemon' \in Daemons /\ daemon'.pc = daemon.pc /\ daemon'.config = daemon.config
  /\ daemon'.scan = daemon.scan /\ daemon'.scope = daemon.scope /\ daemon'.todo = daemon.todo
  /\ daemon'.full = daemon.full /\ daemon'.since = daemon.since
  /\ daemon'.latest = daemon.latest /\ daemon'.pending = daemon.pending

LEMMA ChangeAsks ==
  ASSUME Typed, Change
  PROVE  SameButDue
  BY DEF Change, Typed, Daemons, SameButDue

(* A change by a client is a record that no view is about.                 *)
LEMMA ChangeStep ==
  ASSUME IInv, Change
  PROVE  IInv'
  <1> USE DEF IInv, SameButDue
  <1>1. /\ catalog' = catalog /\ SameButDue /\ history' = history
        /\ bound' = [bound EXCEPT !.changes = @ + 1]
    BY ChangeAsks DEF Change, IInv, Typed
  <1>2. PICK r \in Records : journal' = Append(journal, r) /\ r.kind # "view"
    BY ChangeRecord
  <1>3. /\ journal' \in Seq(Records) /\ journal' # << >>
        /\ Len(journal) \in Nat /\ Len(journal') = Len(journal) + 1
        /\ DOMAIN journal = 1 .. Len(journal) /\ DOMAIN journal' = 1 .. Len(journal) + 1
        /\ \A i \in 1 .. Len(journal) : journal'[i] = journal[i]
        /\ journal'[Len(journal) + 1] = r
    BY <1>2, Appended DEF Typed
  <1>4. \A i \in DOMAIN journal' : IsView(i)' => i \in DOMAIN journal /\ IsView(i) /\ journal'[i] = journal[i]
    BY <1>2, <1>3 DEF IsView
  <1>5. \A i \in DOMAIN journal : i \in DOMAIN journal' /\ journal'[i] = journal[i] /\ (IsView(i)' <=> IsView(i))
    BY <1>3 DEF IsView
  <1>6. FactsSame /\ catalog.applied \in Nat /\ catalog.applied <= Len(journal)
    BY <1>1 DEF FactsSame, PassInv, Typed, Catalogs
  <1>7. Typed'
    BY <1>1, <1>3 DEF Typed
  <1>8. PassInv'
    <2>1. Latest' = Latest
      BY <1>6, SameTruth
    <2>2. daemon.pc = "applying" => daemon.scan \in 1 .. Len(journal) + 1
      BY <1>3 DEF PassInv
    <2> QED
      BY <1>1, <1>3, <1>4, <1>6, <2>1, <2>2 DEF PassInv, Working
  <1>9. UidInv'
    <2>1. RowsNamed'
      <3>1. \A i \in DOMAIN journal' : IsView(i)' => SeenAs(journal'[i].row) \in history.named
        BY <1>4 DEF UidInv, RowsNamed
      <3> QED
        BY <1>1, <3>1 DEF UidInv, RowsNamed, Seen, SeenAs
    <2>2. NamedRecorded'
      <3>1. \A t : (\E i \in DOMAIN journal : IsView(i) /\ t = SeenAs(journal[i].row)) =>
                   \E i \in DOMAIN journal' : IsView(i)' /\ t = SeenAs(journal'[i].row)
        BY <1>5
      <3> QED
        BY <1>1, <3>1 DEF UidInv, NamedRecorded, SeenAs
    <2>3. AppliedPast'
      <3>1. \A i \in 1 .. catalog.applied : i \in DOMAIN journal
        BY <1>3, <1>6
      <3> QED
        BY <1>1, <1>5, <3>1 DEF UidInv, AppliedPast
    <2>4. NamedPast' /\ UidsNameOneMessage'
      BY <1>1 DEF UidInv, UidsNameOneMessage, NamedPast, Working
    <2> QED
      BY <2>1, <2>2, <2>3, <2>4 DEF UidInv
  <1>10. FactsInv'
    BY <1>2, <1>6, SameFactsInv
  <1>11. TodoInv'
    <2>1. \A view, since, full : Reach(view, since, full)' = Reach(view, since, full)
      BY <1>6, SameTruth
    <2> QED
      BY <1>1, <2>1 DEF TodoInv, AtWork
  <1>12. RowsInv'
    <2>1. \A i \in Unapplied' : i \in Unapplied /\ journal'[i] = journal[i]
      BY <1>1, <1>4 DEF Unapplied
    <2> QED
      BY <1>1, <2>1 DEF RowsInv, SameMembership, Working, Behind, Todo
  <1>13. ShownInv'
    BY <1>1, <1>6, SameWork
  <1> QED
    BY <1>7, <1>8, <1>9, <1>10, <1>11, <1>12, <1>13

-----------------------------------------------------------------------------
(* Steps of a refresh                                                      *)

(* A refresh begins with everything applied: the named UIDs are past, and  *)
(* what was not due before is right, under the rules that are known.       *)
LEMMA BeginRefreshStep ==
  ASSUME IInv, BeginRefresh
  PROVE  IInv'
  <1> USE DEF IInv
  <1> DEFINE known == catalog.refreshed # None /\ catalog.refreshed.config = daemon.config
             full == ~known
             since == IF known THEN catalog.refreshed.sequence ELSE 0
             pc == IF Current THEN "idle" ELSE "naming"
  <1>1. /\ daemon' = [daemon EXCEPT !.pc = pc, !.full = full, !.since = since, !.latest = Latest, !.scope = 1]
        /\ daemon.pc = "applying" /\ catalog.applied = daemon.scan
        /\ journal' = journal /\ catalog' = catalog /\ bound' = bound /\ history' = history
    BY DEF BeginRefresh, Refreshing
  <1>2. /\ daemon \in Daemons /\ catalog.applied \in 1 .. Len(journal) /\ Len(journal) \in Nat
        /\ DOMAIN journal = 1 .. Len(journal)
    BY <1>1, LenProperties DEF Typed, PassInv
  <1>3. Latest \in Nat
    BY LatestIsLast DEF Typed, Catalogs
  <1>4. pc \in {"idle", "naming"} /\ full \in BOOLEAN /\ since \in Nat
    BY DEF Typed, Catalogs
  <1>5. full <=> ~known
    OBVIOUS
  <1>6. known => since = catalog.refreshed.sequence
    OBVIOUS
  <1>7. full => since = 0
    OBVIOUS
  <1> HIDE DEF pc, full, since
  <1>8. /\ daemon' \in Daemons /\ daemon'.pc = pc /\ daemon'.full = full /\ daemon'.since = since
        /\ daemon'.latest = Latest /\ daemon'.scope = 1
        /\ daemon'.pending = daemon.pending /\ daemon'.config = daemon.config
    BY <1>1, <1>2, <1>3, <1>4 DEF Daemons, Pcs
  <1>9. daemon.pending = << >> /\ daemon.config \in Configs
    BY <1>1 DEF PassInv
  <1>10. FactsSame
    BY <1>1 DEF FactsSame
  <1>11. Typed'
    BY <1>1, <1>8 DEF Typed
  <1>12. PassInv'
    <2>1. Latest' = Latest
      BY <1>10, SameTruth
    <2>2. 1 \in DOMAIN daemon.config.scopes
      <3>1. daemon.config.scopes \in Seq(Views) /\ daemon.config.scopes # << >>
        BY <1>9, ViewsAssumption
      <3> QED
        BY <3>1, EmptySeq, LenProperties
    <2>3. IF known THEN ~full /\ since = catalog.refreshed.sequence ELSE full /\ since = 0
      BY <1>5, <1>6, <1>7
    <2> QED
      BY <1>1, <1>2, <1>4, <1>8, <1>9, <2>1, <2>2, <2>3 DEF PassInv, Working
  <1>13. CASE pc = "idle"
    <2>1. ~Working'
      BY <1>8, <1>13 DEF Working
    <2> QED
      BY <1>1, <1>8, <1>9, <1>11, <1>12, <2>1, IdleKeeps
  <1>14. CASE pc = "naming"
    <2>1. \A i \in DOMAIN journal : IsView(i) => i \in 1 .. catalog.applied
      BY <1>1, <1>2 DEF PassInv
    <2>2. DOMAIN daemon.pending = {} /\ DOMAIN daemon'.pending = {}
      BY <1>8, <1>9
    <2>3. \A i : IsView(i)' <=> IsView(i)
      BY <1>1 DEF IsView
    <2>4. UidInv'
      <3>1. RowsNamed'
        BY <1>1, <2>2, <2>3 DEF UidInv, RowsNamed, SeenAs, Seen
      <3>2. NamedRecorded'
        BY <1>1, <2>2, <2>3 DEF UidInv, NamedRecorded, SeenAs
      <3>3. AppliedPast'
        BY <1>1, <2>3 DEF UidInv, AppliedPast
      <3>4. NamedPast'
        <4> SUFFICES ASSUME ~history.lost, NEW t \in history.named
                     PROVE  t[2] < catalog.uidnext[t[1]]
          BY <1>1 DEF NamedPast
        <4>1. PICK i \in DOMAIN journal : IsView(i) /\ t = SeenAs(journal[i].row)
          BY <2>2 DEF UidInv, NamedRecorded
        <4>2. journal[i].row.uid < catalog.uidnext[journal[i].row.view]
          BY <2>1, <4>1 DEF UidInv, AppliedPast
        <4> QED
          BY <4>1, <4>2 DEF SeenAs
      <3>5. UidsNameOneMessage'
        BY <1>1 DEF UidInv, UidsNameOneMessage
      <3> QED
        BY <3>1, <3>2, <3>3, <3>4, <3>5 DEF UidInv
    <2>5. FactsInv'
      BY <1>1, <1>10, SameFactsInv DEF PassInv
    <2>6. TodoInv'
      BY <1>8, <1>14 DEF TodoInv
    <2>7. RowsInv'
      <3>1. Unapplied' = {}
        BY <1>1, <1>2, <2>1, <2>3 DEF Unapplied
      <3> QED
        BY <1>1, <2>2, <3>1 DEF RowsInv, SameMembership
    <2>8. ShownInv'
      <3>1. \A config, view, s, f : Shown(config, view, s, f)' <=> Shown(config, view, s, f)
        BY <1>1, <1>10, SameShown
      <3>2. ASSUME full \/ ~history.reverted, NEW i \in DOMAIN daemon.config.scopes
            PROVE  Shown(daemon.config, daemon.config.scopes[i], since, full)
        <4>1. daemon.config.scopes[i] \in Views
          BY <1>9, ElementOfSeq, LenProperties, ViewsAssumption
        <4>2. CASE full
          <5>1. since = 0
            BY <1>7, <4>2
          <5>2. catalog.applied > 0 /\ Typed
            BY <1>2
          <5>3. Due(daemon.config.scopes[i], 0, full) = Messages
            BY <4>1, <5>2, AllDue
          <5> QED
            BY <5>1, <5>3 DEF Shown
        <4>3. CASE ~full
          <5>1. known /\ full = FALSE
            BY <1>4, <1>5, <4>3
          <5>2. /\ catalog.refreshed \in [config : Configs, sequence : Nat]
                /\ catalog.refreshed.config = daemon.config /\ catalog.refreshed.sequence = since
            BY <1>6, <5>1 DEF Typed, Catalogs
          <5>3. catalog.refreshed = [config |-> daemon.config, sequence |-> since]
            BY <5>2
          <5>4. Shown(daemon.config, daemon.config.scopes[i], since, FALSE)
            BY <1>4, <1>9, <3>2, <4>3, <5>1, <5>3 DEF ShownInv
          <5> QED
            BY <5>1, <5>4
        <4> QED
          BY <4>2, <4>3
      <3>3. ASSUME NEW config \in Configs, NEW scope \in Nat, NEW s \in Nat, NEW f \in BOOLEAN,
                   AtWork(config, scope, s, f)', f \/ ~history'.reverted
            PROVE  Within(config, scope, s, f)'
        <4>1. config = daemon.config /\ scope = 1 /\ s = since /\ f = full
          BY <1>8, <3>3 DEF AtWork
        <4>2. \A i \in DOMAIN config.scopes : Shown(config, config.scopes[i], s, f)'
          BY <1>1, <3>1, <3>2, <3>3, <4>1
        <4>3. \A i \in DOMAIN config.scopes : ~(i < scope)
          <5>1. config.scopes \in Seq(Views)
            BY ViewsAssumption
          <5> QED
            BY <4>1, <5>1, LenProperties
        <4>4. daemon'.pc = "naming"
          BY <1>8, <1>14
        <4> QED
          BY <4>2, <4>3, <4>4 DEF Within
      <3> QED
        BY <1>1, <3>1, <3>3 DEF ShownInv
    <2> QED
      BY <1>11, <1>12, <2>4, <2>5, <2>6, <2>7, <2>8
  <1> QED
    BY <1>4, <1>13, <1>14

(* With nothing left of a view to do, the next one's turn comes: what is   *)
(* behind the pass stays behind it.                                        *)
LEMMA NextScopeStep ==
  ASSUME IInv, NextScope
  PROVE  IInv'
  <1> USE DEF IInv
  <1> DEFINE next == daemon.scope + 1
  <1>1. /\ daemon' = [daemon EXCEPT !.scope = next, !.pc = "naming"]
        /\ daemon.pc = "refreshing" /\ daemon.pending = << >> /\ daemon.todo = {}
        /\ daemon.scope < Len(daemon.config.scopes)
        /\ journal' = journal /\ catalog' = catalog /\ bound' = bound /\ history' = history
    BY DEF NextScope, ScopeDone
  <1>2. /\ daemon \in Daemons /\ daemon.config \in Configs
        /\ daemon.scope \in DOMAIN daemon.config.scopes /\ daemon.config.scopes \in Seq(Views)
    BY <1>1, ViewsAssumption DEF Typed, PassInv, Working
  <1>3. DOMAIN daemon.config.scopes = 1 .. Len(daemon.config.scopes) /\ Len(daemon.config.scopes) \in Nat
    BY <1>2, LenProperties
  <1>4. next \in Nat /\ next \in DOMAIN daemon.config.scopes
    BY <1>1, <1>2, <1>3
  <1>5. /\ daemon' \in Daemons /\ daemon'.pc = "naming" /\ daemon'.scope = daemon.scope + 1
        /\ daemon'.pending = daemon.pending /\ daemon'.config = daemon.config /\ daemon'.todo = daemon.todo
        /\ daemon'.since = daemon.since /\ daemon'.full = daemon.full /\ daemon'.latest = daemon.latest
    <2> HIDE DEF next
    <2>1. /\ daemon' \in Daemons /\ daemon'.pc = "naming" /\ daemon'.scope = next
          /\ daemon'.pending = daemon.pending /\ daemon'.config = daemon.config /\ daemon'.todo = daemon.todo
          /\ daemon'.since = daemon.since /\ daemon'.full = daemon.full /\ daemon'.latest = daemon.latest
      BY <1>1, <1>2, <1>4 DEF Daemons, Pcs
    <2> QED
      BY <2>1 DEF next
  <1>6. FactsSame /\ (\A i : IsView(i)' <=> IsView(i)) /\ Working' /\ Working
    BY <1>1, <1>5 DEF FactsSame, IsView, Working
  <1>7. Typed'
    BY <1>1, <1>5 DEF Typed
  <1>8. PassInv'
    <2>1. Latest' = Latest
      BY <1>6, SameTruth
    <2> QED
      BY <1>1, <1>4, <1>5, <1>6, <2>1 DEF PassInv
  <1>9. UidInv'
    <2>1. RowsNamed'
      BY <1>1, <1>5, <1>6 DEF UidInv, RowsNamed, SeenAs, Seen
    <2>2. NamedRecorded'
      BY <1>1, <1>5, <1>6 DEF UidInv, NamedRecorded, SeenAs
    <2>3. AppliedPast'
      BY <1>1, <1>6 DEF UidInv, AppliedPast
    <2>4. NamedPast' /\ UidsNameOneMessage'
      BY <1>1, <1>6 DEF UidInv, NamedPast, UidsNameOneMessage
    <2> QED
      BY <2>1, <2>2, <2>3, <2>4 DEF UidInv
  <1>10. FactsInv'
    BY <1>1, <1>6, SameFactsInv DEF PassInv
  <1>11. TodoInv'
    BY <1>5 DEF TodoInv
  <1>12. RowsInv'
    <2>1. Unapplied' = Unapplied
      BY <1>1, <1>6 DEF Unapplied
    <2>2. ASSUME NEW view, NEW m, Behind(view, m) PROVE Behind(view, m)'
      <3>1. PICK i \in 1 .. daemon.scope : view = daemon.config.scopes[i]
        BY <2>2 DEF Behind
      <3>2. i \in 1 .. daemon.scope + 1 /\ i # daemon.scope + 1
        BY <1>2, <1>3
      <3> QED
        BY <1>5, <3>1, <3>2 DEF Behind
    <2>3. DOMAIN daemon'.pending = {}
      BY <1>1, <1>5
    <2>4. \A i \in Unapplied' : Behind(journal[i].row.view, journal[i].row.msg)'
      BY <1>1, <1>6, <2>1, <2>2 DEF RowsInv
    <2>5. \A i \in Unapplied' : Behind(journal[i].row.view, journal[i].row.msg)' =>
             \E j \in 1 .. daemon'.scope : journal[i].row.view = daemon'.config.scopes[j] /\ j # daemon'.scope
      BY <1>1, <1>5 DEF Behind
    <2> QED
      BY <1>1, <1>6, <2>1, <2>3, <2>4, <2>5 DEF RowsInv, SameMembership, Behind
  <1>13. ShownInv'
    <2>1. /\ \A config, view, s, f : Shown(config, view, s, f)' <=> Shown(config, view, s, f)
          /\ \A config, view, m : RightAt(config, view, m)' <=> RightAt(config, view, m)
      BY <1>1, <1>6, SameShown
    <2>2. ASSUME NEW config \in Configs, NEW scope \in Nat, NEW s \in Nat, NEW f \in BOOLEAN,
                 AtWork(config, scope, s, f)', f \/ ~history'.reverted
          PROVE  Within(config, scope, s, f)'
      <3>1. AtWork(config, daemon.scope, s, f) /\ scope = daemon.scope + 1 /\ daemon.scope \in Nat
        BY <1>2, <1>3, <1>5, <2>2 DEF AtWork
      <3>2. Within(config, daemon.scope, s, f)
        BY <1>1, <1>6, <2>2, <3>1 DEF ShownInv
      <3>3. Todo = {}
        BY <1>1 DEF Todo
      <3>4. ASSUME NEW i \in DOMAIN config.scopes
            PROVE  /\ i < scope => \A m \in Messages : RightAt(config, config.scopes[i], m)
                   /\ scope <= i => Shown(config, config.scopes[i], s, f)
                   /\ i = scope => scope <= i
                   /\ scope < i => scope <= i
        <4>1. i \in Nat
          BY LenProperties, ViewsAssumption
        <4>2. CASE i < daemon.scope
          BY <3>1, <3>2, <4>1, <4>2 DEF Within
        <4>3. CASE i = daemon.scope
          BY <1>1, <3>1, <3>2, <3>3, <4>3 DEF Within
        <4>4. CASE daemon.scope < i
          BY <3>1, <3>2, <4>1, <4>4 DEF Within
        <4> QED
          BY <3>1, <4>1, <4>2, <4>3, <4>4
      <3>5. \A i \in DOMAIN config.scopes :
              /\ i < scope => \A m \in Messages : RightAt(config, config.scopes[i], m)'
              /\ scope < i \/ i = scope => Shown(config, config.scopes[i], s, f)'
        BY <2>1, <3>4
      <3>6. daemon'.pc = "naming"
        BY <1>5
      <3> QED
        BY <3>5, <3>6 DEF Within
    <2> QED
      BY <1>1, <2>1, <2>2 DEF ShownInv
  <1> QED
    BY <1>7, <1>8, <1>9, <1>10, <1>11, <1>12, <1>13

(* A change that is appended moves from the pass into the journal.         *)
LEMMA AppendChangeStep ==
  ASSUME IInv, AppendChange
  PROVE  IInv'
  <1> USE DEF IInv
  <1> DEFINE rest == Tail(daemon.pending)
  <1>1. /\ daemon.pending # << >> /\ journal' = Append(journal, Head(daemon.pending))
        /\ daemon' = [daemon EXCEPT !.pending = rest]
        /\ catalog' = catalog /\ bound' = bound /\ history' = history
    BY DEF AppendChange
  <1>2. daemon \in Daemons /\ daemon.pending \in Seq(ViewRecords) /\ daemon.pc = "refreshing" /\ Working
    BY <1>1 DEF Typed, PassInv, Daemons, Working
  <1> DEFINE last == Len(daemon.pending)
  <1>3. PICK r \in ViewRecords : r = Head(daemon.pending) /\ r = daemon.pending[1]
    BY <1>1, <1>2, HeadTailProperties
  <1>4. /\ rest \in Seq(ViewRecords) /\ last \in Nat /\ 0 < last
        /\ DOMAIN daemon.pending = 1 .. last /\ DOMAIN rest = 1 .. last - 1
        /\ \A i \in 1 .. last - 1 : rest[i] = daemon.pending[i + 1]
    <2>1. rest \in Seq(ViewRecords) /\ Len(rest) = last - 1
      BY <1>1, <1>2, HeadTailProperties
    <2>2. last \in Nat /\ DOMAIN daemon.pending = 1 .. last /\ last # 0
      BY <1>1, <1>2, LenProperties, EmptySeq
    <2>3. DOMAIN rest = 1 .. last - 1
      BY <2>1, LenProperties
    <2>4. \A i \in 1 .. last - 1 : rest[i] = daemon.pending[i + 1]
      BY <1>1, <1>2, <2>1, HeadTailProperties
    <2> QED
      BY <2>1, <2>2, <2>3, <2>4
  <1> HIDE DEF rest, last
  <1>5. r \in Records /\ r.kind = "view" /\ r.row \in Rows
    BY DEF ViewRecords, Records
  <1>6. /\ journal' \in Seq(Records) /\ journal' # << >>
        /\ Len(journal) \in Nat /\ Len(journal') = Len(journal) + 1
        /\ DOMAIN journal = 1 .. Len(journal) /\ DOMAIN journal' = 1 .. Len(journal) + 1
        /\ \A i \in 1 .. Len(journal) : journal'[i] = journal[i]
        /\ journal'[Len(journal) + 1] = r
    BY <1>1, <1>3, <1>5, Appended DEF Typed
  <1>7. /\ daemon' \in Daemons /\ daemon'.pending = rest /\ daemon'.pc = daemon.pc
        /\ daemon'.config = daemon.config /\ daemon'.scope = daemon.scope /\ daemon'.since = daemon.since
        /\ daemon'.full = daemon.full /\ daemon'.latest = daemon.latest /\ daemon'.todo = daemon.todo
    BY <1>1, <1>2, <1>4 DEF Daemons
  <1>8. \A i \in DOMAIN journal : i \in DOMAIN journal' /\ journal'[i] = journal[i] /\ (IsView(i)' <=> IsView(i))
    BY <1>6 DEF IsView
  <1>9. \A i \in DOMAIN journal' : i \in DOMAIN journal \/ (i = Len(journal) + 1 /\ journal'[i] = r /\ IsView(i)')
    BY <1>5, <1>6 DEF IsView
  <1>10. FactsSame /\ catalog.applied \in Nat /\ catalog.applied <= Len(journal) /\ Working'
    BY <1>1, <1>2, <1>7 DEF FactsSame, PassInv, Typed, Catalogs, Working
  <1>11. \A i \in DOMAIN rest : i + 1 \in DOMAIN daemon.pending /\ rest[i] = daemon.pending[i + 1]
    BY <1>4
  <1>12. Typed'
    BY <1>1, <1>6, <1>7 DEF Typed
  <1>13. PassInv'
    <2>1. Latest' = Latest
      BY <1>10, SameTruth
    <2> QED
      BY <1>1, <1>2, <1>6, <1>7, <1>10, <2>1 DEF PassInv
  <1>14. UidInv'
    <2>1. RowsNamed'
      <3>1. SeenAs(r.row) \in history.named
        BY <1>3, <1>4 DEF UidInv, RowsNamed
      <3>2. \A i \in DOMAIN journal' : IsView(i)' => SeenAs(journal'[i].row) \in history.named
        BY <1>8, <1>9, <3>1 DEF UidInv, RowsNamed
      <3>3. \A i \in DOMAIN rest : SeenAs(rest[i].row) \in history.named
        BY <1>11 DEF UidInv, RowsNamed
      <3> QED
        BY <1>1, <1>7, <3>2, <3>3 DEF UidInv, RowsNamed, Seen, SeenAs
    <2>2. NamedRecorded'
      <3> SUFFICES ASSUME ~history.lost, NEW t \in history.named
                   PROVE  \/ \E i \in DOMAIN journal' : IsView(i)' /\ t = SeenAs(journal'[i].row)
                          \/ \E i \in DOMAIN rest : t = SeenAs(rest[i].row)
        BY <1>1, <1>7 DEF NamedRecorded, SeenAs
      <3>1. CASE \E i \in DOMAIN journal : IsView(i) /\ t = SeenAs(journal[i].row)
        BY <1>8, <3>1
      <3>2. ASSUME NEW i \in DOMAIN daemon.pending, t = SeenAs(daemon.pending[i].row)
            PROVE  \/ \E j \in DOMAIN journal' : IsView(j)' /\ t = SeenAs(journal'[j].row)
                   \/ \E j \in DOMAIN rest : t = SeenAs(rest[j].row)
        <4>1. CASE i = 1
          <5>1. Len(journal) + 1 \in DOMAIN journal' /\ journal'[Len(journal) + 1].kind = "view"
            BY <1>5, <1>6
          <5>2. t = SeenAs(journal'[Len(journal) + 1].row)
            BY <1>3, <1>6, <3>2, <4>1
          <5> QED
            BY <5>1, <5>2 DEF IsView
        <4>2. CASE i # 1
          <5>1. i - 1 \in DOMAIN rest /\ rest[i - 1] = daemon.pending[i]
            BY <1>4, <4>2
          <5> QED
            BY <3>2, <5>1
        <4> QED
          BY <4>1, <4>2
      <3> QED
        BY <3>1, <3>2 DEF UidInv, NamedRecorded
    <2>3. AppliedPast'
      <3>1. \A i \in 1 .. catalog.applied : i \in DOMAIN journal
        BY <1>6, <1>10
      <3> QED
        BY <1>1, <1>8, <3>1 DEF UidInv, AppliedPast
    <2>4. NamedPast' /\ UidsNameOneMessage'
      BY <1>1, <1>2 DEF UidInv, NamedPast, UidsNameOneMessage
    <2> QED
      BY <2>1, <2>2, <2>3, <2>4 DEF UidInv
  <1>15. FactsInv'
    BY <1>1, <1>3, <1>5, <1>10, SameFactsInv
  <1>16. TodoInv'
    <2>1. \A view, since, full : Reach(view, since, full)' = Reach(view, since, full)
      BY <1>10, SameTruth
    <2> QED
      BY <1>7, <2>1 DEF TodoInv, AtWork
  <1>17. RowsInv'
    <2>1. \A view, m : Behind(view, m)' <=> Behind(view, m)
      BY <1>7 DEF Behind, Todo
    <2>2. r.row \in catalog.rows /\ Behind(r.row.view, r.row.msg)
      BY <1>2, <1>3, <1>4 DEF RowsInv
    <2>3. \A i \in Unapplied' : (i \in Unapplied /\ journal'[i] = journal[i]) \/ journal'[i] = r
      BY <1>1, <1>8, <1>9 DEF Unapplied
    <2>4. \A i \in Unapplied' : journal'[i].row \in catalog.rows /\ Behind(journal'[i].row.view, journal'[i].row.msg)
      BY <1>2, <2>2, <2>3 DEF RowsInv
    <2>5. \A i \in DOMAIN rest : rest[i].row \in catalog.rows /\ Behind(rest[i].row.view, rest[i].row.msg)
      BY <1>2, <1>11 DEF RowsInv
    <2>6. \A i \in Unapplied' : Behind(journal[i].row.view, journal[i].row.msg)'
      BY <1>7, <2>4 DEF Behind, Todo
    <2>7. \A i \in DOMAIN daemon'.pending : Behind(daemon.pending[i].row.view, daemon.pending[i].row.msg)'
      BY <1>7, <2>5 DEF Behind, Todo
    <2> QED
      BY <1>1, <1>7, <2>4, <2>5, <2>6, <2>7 DEF RowsInv, SameMembership
  <1>18. ShownInv'
    BY <1>1, <1>7, <1>10, SameWork
  <1> QED
    BY <1>12, <1>13, <1>14, <1>15, <1>16, <1>17, <1>18

(* When the last view is done, all of them are right, under the state they *)
(* were evaluated from, and what the journal still says of them holds.     *)
LEMMA EndRefreshStep ==
  ASSUME IInv, EndRefresh
  PROVE  IInv'
  <1> USE DEF IInv
  <1> DEFINE mark == [config |-> daemon.config, sequence |-> daemon.latest]
             reverted == history.reverted /\ ~daemon.full
  <1>1. /\ daemon.pc = "refreshing" /\ daemon.pending = << >> /\ daemon.todo = {} /\ Working
        /\ daemon.scope = Len(daemon.config.scopes)
        /\ catalog' = [catalog EXCEPT !.refreshed = mark]
        /\ daemon' = [daemon EXCEPT !.pc = "idle"]
        /\ history' = [history EXCEPT !.reverted = reverted]
        /\ journal' = journal /\ bound' = bound
    BY DEF EndRefresh, ScopeDone, Working
  <1>2. /\ daemon \in Daemons /\ daemon.config \in Configs /\ daemon.latest \in 1 .. catalog.applied
        /\ daemon.scope \in Nat /\ daemon.since \in Nat /\ daemon.full \in BOOLEAN
    <2>1. /\ daemon \in Daemons /\ daemon.scope \in Nat /\ daemon.since \in Nat /\ daemon.full \in BOOLEAN
      BY DEF Typed, Daemons
    <2>2. daemon.config \in Configs /\ daemon.latest = Latest /\ 0 < catalog.applied
      BY <1>1 DEF PassInv
    <2>3. catalog.applied \in Nat
      BY DEF Typed, Catalogs
    <2>4. Latest \in 0 .. catalog.applied /\ Latest > 0
      BY <2>2, <2>3, LatestIsLast
    <2>5. daemon.latest \in 1 .. catalog.applied
      BY <2>2, <2>3, <2>4
    <2> QED
      BY <2>1, <2>2, <2>5
  <1>3. mark \in [config : Configs, sequence : Nat] /\ mark.sequence = daemon.latest /\ mark.config = daemon.config
    BY <1>2 DEF Typed, Catalogs
  <1>4. reverted \in BOOLEAN
    BY <1>2 DEF Typed, Histories
  <1>5. reverted <=> history.reverted /\ ~daemon.full
    OBVIOUS
  <1> HIDE DEF mark, reverted
  <1>6. /\ catalog' \in Catalogs /\ catalog'.rows = catalog.rows /\ catalog'.uidnext = catalog.uidnext
        /\ catalog'.applied = catalog.applied /\ catalog'.refreshed = mark /\ FactsSame
    BY <1>1, <1>3 DEF Typed, Catalogs, FactsSame
  <1>7. /\ daemon' \in Daemons /\ daemon'.pc = "idle" /\ ~Working' /\ daemon'.config = daemon.config
        /\ daemon'.pending = << >>
    BY <1>1, <1>2 DEF Daemons, Pcs, Working
  <1>8. /\ history' \in Histories /\ history'.named = history.named /\ history'.lost = history.lost
        /\ history'.reverted = reverted
    BY <1>1, <1>4 DEF Typed, Histories
  <1>9. \A i : IsView(i)' <=> IsView(i)
    BY <1>1 DEF IsView
  <1>10. DOMAIN daemon.pending = {} /\ DOMAIN daemon'.pending = {}
    BY <1>1, <1>7
  <1>11. Typed'
    BY <1>1, <1>6, <1>7, <1>8 DEF Typed
  <1>12. PassInv'
    BY <1>1, <1>2, <1>6, <1>7 DEF PassInv
  <1>13. UidInv'
    <2>1. RowsNamed'
      BY <1>1, <1>6, <1>8, <1>9, <1>10 DEF UidInv, RowsNamed, SeenAs, Seen
    <2>2. NamedRecorded'
      BY <1>1, <1>8, <1>9, <1>10 DEF UidInv, NamedRecorded, SeenAs
    <2>3. AppliedPast'
      BY <1>1, <1>6, <1>9 DEF UidInv, AppliedPast
    <2>4. NamedPast' /\ UidsNameOneMessage'
      BY <1>7, <1>8 DEF UidInv, NamedPast, UidsNameOneMessage
    <2> QED
      BY <2>1, <2>2, <2>3, <2>4 DEF UidInv
  <1>14. FactsInv'
    BY <1>1, <1>6, SameFactsInv DEF PassInv
  <1>15. TodoInv'
    BY <1>7 DEF TodoInv
  <1>16. RowsInv'
    <2>1. Unapplied' = Unapplied
      BY <1>1, <1>6, <1>9 DEF Unapplied
    <2>2. mark.sequence \in 1 .. catalog.applied
      BY <1>2, <1>3
    <2> QED
      BY <1>1, <1>6, <1>7, <1>10, <2>1, <2>2 DEF RowsInv, SameMembership
  <1>17. ShownInv'
    <2>1. /\ \A config, view, s, f : Shown(config, view, s, f)' <=> Shown(config, view, s, f)
          /\ \A config, view, m : RightAt(config, view, m)' <=> RightAt(config, view, m)
      BY <1>6, SameShown
    <2>2. ASSUME NEW config \in Configs, NEW since \in Nat, mark = [config |-> config, sequence |-> since],
                 ~reverted, NEW i \in DOMAIN config.scopes
          PROVE  Shown(config, config.scopes[i], since, FALSE)
      <3>1. config = daemon.config
        BY <1>3, <2>2
      <3>2. Within(config, daemon.scope, daemon.since, daemon.full)
        BY <1>1, <1>2, <1>5, <2>2, <3>1 DEF ShownInv, AtWork
      <3>3. i \in 1 .. daemon.scope /\ Len(config.scopes) \in Nat
        BY <1>1, <3>1, LenProperties, ViewsAssumption
      <3>4. \A m \in Messages : RightAt(config, config.scopes[i], m)
        <4>1. CASE i < daemon.scope
          BY <3>2, <4>1 DEF Within
        <4>2. CASE i = daemon.scope
          <5>1. Todo = {}
            BY <1>1 DEF Todo
          <5> QED
            BY <1>1, <3>2, <4>2, <5>1 DEF Within
        <4> QED
          BY <1>2, <3>3, <4>1, <4>2
      <3> QED
        BY <3>4 DEF Shown
    <2> QED
      BY <1>6, <1>7, <1>8, <2>1, <2>2 DEF ShownInv
  <1> QED
    BY <1>11, <1>12, <1>13, <1>14, <1>15, <1>16, <1>17

(* A view whose name is not its own any more holds the account; else what  *)
(* its refresh has to evaluate is set, and covers what is due.             *)
LEMMA NameViewStep ==
  ASSUME IInv, NameView
  PROVE  IInv'
  <1> USE DEF IInv
  <1>1. /\ daemon.pc = "naming" /\ Working
        /\ journal' = journal /\ bound' = bound /\ history' = history
    BY DEF NameView, Working
  <1>2. /\ daemon \in Daemons /\ daemon.config \in Configs /\ daemon.pending = << >>
        /\ daemon.scope \in DOMAIN daemon.config.scopes /\ daemon.config.scopes \in Seq(Views)
        /\ daemon.since \in Nat /\ daemon.full \in BOOLEAN /\ catalog \in Catalogs
    BY <1>1, ViewsAssumption DEF Typed, PassInv, Daemons
  <1>3. View \in Views
    BY <1>2, ElementOfSeq, LenProperties DEF View
  <1>4. CASE daemon' = [daemon EXCEPT !.pc = "held", !.due = TRUE] /\ catalog' = catalog
    <2>1. /\ daemon' \in Daemons /\ daemon'.pc = "held" /\ ~Working' /\ daemon'.pending = << >>
          /\ daemon'.config = daemon.config
      BY <1>2, <1>4 DEF Daemons, Pcs, Working
    <2>2. Typed'
      BY <1>1, <1>4, <2>1 DEF Typed
    <2>3. PassInv'
      BY <1>1, <1>2, <1>4, <2>1 DEF PassInv
    <2> QED
      BY <1>1, <1>2, <1>4, <2>1, <2>2, <2>3, IdleKeeps
  <1>5. CASE /\ catalog' = IF View = "account" THEN catalog
                           ELSE [catalog EXCEPT !.names[View] = daemon.config.names[View]]
             /\ daemon' = [daemon EXCEPT !.pc = "refreshing", !.todo = Components(View)]
    <2> DEFINE todo == Components(View)
    <2>1. /\ todo \in SUBSET (Messages \X Messages)
          /\ \A p, q \in todo : p[2] = q[2] => p = q
          /\ \A p \in todo, n \in Messages :
               <<p[2], n>> \in Reach(View, daemon.since, daemon.full) => <<p[1], n>> \in todo
          /\ Due(View, daemon.since, daemon.full) \subseteq {p[2] : p \in todo}
      BY <1>3, ComponentsAreWhole
    <2>2. daemon' = [daemon EXCEPT !.pc = "refreshing", !.todo = todo]
      BY <1>5
    <2> HIDE DEF todo
    <2>3. /\ daemon' \in Daemons /\ daemon'.pc = "refreshing" /\ daemon'.todo = todo /\ daemon'.pending = << >>
          /\ daemon'.config = daemon.config /\ daemon'.scope = daemon.scope /\ daemon'.since = daemon.since
          /\ daemon'.full = daemon.full /\ daemon'.latest = daemon.latest
      BY <1>2, <2>1, <2>2 DEF Daemons, Pcs
    <2>4. /\ catalog' \in Catalogs /\ catalog'.rows = catalog.rows /\ catalog'.uidnext = catalog.uidnext
          /\ catalog'.refreshed = catalog.refreshed /\ FactsSame /\ catalog'.applied = catalog.applied
      <3>1. daemon.config.names[View] \in Names
        BY <1>2 DEF Names, View
      <3> DEFINE name == daemon.config.names[View]
      <3>2. CASE View = "account"
        BY <1>2, <1>5, <3>2 DEF FactsSame
      <3>3. CASE View # "account"
        <4> HIDE DEF name
        <4>1. catalog' = [catalog EXCEPT !.names[View] = name] /\ name \in Names
          BY <1>5, <3>1, <3>3 DEF name
        <4> QED
          BY <1>2, <1>3, <4>1 DEF Catalogs, FactsSame
      <3> QED
        BY <3>2, <3>3
    <2>5. (\A i : IsView(i)' <=> IsView(i)) /\ Working' /\ DOMAIN daemon'.pending = {} /\ DOMAIN daemon.pending = {}
      BY <1>1, <1>2, <2>3 DEF IsView, Working
    <2>6. Typed'
      BY <1>1, <2>3, <2>4 DEF Typed
    <2>7. PassInv'
      <3>1. Latest' = Latest
        BY <2>4, SameTruth
      <3> QED
        BY <1>1, <1>2, <2>3, <2>4, <2>5, <3>1 DEF PassInv
    <2>8. UidInv'
      <3>1. RowsNamed'
        BY <1>1, <2>4, <2>5 DEF UidInv, RowsNamed, SeenAs, Seen
      <3>2. NamedRecorded'
        BY <1>1, <2>5 DEF UidInv, NamedRecorded, SeenAs
      <3>3. AppliedPast'
        BY <1>1, <2>4, <2>5 DEF UidInv, AppliedPast
      <3>4. NamedPast' /\ UidsNameOneMessage'
        BY <1>1, <2>4 DEF UidInv, NamedPast, UidsNameOneMessage
      <3> QED
        BY <3>1, <3>2, <3>3, <3>4 DEF UidInv
    <2>9. FactsInv'
      BY <1>1, <2>4, SameFactsInv DEF PassInv
    <2>10. \A view, since, full : /\ Reach(view, since, full)' = Reach(view, since, full)
                                  /\ Due(view, since, full)' = Due(view, since, full)
      BY <2>4, SameTruth
    <2>11. TodoInv'
      <3>1. ASSUME NEW config \in Configs, NEW scope \in Nat, NEW since \in Nat, NEW full \in BOOLEAN,
                   AtWork(config, scope, since, full)'
            PROVE  \A p \in todo, n \in Messages :
                     <<p[2], n>> \in Reach(config.scopes[scope], since, full)' => <<p[1], n>> \in todo
        <4>1. config.scopes[scope] = View /\ since = daemon.since /\ full = daemon.full
          BY <2>3, <3>1 DEF AtWork, View
        <4>2. Reach(config.scopes[scope], since, full)' = Reach(config.scopes[scope], since, full)
          BY <2>10
        <4> QED
          BY <2>1, <4>1, <4>2
      <3> QED
        BY <2>1, <2>3, <3>1 DEF TodoInv
    <2>12. RowsInv'
      <3>1. Unapplied' = Unapplied
        BY <1>1, <2>4, <2>5 DEF Unapplied
      <3>2. ASSUME NEW i \in Unapplied PROVE Behind(journal[i].row.view, journal[i].row.msg)'
        <4>1. Behind(journal[i].row.view, journal[i].row.msg)
          BY <1>1 DEF RowsInv
        <4> QED
          BY <1>1, <2>3, <4>1 DEF Behind
      <3> QED
        BY <1>1, <2>4, <2>5, <3>1, <3>2 DEF RowsInv, SameMembership
    <2>13. ShownInv'
      <3>1. /\ \A config, view, s, f : Shown(config, view, s, f)' <=> Shown(config, view, s, f)
            /\ \A config, view, m : RightAt(config, view, m)' <=> RightAt(config, view, m)
        BY <2>4, SameShown
      <3>2. ASSUME NEW config \in Configs, NEW scope \in Nat, NEW since \in Nat, NEW full \in BOOLEAN,
                   AtWork(config, scope, since, full)', full \/ ~history.reverted
            PROVE  Within(config, scope, since, full)'
        <4>1. AtWork(config, scope, since, full)
          BY <2>3, <3>2 DEF AtWork
        <4>2. Within(config, scope, since, full)
          BY <1>1, <3>2, <4>1 DEF ShownInv
        <4>3. \A m \in Messages : m \in Due(config.scopes[scope], since, full) => m \in Todo'
          <5>1. config.scopes[scope] = View /\ since = daemon.since /\ full = daemon.full
            BY <4>1 DEF AtWork, View
          <5> QED
            BY <2>1, <2>3, <5>1 DEF Todo
        <4>4. ASSUME NEW i \in DOMAIN config.scopes, i = scope, NEW m \in Messages \ Todo'
              PROVE  RightAt(config, config.scopes[i], m)
          BY <1>1, <4>2, <4>3, <4>4 DEF Within, Shown
        <4>5. \A i \in DOMAIN config.scopes :
                /\ i < scope => \A m \in Messages : RightAt(config, config.scopes[i], m)'
                /\ i = scope => \A m \in Messages \ Todo' : RightAt(config, config.scopes[i], m)'
                /\ scope < i => Shown(config, config.scopes[i], since, full)'
          BY <3>1, <4>2, <4>4 DEF Within
        <4>6. daemon'.pc = "refreshing"
          BY <2>3
        <4> QED
          BY <4>5, <4>6 DEF Within
      <3> QED
        BY <1>1, <2>4, <3>1, <3>2 DEF ShownInv
    <2> QED
      BY <2>6, <2>7, <2>8, <2>9, <2>11, <2>12, <2>13
  <1> QED
    BY <1>4, <1>5 DEF NameView

(* Past a UID and those of some rows is past each of them.                 *)
LEMMA MaxIsPast ==
  ASSUME NEW u \in Nat, NEW rows, IsFiniteSet(rows), \A x \in rows : x.uid \in Nat,
         NEW n, n = Max({u} \cup {x.uid + 1 : x \in rows})
  PROVE  n \in Nat /\ u <= n /\ (\A x \in rows : x.uid < n) /\ (n = u \/ \E x \in rows : n = x.uid + 1)
  <1> DEFINE f == [x \in rows |-> x.uid + 1]  image == {f[x] : x \in rows}
  <1>1. IsFiniteSet(image)
    <2>1. DOMAIN f = rows
      OBVIOUS
    <2> HIDE DEF f
    <2> QED
      BY <2>1, ImageFinite
  <1>2. n = Max({u} \cup image) /\ image \subseteq Nat /\ \A x \in rows : x.uid + 1 \in image
    OBVIOUS
  <1>3. \A y \in image : \E x \in rows : y = x.uid + 1
    OBVIOUS
  <1> HIDE DEF image, f
  <1> DEFINE all == {u} \cup image
  <1>4. IsFiniteSet(all)
    BY <1>1, FS_Singleton, FS_Union
  <1>5. all \subseteq Nat /\ all # {} /\ u \in all
    BY <1>2
  <1> HIDE DEF all
  <1>6. Max(all) \in all /\ \A y \in all : y <= Max(all)
    BY <1>4, <1>5, FiniteMax
  <1>7. n = Max(all)
    BY <1>2 DEF all
  <1>8. n \in Nat /\ u <= n /\ (\A y \in image : y <= n) /\ (n = u \/ n \in image)
    BY <1>5, <1>6, <1>7 DEF all
  <1>9. ASSUME NEW x \in rows PROVE x.uid < n
    <2>1. x.uid \in Nat /\ x.uid + 1 <= n /\ n \in Nat
      BY <1>2, <1>8
    <2> QED
      BY <2>1
  <1> QED
    BY <1>3, <1>8, <1>9

(* What a batch commits and leaves to append.                              *)
BatchDone(c, changes, order, uidnext) ==
  /\ daemon.pc = "refreshing" /\ daemon.pending = << >>
  /\ c \in {p[1] : p \in daemon.todo}
  /\ changes = BatchChanges(View, BatchThrough(c))
  /\ catalog'.rows = Committed(changes) /\ FactsSame /\ catalog'.refreshed = catalog.refreshed
  /\ uidnext = Max({catalog.uidnext[View]} \cup {x.uid + 1 : x \in changes})
  /\ catalog'.uidnext = [catalog.uidnext EXCEPT ![View] = uidnext]
  /\ order \in [1 .. Cardinality(changes) -> changes]
  /\ IsInjective(order)
  /\ daemon'.pending = [i \in DOMAIN order |-> [kind |-> "view", row |-> order[i]]]
  /\ daemon'.todo = {p \in daemon.todo : p[1] > c}
  /\ daemon'.pc = daemon.pc /\ daemon'.config = daemon.config /\ daemon'.scope = daemon.scope
  /\ daemon'.since = daemon.since /\ daemon'.full = daemon.full /\ daemon'.latest = daemon.latest
  /\ history'.named = history.named \cup Seen(changes) /\ history'.lost = history.lost
  /\ history'.reverted <=>
       history.reverted \/ (catalog.refreshed # None /\ catalog.refreshed.config # daemon.config)
  /\ journal' = journal /\ bound' = bound

(* The view of the refresh is one of the configuration's, and no other.    *)
LEMMA ViewOfRefresh ==
  ASSUME Typed, PassInv, Working
  PROVE  /\ daemon.config \in Configs /\ daemon.scope \in DOMAIN daemon.config.scopes
         /\ View = daemon.config.scopes[daemon.scope] /\ View \in Views
         /\ DOMAIN daemon.config.scopes = 1 .. Len(daemon.config.scopes)
         /\ Len(daemon.config.scopes) \in Nat
         /\ \A i \in DOMAIN daemon.config.scopes :
              /\ daemon.config.scopes[i] \in Views
              /\ daemon.config.scopes[i] = View => i = daemon.scope
  <1>1. /\ daemon.config \in Configs /\ daemon.scope \in DOMAIN daemon.config.scopes
        /\ daemon.config.scopes \in Seq(Views) /\ IsInjective(daemon.config.scopes)
    BY ViewsAssumption DEF PassInv, Working
  <1>2. DOMAIN daemon.config.scopes = 1 .. Len(daemon.config.scopes) /\ Len(daemon.config.scopes) \in Nat
    BY <1>1, LenProperties
  <1>3. \A i \in DOMAIN daemon.config.scopes : daemon.config.scopes[i] \in Views
    BY <1>1, <1>2, ElementOfSeq
  <1> QED
    BY <1>1, <1>2, <1>3 DEF View, IsInjective

(* The changes of the batch are rows of its messages, ...                  *)
LEMMA BatchParts ==
  ASSUME IInv, NEW c, NEW changes, NEW order, NEW uidnext, BatchDone(c, changes, order, uidnext)
  PROVE  /\ BatchThrough(c) \in SUBSET Messages /\ BatchThrough(c) \subseteq Todo
         /\ Todo' \subseteq Todo /\ Todo' \cap BatchThrough(c) = {} /\ Todo \ Todo' \subseteq BatchThrough(c)
         /\ changes \subseteq Rows /\ IsFiniteSet(changes)
         /\ \A x \in changes : /\ x.view = View /\ x.msg \in BatchThrough(c) /\ x.uid \in Nat
                               /\ HasRow(x) \/ catalog.uidnext[View] <= x.uid
         /\ \A x, y \in changes : x.uid = y.uid => x = y \/ HasRow(x) \/ HasRow(y)
         /\ catalog'.rows \subseteq Rows /\ IsFiniteSet(catalog'.rows) /\ changes \subseteq catalog'.rows
         /\ \A r, s \in catalog'.rows : SameMembership(r, s) => r = s
         /\ \A r : ~(r.view = View /\ r.msg \in BatchThrough(c)) => (r \in catalog'.rows <=> r \in catalog.rows)
         /\ \A m \in BatchThrough(c) : RightAt(daemon.config, View, m)'
         /\ uidnext \in Nat /\ catalog.uidnext[View] <= uidnext /\ \A x \in changes : x.uid < uidnext
  <1> DEFINE batch == BatchThrough(c)  members == BatchMembers(View, BatchThrough(c))
  <1>1. Typed /\ RowsUnique /\ Working /\ PassInv
    BY DEF IInv, RowsInv, RowsUnique, BatchDone, Working
  <1>2. /\ daemon.config \in Configs /\ View \in Views /\ View = daemon.config.scopes[daemon.scope]
        /\ daemon.scope \in Nat
    BY <1>1, ViewOfRefresh
  <1>3. daemon.todo \in SUBSET (Messages \X Messages) /\ daemon.since \in Nat /\ daemon.full \in BOOLEAN
    BY <1>1 DEF Typed, Daemons
  <1>4. /\ \A p, q \in daemon.todo : p[2] = q[2] => p = q
        /\ \A p \in daemon.todo, n \in Messages :
             <<p[2], n>> \in Reach(View, daemon.since, daemon.full) => <<p[1], n>> \in daemon.todo
    BY <1>2, <1>3 DEF IInv, TodoInv, BatchDone, AtWork
  <1>5. /\ batch \in SUBSET Messages
        /\ \A m \in batch : m \in members <=> m \in Truth(daemon.config, View)
    BY <1>1, <1>2, <1>4, BatchIsRight
  <1>6. changes = Changes(View, batch, members)
    BY DEF BatchDone, BatchChanges
  <1>7. daemon'.todo = {p \in daemon.todo : p[1] > c} /\ c \in Nat /\ \A p \in daemon.todo : p[1] \in Nat
    <2>1. daemon'.todo = {p \in daemon.todo : p[1] > c} /\ c \in {p[1] : p \in daemon.todo}
      BY DEF BatchDone
    <2>2. \A p \in daemon.todo : p[1] \in Nat
      BY <1>3, ViewsAssumption
    <2> QED
      BY <2>1, <2>2
  <1>8. batch \subseteq Todo /\ Todo' \subseteq Todo /\ Todo' \cap batch = {} /\ Todo \ Todo' \subseteq batch
    <2>1. \A p \in daemon.todo : p[1] > c <=> ~(p[1] <= c)
      BY <1>7
    <2> QED
      BY <1>4, <1>7, <2>1 DEF Todo, BatchThrough
  <1>8a. Placed(batch)
    <2>1. ASSUME NEW m \in batch PROVE ComponentOf(m) \in Messages
      <3>1. PICK p \in daemon.todo : p[2] = m
        BY DEF BatchThrough
      <3>2. p[1] \in Messages /\ <<p[1], m>> \in daemon.todo
        BY <1>3, <3>1
      <3> QED
        BY <3>2 DEF ComponentOf
    <2> QED
      BY <2>1 DEF Placed
  <1> HIDE DEF batch, members
  <1>9. /\ changes \subseteq Rows /\ IsFiniteSet(changes)
        /\ \A x \in changes : /\ x.view = View /\ x.msg \in batch
                              /\ HasRow(x) \/ catalog.uidnext[View] <= x.uid
        /\ \A x, y \in changes : x.uid = y.uid => x = y \/ HasRow(x) \/ HasRow(y)
    BY <1>1, <1>2, <1>5, <1>6, <1>8a, ChangesShape
  <1>10. catalog'.rows = Committed(changes) /\ FactsSame
    BY DEF BatchDone
  <1>11. /\ catalog'.rows \subseteq Rows /\ IsFiniteSet(catalog'.rows)
         /\ \A r, s \in catalog'.rows : SameMembership(r, s) => r = s
         /\ \A r : ~(r.view = View /\ r.msg \in batch) => (r \in catalog'.rows <=> r \in catalog.rows)
         /\ \A r \in catalog'.rows : r.view = View /\ r.msg \in batch =>
              (r.visible <=> r.rules = daemon.config.rules /\ r.msg \in members)
         /\ \A m \in batch \cap members : \E r \in catalog'.rows :
              r.view = View /\ r.msg = m /\ r.rules = daemon.config.rules
    BY <1>1, <1>2, <1>5, <1>6, <1>8a, <1>10, CommittedRows
  <1>12. changes \subseteq catalog'.rows
    BY <1>10 DEF Committed
  <1>13. \A x \in changes : x.uid \in Nat
    BY <1>9 DEF Rows
  <1>14. uidnext \in Nat /\ catalog.uidnext[View] <= uidnext /\ \A x \in changes : x.uid < uidnext
    <2>1. catalog.uidnext[View] \in Nat
      BY <1>1, <1>2 DEF Typed, Catalogs
    <2>2. uidnext = Max({catalog.uidnext[View]} \cup {x.uid + 1 : x \in changes})
      BY DEF BatchDone
    <2>3. IsFiniteSet(changes)
      BY <1>9
    <2> QED
      BY <1>13, <2>1, <2>2, <2>3, MaxIsPast
  <1>15. ASSUME NEW m \in batch, NEW view, view = View, NEW config, config = daemon.config
         PROVE  RightAt(config, view, m)'
    <2>1. Truth(config, view)' = Truth(config, view)
      BY <1>10, SameTruth
    <2>2. m \in members <=> m \in Truth(config, view)'
      BY <1>5, <1>15, <2>1
    <2>3. \A r \in RowsOf(view, m)' : r \in catalog'.rows /\ r.view = View /\ r.msg = m
      BY <1>15 DEF RowsOf
    <2>4. \A r \in catalog'.rows : r.view = View /\ r.msg = m => r \in RowsOf(view, m)'
      BY <1>15 DEF RowsOf
    <2>5. \A r \in RowsOf(view, m)' : r.visible <=> r.rules = config.rules /\ m \in Truth(config, view)'
      BY <1>11, <1>15, <2>2, <2>3
    <2>6. m \in Truth(config, view)' => \E r \in RowsOf(view, m)' : r.rules = config.rules
      BY <1>11, <1>15, <2>2, <2>4
    <2> QED
      BY <2>5, <2>6 DEF RightAt
  <1>16. \A m \in batch : RightAt(daemon.config, View, m)'
    <2> SUFFICES ASSUME NEW m \in batch PROVE RightAt(daemon.config, View, m)'
      OBVIOUS
    <2>1. PICK view, config : view = View /\ view = View' /\ config = daemon.config /\ config = daemon'.config
      BY DEF BatchDone, View
    <2>2. RightAt(config, view, m)'
      BY <1>15, <2>1
    <2> QED
      BY <2>1, <2>2 DEF RightAt
  <1> HIDE DEF BatchDone
  <1>17. BatchThrough(c) = batch
    BY DEF batch
  <1> QED
    BY <1>5, <1>8, <1>9, <1>11, <1>12, <1>13, <1>14, <1>16, <1>17

Ordered(order, changes) ==
  /\ order \in [1 .. Cardinality(changes) -> changes]
  /\ IsInjective(order)

(* Every change is in the order, since none is there twice.                *)
LEMMA OrderHasAll ==
  ASSUME NEW changes, IsFiniteSet(changes), changes \subseteq Rows, NEW order, Ordered(order, changes)
  PROVE  \A x \in changes : \E i \in DOMAIN order : order[i] = x
  <1> DEFINE n == Cardinality(changes)
  <1>1. n \in Nat
    BY FS_CardinalityType
  <1>2. /\ order \in [1 .. n -> changes] /\ DOMAIN order = 1 .. n
        /\ IsInjective(order)
    BY DEF Ordered
  <1>3. Cardinality(1 .. n) = n
    <2>1. 1 \in Int /\ n \in Int /\ (1 > n => n = 0)
      BY <1>1
    <2> HIDE DEF n
    <2> QED
      BY <1>1, <2>1, FS_Interval
  <1>4. n = Cardinality(changes)
    OBVIOUS
  <1> HIDE DEF n
  <1>5. \A i, j \in 1 .. n : order[i] = order[j] => i = j
    <2> SUFFICES ASSUME NEW i \in 1 .. n, NEW j \in 1 .. n, order[i] = order[j] PROVE i = j
      OBVIOUS
    <2> QED
      BY <1>2 DEF IsInjective
  <1>6. order \in Injection(1 .. n, changes)
    BY <1>2, <1>5 DEF Injection, IsInjective
  <1>7. order \in Surjection(1 .. n, changes)
    BY <1>3, <1>4, <1>6, FS_Injection
  <1> QED
    BY <1>2, <1>7 DEF Surjection

(* A batch is one such commit.                                             *)
LEMMA BatchIsDone ==
  ASSUME IInv, RefreshBatch
  PROVE  Typed' /\ \E c, changes, order, uidnext : BatchDone(c, changes, order, uidnext)
  <1>1. daemon.pc = "refreshing" /\ daemon.pending = << >> /\ journal' = journal /\ bound' = bound /\ Working
    BY DEF RefreshBatch, Working
  <1>2. PICK c \in {p[1] : p \in daemon.todo} : Commit(View, BatchChanges(View, BatchThrough(c)), c)
    BY DEF RefreshBatch
  <1>3. Typed /\ PassInv /\ daemon \in Daemons /\ catalog \in Catalogs /\ history \in Histories
    BY DEF IInv, Typed
  <1>4. daemon.config \in Configs /\ View \in Views /\ daemon.scope \in DOMAIN daemon.config.scopes
    BY <1>1, <1>3, ViewOfRefresh
  <1>5. PICK changes : changes = BatchChanges(View, BatchThrough(c))
    OBVIOUS
  <1> DEFINE rows == Committed(changes)
             name == daemon.config.names[View]
             uidnext == Max({catalog.uidnext[View]} \cup {x.uid + 1 : x \in changes})
             named == history.named \cup Seen(changes)
             deleted == IF history.deleted # None /\ history.deleted.current # daemon.config
                        THEN None ELSE history.deleted
             reverted == history.reverted \/ (catalog.refreshed # None /\ catalog.refreshed.config # daemon.config)
             todo == {p \in daemon.todo : p[1] > c}
  <1>6. catalog' = [catalog EXCEPT !.rows = rows, !.names[View] = name, !.uidnext[View] = uidnext]
    BY <1>2, <1>5 DEF Commit, Committed
  <1>7. history' = [history EXCEPT !.named = named, !.deleted = deleted, !.reverted = reverted]
    BY <1>2, <1>5 DEF Commit
  <1>8. PICK order \in [1 .. Cardinality(changes) -> changes] :
          /\ IsInjective(order)
          /\ daemon' = [daemon EXCEPT
               !.pending = [i \in DOMAIN order |-> [kind |-> "view", row |-> order[i]]],
               !.todo = {p \in @ : p[1] > c}]
    BY <1>2, <1>5 DEF Commit
  <1> DEFINE pending == [i \in DOMAIN order |-> [kind |-> "view", row |-> order[i]]]
  <1>9. daemon' = [daemon EXCEPT !.pending = pending, !.todo = todo]
    BY <1>8
  <1>10. name \in Names
    BY <1>4 DEF Names, View
  <1>11. deleted \in {None} \cup Copies
    BY <1>3 DEF Histories
  <1>12. reverted \in BOOLEAN /\ (reverted <=> history.reverted \/
           (catalog.refreshed # None /\ catalog.refreshed.config # daemon.config))
    BY <1>3 DEF Histories
  <1>13. todo \in SUBSET (Messages \X Messages)
    BY <1>3 DEF Daemons
  <1> HIDE DEF rows, name, uidnext, deleted, reverted
  <1>14. /\ catalog'.rows = rows /\ catalog'.facts = catalog.facts /\ catalog'.expunged = catalog.expunged
         /\ catalog'.applied = catalog.applied /\ catalog'.refreshed = catalog.refreshed
         /\ catalog'.uidnext = [catalog.uidnext EXCEPT ![View] = uidnext]
    BY <1>3, <1>6 DEF Catalogs
  <1>15. /\ history'.named = named /\ history'.lost = history.lost /\ history'.reverted = reverted
    <2> HIDE DEF named
    <2> QED
      BY <1>3, <1>7 DEF Histories
  <1>16. /\ daemon'.pending = pending /\ daemon'.todo = todo /\ daemon'.pc = daemon.pc
         /\ daemon'.config = daemon.config /\ daemon'.scope = daemon.scope
         /\ daemon'.since = daemon.since /\ daemon'.full = daemon.full /\ daemon'.latest = daemon.latest
    <2> HIDE DEF pending, todo
    <2> QED
      BY <1>3, <1>9 DEF Daemons
  <1>17. BatchDone(c, changes, order, uidnext)
    BY <1>1, <1>5, <1>8, <1>12, <1>14, <1>15, <1>16 DEF BatchDone, FactsSame, rows, uidnext
  <1>18. /\ changes \subseteq Rows /\ IsFiniteSet(changes) /\ rows \subseteq Rows /\ IsFiniteSet(rows)
         /\ uidnext \in Nat
    BY <1>14, <1>17, BatchParts
  <1>19. catalog' \in Catalogs
    BY <1>3, <1>4, <1>6, <1>10, <1>18 DEF Catalogs
  <1>20. pending \in Seq(ViewRecords)
    <2>1. Cardinality(changes) \in Nat /\ DOMAIN order = 1 .. Cardinality(changes)
      BY <1>18, FS_CardinalityType
    <2>2. \A i \in 1 .. Cardinality(changes) : [kind |-> "view", row |-> order[i]] \in ViewRecords
      BY <1>18, <2>1 DEF ViewRecords
    <2>3. pending \in [1 .. Cardinality(changes) -> ViewRecords]
      BY <2>1, <2>2
    <2> HIDE DEF pending
    <2> QED
      BY <2>1, <2>3, SeqDef
  <1>21. daemon' \in Daemons
    <2> HIDE DEF pending, todo
    <2> QED
      BY <1>3, <1>9, <1>13, <1>20 DEF Daemons
  <1>22. named \in SUBSET (Views \X Nat \X Messages)
    BY <1>3, <1>18 DEF Histories, Seen, Rows
  <1>23. history' \in Histories
    <2> HIDE DEF named
    <2> QED
      BY <1>3, <1>7, <1>11, <1>12, <1>22 DEF Histories
  <1>24. Typed'
    BY <1>1, <1>3, <1>14, <1>18, <1>19, <1>21, <1>23 DEF Typed
  <1> QED
    BY <1>17, <1>24

(* A new row's UID is past every UID that was named, a changed one's is    *)
(* its row's.                                                              *)
LEMMA BatchUids ==
  ASSUME IInv, NEW c, NEW changes, NEW order, NEW uidnext, BatchDone(c, changes, order, uidnext)
  PROVE  UidInv'
  <1>1. Typed /\ PassInv /\ UidInv /\ Working
    BY DEF IInv, BatchDone, Working
  <1>2. /\ IsFiniteSet(changes)
        /\ \A x \in changes : /\ x.view = View /\ x.uid \in Nat
                              /\ HasRow(x) \/ catalog.uidnext[View] <= x.uid
        /\ \A x, y \in changes : x.uid = y.uid => x = y \/ HasRow(x) \/ HasRow(y)
        /\ uidnext \in Nat /\ catalog.uidnext[View] <= uidnext /\ \A x \in changes : x.uid < uidnext
    BY BatchParts
  <1>3. /\ catalog'.rows = Committed(changes) /\ catalog'.applied = catalog.applied
        /\ catalog'.uidnext = [catalog.uidnext EXCEPT ![View] = uidnext]
        /\ daemon.pending = << >>
        /\ order \in [1 .. Cardinality(changes) -> changes]
        /\ IsInjective(order)
        /\ daemon'.pending = [i \in DOMAIN order |-> [kind |-> "view", row |-> order[i]]]
        /\ daemon'.pc = daemon.pc
        /\ history'.named = history.named \cup Seen(changes) /\ history'.lost = history.lost
        /\ journal' = journal
    BY DEF BatchDone, FactsSame
  <1>4. /\ View \in Views /\ catalog.uidnext \in [Views -> Nat] /\ catalog.applied \in Nat
        /\ history.named \subseteq Views \X Nat \X Messages
        /\ catalog.applied <= Len(journal) /\ journal \in Seq(Records)
    BY <1>1, ViewOfRefresh DEF Typed, Catalogs, Histories, PassInv
  <1>5. (\A i : IsView(i)' <=> IsView(i)) /\ Working'
    BY <1>1, <1>3 DEF IsView, Working
  <1>6. \A i \in DOMAIN daemon'.pending : i \in DOMAIN order /\ daemon'.pending[i].row = order[i] /\ order[i] \in changes
    BY <1>3
  <1>7. \A x \in changes : \E i \in DOMAIN daemon'.pending : daemon'.pending[i].row = x
    <2> SUFFICES ASSUME NEW x \in changes PROVE \E i \in DOMAIN daemon'.pending : daemon'.pending[i].row = x
      OBVIOUS
    <2>1. PICK i \in DOMAIN order : order[i] = x
      <3>1. Ordered(order, changes)
        BY <1>3 DEF Ordered
      <3>2. IsFiniteSet(changes) /\ changes \subseteq Rows
        BY BatchParts
      <3> QED
        BY <3>1, <3>2, OrderHasAll
    <2> QED
      BY <1>3, <2>1
  <1>8. \A t \in Seen(changes) : \E x \in changes : t = SeenAs(x)
    BY DEF Seen, SeenAs
  <1>9. \A x \in changes : SeenAs(x) \in Seen(changes)
    BY DEF Seen, SeenAs
  <1>10. \A x \in changes : SeenAs(x) \in history.named \/ catalog.uidnext[View] <= x.uid
    <2> SUFFICES ASSUME NEW x \in changes, HasRow(x) PROVE SeenAs(x) \in history.named
      BY <1>2
    <2>1. PICK r \in catalog.rows : SameMembership(r, x) /\ r.uid = x.uid
      BY DEF HasRow
    <2>2. SeenAs(x) = SeenAs(r) /\ SeenAs(r) \in Seen(catalog.rows)
      BY <2>1 DEF SeenAs, SameMembership, Seen
    <2> QED
      BY <1>1, <2>2 DEF UidInv, RowsNamed
  <1>11. \A v \in Views : catalog.uidnext[v] <= catalog'.uidnext[v] /\ catalog'.uidnext[v] \in Nat /\ catalog.uidnext[v] \in Nat
    BY <1>2, <1>3, <1>4
  <1>12. catalog'.uidnext[View] = uidnext
    BY <1>3, <1>4
  <1>13. RowsNamed'
    <2>1. \A r \in catalog'.rows : SeenAs(r) \in history'.named
      <3>1. \A r \in catalog.rows : SeenAs(r) \in history.named
        BY <1>1 DEF UidInv, RowsNamed, Seen, SeenAs
      <3> QED
        BY <1>3, <1>9, <3>1 DEF Committed
    <2>2. Seen(catalog'.rows) \subseteq history'.named
      BY <2>1 DEF Seen, SeenAs
    <2>3. \A i \in DOMAIN journal' : IsView(i)' => SeenAs(journal'[i].row) \in history'.named
      BY <1>1, <1>3, <1>5 DEF UidInv, RowsNamed
    <2>4. \A i \in DOMAIN daemon'.pending : SeenAs(daemon'.pending[i].row) \in history'.named
      BY <1>3, <1>6, <1>9
    <2> QED
      BY <2>2, <2>3, <2>4 DEF RowsNamed, Seen, SeenAs
  <1>14. NamedRecorded'
    <2> SUFFICES ASSUME ~history.lost, NEW t \in history'.named
                 PROVE  \/ \E i \in DOMAIN journal' : IsView(i)' /\ t = SeenAs(journal'[i].row)
                        \/ \E i \in DOMAIN daemon'.pending : t = SeenAs(daemon'.pending[i].row)
      BY <1>3 DEF NamedRecorded, SeenAs
    <2>1. CASE t \in history.named
      <3>1. DOMAIN daemon.pending = {}
        BY <1>3
      <3> QED
        BY <1>1, <1>3, <1>5, <2>1, <3>1 DEF UidInv, NamedRecorded
    <2>2. CASE t \in Seen(changes)
      BY <1>7, <1>8, <2>2
    <2> QED
      BY <1>3, <2>1, <2>2
  <1>15. AppliedPast'
    <2> SUFFICES ASSUME NEW i \in 1 .. catalog.applied, IsView(i)
                 PROVE  journal[i].row.uid < catalog'.uidnext[journal[i].row.view]
      BY <1>3, <1>5 DEF AppliedPast
    <2>1. journal[i].row.uid < catalog.uidnext[journal[i].row.view]
      BY <1>1 DEF UidInv, AppliedPast
    <2>2. journal[i] \in Records
      <3>1. i \in 1 .. Len(journal)
        BY <1>4, LenProperties
      <3> QED
        BY <1>4, <3>1, ElementOfSeq
    <2>3. journal[i].row \in Rows
      BY <2>2 DEF IsView, Records, ViewRecords
    <2>4. journal[i].row.view \in Views /\ journal[i].row.uid \in Nat
      BY <2>3 DEF Rows
    <2> QED
      BY <1>11, <2>1, <2>4
  <1>16. NamedPast'
    <2> SUFFICES ASSUME ~history.lost, NEW t \in history'.named PROVE t[2] < catalog'.uidnext[t[1]]
      BY <1>3 DEF NamedPast
    <2>1. CASE t \in history.named
      <3>1. t[1] \in Views /\ t[2] \in Nat
        BY <1>4, <2>1
      <3>2. t[2] < catalog.uidnext[t[1]]
        BY <1>1, <2>1 DEF UidInv, NamedPast
      <3> QED
        BY <1>11, <3>1, <3>2
    <2>2. CASE t \in Seen(changes)
      <3>1. PICK x \in changes : t = SeenAs(x)
        BY <1>8, <2>2
      <3>2. t[1] = View /\ t[2] = x.uid
        BY <1>2, <3>1 DEF SeenAs
      <3> QED
        BY <1>2, <1>12, <3>2
    <2> QED
      BY <1>3, <2>1, <2>2
  <1>17. UidsNameOneMessage'
    <2> SUFFICES ASSUME ~history.lost, NEW a \in history'.named, NEW b \in history'.named,
                        a[1] = b[1], a[2] = b[2]
                 PROVE  a[3] = b[3]
      BY <1>3 DEF UidsNameOneMessage
    <2>1. \A t, u \in history.named : t[1] = u[1] /\ t[2] = u[2] => t[3] = u[3]
      BY <1>1 DEF UidInv, UidsNameOneMessage
    <2>2. \A t \in history.named, x \in changes :
            t[1] = View /\ t[2] = x.uid => SeenAs(x) \in history.named
      <3> SUFFICES ASSUME NEW t \in history.named, NEW x \in changes, t[1] = View, t[2] = x.uid,
                          SeenAs(x) \notin history.named
                   PROVE  FALSE
        OBVIOUS
      <3>1. catalog.uidnext[View] <= x.uid /\ x.uid \in Nat /\ catalog.uidnext[View] \in Nat
        BY <1>2, <1>4, <1>10
      <3>2. t[2] < catalog.uidnext[t[1]]
        BY <1>1 DEF UidInv, NamedPast
      <3> QED
        BY <3>1, <3>2
    <2>3. \A x \in changes : SeenAs(x)[1] = View /\ SeenAs(x)[2] = x.uid /\ SeenAs(x)[3] = x.msg
      BY <1>2 DEF SeenAs
    <2>4. ASSUME NEW t \in history.named, NEW x \in changes, t[1] = View, t[2] = x.uid
          PROVE  t[3] = x.msg
      BY <2>1, <2>2, <2>3, <2>4
    <2>5. ASSUME NEW x \in changes, NEW y \in changes, x.uid = y.uid PROVE x.msg = y.msg
      <3>1. \A z \in changes : HasRow(z) => SeenAs(z) \in history.named
        <4> SUFFICES ASSUME NEW z \in changes, HasRow(z) PROVE SeenAs(z) \in history.named
          OBVIOUS
        <4>1. PICK r \in catalog.rows : SameMembership(r, z) /\ r.uid = z.uid
          BY DEF HasRow
        <4>2. SeenAs(z) = SeenAs(r) /\ SeenAs(r) \in Seen(catalog.rows)
          BY <4>1 DEF SeenAs, SameMembership, Seen
        <4> QED
          BY <1>1, <4>2 DEF UidInv, RowsNamed
      <3>2. CASE x = y
        BY <3>2
      <3>3. CASE HasRow(x)
        BY <2>3, <2>4, <2>5, <3>1, <3>3
      <3>4. CASE HasRow(y)
        BY <2>3, <2>4, <2>5, <3>1, <3>4
      <3> QED
        BY <1>2, <2>5, <3>2, <3>3, <3>4
    <2>6. CASE a \in history.named /\ b \in history.named
      BY <2>1, <2>6
    <2>7. CASE a \in history.named /\ b \in Seen(changes)
      BY <1>8, <2>3, <2>4, <2>7
    <2>8. CASE a \in Seen(changes) /\ b \in history.named
      BY <1>8, <2>3, <2>4, <2>8
    <2>9. CASE a \in Seen(changes) /\ b \in Seen(changes)
      BY <1>8, <2>3, <2>5, <2>9
    <2> QED
      BY <1>3, <2>6, <2>7, <2>8, <2>9
  <1> QED
    BY <1>13, <1>14, <1>15, <1>16, <1>17 DEF UidInv

(* What is left to evaluate are whole components still.                    *)
LEMMA BatchTodo ==
  ASSUME IInv, NEW c, NEW changes, NEW order, NEW uidnext, BatchDone(c, changes, order, uidnext)
  PROVE  TodoInv'
  <1>1. /\ daemon'.todo = {p \in daemon.todo : p[1] > c} /\ daemon.pc = "refreshing" /\ FactsSame
        /\ daemon'.pc = daemon.pc /\ daemon'.config = daemon.config /\ daemon'.scope = daemon.scope
        /\ daemon'.since = daemon.since /\ daemon'.full = daemon.full
    BY DEF BatchDone
  <1>2. \A p, q \in daemon'.todo : p[2] = q[2] => p = q
    BY <1>1 DEF IInv, TodoInv
  <1>3. ASSUME NEW config \in Configs, NEW scope \in Nat, NEW since \in Nat, NEW full \in BOOLEAN,
               AtWork(config, scope, since, full)',
               NEW p \in daemon'.todo, NEW n \in Messages,
               <<p[2], n>> \in Reach(config.scopes[scope], since, full)'
        PROVE  <<p[1], n>> \in daemon'.todo
    <2>1. AtWork(config, scope, since, full)
      BY <1>1, <1>3 DEF AtWork
    <2>2. <<p[2], n>> \in Reach(config.scopes[scope], since, full)
      BY <1>1, <1>3, SameTruth
    <2>3. p \in daemon.todo /\ p[1] > c
      BY <1>1
    <2>4. <<p[1], n>> \in daemon.todo
      BY <1>1, <2>1, <2>2, <2>3 DEF IInv, TodoInv
    <2> QED
      BY <1>1, <2>3, <2>4
  <1> QED
    BY <1>2, <1>3 DEF TodoInv

(* Rows that wait for their records are behind it, and those of the batch  *)
(* come to be.                                                             *)
LEMMA BatchRows ==
  ASSUME IInv, NEW c, NEW changes, NEW order, NEW uidnext, BatchDone(c, changes, order, uidnext)
  PROVE  RowsInv'
  <1> DEFINE batch == BatchThrough(c)
  <1>1. Typed /\ PassInv /\ RowsInv /\ Working
    BY DEF IInv, BatchDone, Working
  <1>2. /\ batch \subseteq Todo /\ Todo' \subseteq Todo /\ Todo' \cap batch = {}
        /\ \A x \in changes : x.view = View /\ x.msg \in batch
        /\ changes \subseteq catalog'.rows
        /\ \A r, s \in catalog'.rows : SameMembership(r, s) => r = s
        /\ \A r : ~(r.view = View /\ r.msg \in batch) => (r \in catalog'.rows <=> r \in catalog.rows)
    BY BatchParts
  <1>3. /\ catalog'.applied = catalog.applied /\ catalog'.refreshed = catalog.refreshed
        /\ daemon.pc = "refreshing" /\ daemon'.pc = daemon.pc /\ daemon'.config = daemon.config
        /\ daemon'.scope = daemon.scope /\ journal' = journal
        /\ order \in [1 .. Cardinality(changes) -> changes]
        /\ daemon'.pending = [i \in DOMAIN order |-> [kind |-> "view", row |-> order[i]]]
    BY DEF BatchDone, FactsSame
  <1>4. /\ daemon.scope \in DOMAIN daemon.config.scopes /\ View = daemon.config.scopes[daemon.scope]
        /\ DOMAIN daemon.config.scopes = 1 .. Len(daemon.config.scopes)
        /\ Len(daemon.config.scopes) \in Nat
        /\ \A i \in DOMAIN daemon.config.scopes : daemon.config.scopes[i] = View => i = daemon.scope
    BY <1>1, ViewOfRefresh
  <1> HIDE DEF batch
  <1>5. Unapplied' = Unapplied
    BY <1>3 DEF Unapplied, IsView
  <1>6. ASSUME NEW view, NEW m, Behind(view, m) PROVE ~(view = View /\ m \in batch)
    <2> SUFFICES ASSUME view = View, m \in batch PROVE FALSE
      OBVIOUS
    <2>1. PICK i \in 1 .. daemon.scope : /\ view = daemon.config.scopes[i]
                                         /\ i = daemon.scope => daemon.pc = "refreshing" /\ m \notin Todo
      BY <1>6 DEF Behind
    <2>2. i \in DOMAIN daemon.config.scopes
      BY <1>4
    <2>3. i = daemon.scope
      BY <1>4, <2>1, <2>2
    <2> QED
      BY <1>2, <2>1, <2>3
  <1>7. ASSUME NEW view, NEW m, Behind(view, m) PROVE Behind(view, m)'
    BY <1>2, <1>3, <1>7 DEF Behind
  <1>8. ASSUME NEW i \in Unapplied'
        PROVE  journal'[i].row \in catalog'.rows /\ Behind(journal[i].row.view, journal[i].row.msg)'
    <2>1. journal[i].row \in catalog.rows /\ Behind(journal[i].row.view, journal[i].row.msg)
      BY <1>1, <1>5 DEF RowsInv
    <2>2. PICK view, m : view = journal[i].row.view /\ m = journal[i].row.msg
                         /\ view = journal'[i].row.view /\ m = journal'[i].row.msg
      BY <1>3
    <2>3. Behind(view, m) /\ Behind(view, m)'
      BY <1>7, <2>1, <2>2
    <2>4. journal'[i].row \in catalog'.rows
      BY <1>2, <1>3, <1>6, <2>1, <2>2, <2>3
    <2>5. Behind(journal[i].row.view, journal[i].row.msg)'
      BY <2>2, <2>3 DEF Behind
    <2> QED
      BY <2>4, <2>5
  <1>9. ASSUME NEW i \in DOMAIN daemon'.pending
        PROVE  daemon'.pending[i].row \in catalog'.rows
               /\ Behind(daemon.pending[i].row.view, daemon.pending[i].row.msg)'
    <2>1. PICK x \in changes : daemon'.pending[i].row = x
      BY <1>3
    <2>2. x.view = daemon'.config.scopes[daemon'.scope] /\ daemon'.scope \in 1 .. daemon'.scope /\ x.msg \notin Todo'
      BY <1>2, <1>3, <1>4
    <2> QED
      BY <1>2, <1>3, <2>1, <2>2 DEF Behind
  <1>10. catalog'.refreshed # None => catalog'.refreshed.sequence \in 1 .. catalog'.applied
    BY <1>1, <1>3 DEF RowsInv
  <1> QED
    BY <1>2, <1>8, <1>9, <1>10 DEF RowsInv, SameMembership

(* The batch is right under these rules; under the ones known before, only *)
(* if they are these.                                                      *)
LEMMA BatchShown ==
  ASSUME IInv, NEW c, NEW changes, NEW order, NEW uidnext, BatchDone(c, changes, order, uidnext)
  PROVE  ShownInv'
  <1> DEFINE batch == BatchThrough(c)
  <1>1. Typed /\ PassInv /\ ShownInv /\ Working
    BY DEF IInv, BatchDone, Working
  <1>2. /\ batch \subseteq Todo /\ Todo' \subseteq Todo /\ Todo \ Todo' \subseteq batch
        /\ \A r : ~(r.view = View /\ r.msg \in batch) => (r \in catalog'.rows <=> r \in catalog.rows)
        /\ \A m \in batch : RightAt(daemon.config, View, m)'
    BY BatchParts
  <1>3. /\ FactsSame /\ catalog'.refreshed = catalog.refreshed
        /\ daemon.pc = "refreshing" /\ daemon'.pc = daemon.pc /\ daemon'.config = daemon.config
        /\ daemon'.scope = daemon.scope /\ daemon'.since = daemon.since /\ daemon'.full = daemon.full
        /\ history'.reverted <=>
             history.reverted \/ (catalog.refreshed # None /\ catalog.refreshed.config # daemon.config)
    BY DEF BatchDone
  <1>4. /\ daemon.scope \in DOMAIN daemon.config.scopes /\ View = daemon.config.scopes[daemon.scope]
        /\ DOMAIN daemon.config.scopes = 1 .. Len(daemon.config.scopes)
        /\ Len(daemon.config.scopes) \in Nat
        /\ \A i \in DOMAIN daemon.config.scopes : daemon.config.scopes[i] = View => i = daemon.scope
    BY <1>1, ViewOfRefresh
  <1> HIDE DEF batch
  <1>5. \A view, since, full : Due(view, since, full)' = Due(view, since, full)
    BY <1>3, SameTruth
  <1>6. ASSUME NEW config, NEW view, NEW m, RightAt(config, view, m), ~(view = View /\ m \in batch)
        PROVE  RightAt(config, view, m)'
    <2>1. RowsOf(view, m)' = RowsOf(view, m)
      BY <1>2, <1>6 DEF RowsOf
    <2>2. Truth(config, view)' = Truth(config, view)
      BY <1>3, SameTruth
    <2> QED
      BY <1>6, <2>1, <2>2 DEF RightAt
  <1>7. ASSUME NEW config, config = daemon.config, NEW view, view = View, NEW m \in batch
        PROVE  RightAt(config, view, m)'
    <2>1. RightAt(daemon.config, View, m)'
      BY <1>2
    <2> QED
      BY <1>3, <1>7, <2>1 DEF RightAt, View
  <1>8. ASSUME NEW config, config = daemon.config, NEW view, NEW since, NEW full, Shown(config, view, since, full)
        PROVE  Shown(config, view, since, full)'
    BY <1>5, <1>6, <1>7, <1>8 DEF Shown
  <1>9. ASSUME NEW config \in Configs, NEW since \in Nat, ~history'.reverted,
               catalog'.refreshed # None, catalog'.refreshed = [config |-> config, sequence |-> since],
               NEW i \in DOMAIN config.scopes
        PROVE  Shown(config, config.scopes[i], since, FALSE)'
    <2>1. config = daemon.config /\ ~history.reverted
      BY <1>3, <1>9
    <2>2. Shown(config, config.scopes[i], since, FALSE)
      BY <1>1, <1>3, <1>9, <2>1 DEF ShownInv
    <2> QED
      BY <1>8, <2>1, <2>2
  <1>10. ASSUME NEW config \in Configs, NEW scope \in Nat, NEW since \in Nat, NEW full \in BOOLEAN,
                AtWork(config, scope, since, full)', full \/ ~history'.reverted
         PROVE  Within(config, scope, since, full)'
    <2>1. AtWork(config, scope, since, full) /\ config = daemon.config /\ scope = daemon.scope
      BY <1>3, <1>10 DEF AtWork
    <2>2. Within(config, scope, since, full)
      BY <1>1, <1>3, <1>10, <2>1 DEF ShownInv
    <2>3. ASSUME NEW i \in DOMAIN config.scopes, i < scope, NEW m \in Messages
          PROVE  RightAt(config, config.scopes[i], m)'
      <3>1. config.scopes[i] # View
        BY <1>4, <2>1, <2>3
      <3>2. RightAt(config, config.scopes[i], m)
        BY <2>2, <2>3 DEF Within
      <3> QED
        BY <1>6, <3>1, <3>2
    <2>4. ASSUME NEW i \in DOMAIN config.scopes, i = scope, NEW m \in Messages \ Todo'
          PROVE  RightAt(config, config.scopes[i], m)'
      <3>1. CASE m \in batch
        BY <1>4, <1>7, <2>1, <2>4, <3>1
      <3>2. CASE m \notin batch
        <4>1. m \notin Todo
          BY <1>2, <3>2
        <4>2. RightAt(config, config.scopes[i], m)
          BY <1>3, <2>2, <2>4, <4>1 DEF Within
        <4> QED
          BY <1>6, <3>2, <4>2
      <3> QED
        BY <3>1, <3>2
    <2>5. ASSUME NEW i \in DOMAIN config.scopes, scope < i
          PROVE  Shown(config, config.scopes[i], since, full)'
      <3>1. Shown(config, config.scopes[i], since, full)
        BY <2>2, <2>5 DEF Within
      <3> QED
        BY <1>8, <2>1, <3>1
    <2>6. daemon'.pc = "refreshing"
      BY <1>3
    <2> QED
      BY <2>3, <2>4, <2>5, <2>6 DEF Within
  <1> QED
    BY <1>9, <1>10 DEF ShownInv

(* A batch keeps the invariant.                                            *)
LEMMA RefreshBatchStep ==
  ASSUME IInv, RefreshBatch
  PROVE  IInv'
  <1>1. Typed'
    BY BatchIsDone
  <1>2. PICK c, changes, order, uidnext : BatchDone(c, changes, order, uidnext)
    BY BatchIsDone
  <1>3. UidInv' /\ TodoInv' /\ RowsInv' /\ ShownInv'
    BY <1>2, BatchUids, BatchTodo, BatchRows, BatchShown
  <1>4. /\ Typed /\ PassInv /\ FactsInv /\ FactsSame /\ journal' = journal
        /\ catalog'.refreshed = catalog.refreshed /\ catalog'.applied = catalog.applied
        /\ daemon.pc = "refreshing" /\ daemon'.pc = daemon.pc /\ daemon'.config = daemon.config
        /\ daemon'.scope = daemon.scope /\ daemon'.since = daemon.since /\ daemon'.full = daemon.full
        /\ daemon'.latest = daemon.latest
    BY <1>2 DEF IInv, BatchDone, FactsSame
  <1>5. PassInv'
    <2>1. Latest' = Latest
      BY <1>4, SameTruth
    <2> QED
      BY <1>4, <2>1 DEF PassInv, Working
  <1>6. FactsInv'
    BY <1>4, SameFactsInv DEF PassInv
  <1> QED
    BY <1>1, <1>3, <1>5, <1>6 DEF IInv

-----------------------------------------------------------------------------
(* Applying a record                                                       *)

(* What applying record n does, whatever its kind.                         *)
RecordApplied(n) ==
  /\ daemon.pc = "applying" /\ n = catalog.applied + 1 /\ n <= daemon.scan
  /\ journal' = journal /\ daemon' = daemon /\ history' = history
  /\ catalog'.applied = n /\ catalog'.refreshed = catalog.refreshed
  /\ \A f \in Facts :
       /\ \/ catalog'.facts[f] = catalog.facts[f]
          \/ catalog'.facts[f].sequence = n
       /\ catalog'.facts[f].active <=>
            IF n \in About(f) THEN journal[n].kind # "retract" ELSE catalog.facts[f].active
  /\ \A m \in Messages :
       catalog'.expunged[m] = IF journal[n].kind = "expunge" /\ journal[n].msg = m
                              THEN n ELSE catalog.expunged[m]
  /\ \A v \in Views : catalog.uidnext[v] <= catalog'.uidnext[v]
  /\ IF IsView(n)
     THEN /\ journal[n].row.uid < catalog'.uidnext[journal[n].row.view]
          /\ catalog'.rows = {r \in catalog.rows : ~SameMembership(r, journal[n].row)} \cup {journal[n].row}
     ELSE catalog'.rows = catalog.rows

(* The last record about a fact is the new one, or the one it was.         *)
LEMMA AppliedFacts ==
  ASSUME IInv, NEW n, RecordApplied(n)
  PROVE  FactsInv'
  <1>1. /\ Typed /\ PassInv /\ FactsInv /\ catalog.applied \in Nat /\ n = catalog.applied + 1
        /\ n <= Len(journal) /\ DOMAIN journal = 1 .. Len(journal) /\ Len(journal) \in Nat
        /\ journal' = journal /\ catalog'.applied = n
    <2>1. /\ Typed /\ PassInv /\ FactsInv /\ catalog.applied \in Nat /\ n = catalog.applied + 1
          /\ n <= daemon.scan /\ daemon.scan \in 1 .. Len(journal)
          /\ journal' = journal /\ catalog'.applied = n
      BY DEF IInv, RecordApplied, PassInv, Typed, Catalogs
    <2>2. DOMAIN journal = 1 .. Len(journal) /\ Len(journal) \in Nat
      BY <2>1, LenProperties DEF Typed
    <2> QED
      BY <2>1, <2>2
  <1>2. n \in DOMAIN journal /\ n \in 1 .. n /\ n \notin 1 .. catalog.applied
        /\ 1 .. n = (1 .. catalog.applied) \cup {n}
    BY <1>1
  <1>3. \A f : About(f)' = About(f)
    BY <1>1 DEF About
  <1>4. ASSUME NEW f \in Facts
        PROVE  LastSays(f, n) <=> IF n \in About(f) THEN journal[n].kind # "retract"
                                  ELSE LastSays(f, catalog.applied)
    <2>1. CASE n \in About(f)
      <3>1. ASSUME journal[n].kind # "retract" PROVE LastSays(f, n)
        <4>1. \A j \in 1 .. n : j <= n
          BY <1>1
        <4> QED
          BY <1>2, <2>1, <3>1, <4>1 DEF LastSays
      <3>2. ASSUME LastSays(f, n) PROVE journal[n].kind # "retract"
        <4>1. PICK i \in 1 .. n : journal[i].kind # "retract" /\ \A j \in 1 .. n : j \in About(f) => j <= i
          BY <3>2 DEF LastSays
        <4>2. n <= i
          BY <1>2, <2>1, <4>1
        <4>3. i = n
          BY <1>1, <4>2
        <4> QED
          BY <4>1, <4>3
      <3> QED
        BY <2>1, <3>1, <3>2
    <2>2. CASE n \notin About(f)
      <3>1. ASSUME LastSays(f, n) PROVE LastSays(f, catalog.applied)
        <4>1. PICK i \in 1 .. n : /\ i \in About(f) /\ journal[i].kind # "retract"
                                  /\ \A j \in 1 .. n : j \in About(f) => j <= i
          BY <3>1 DEF LastSays
        <4>2. i \in 1 .. catalog.applied
          BY <1>2, <2>2, <4>1
        <4> QED
          BY <1>2, <4>1, <4>2 DEF LastSays
      <3>2. ASSUME LastSays(f, catalog.applied) PROVE LastSays(f, n)
        <4>1. PICK i \in 1 .. catalog.applied : /\ i \in About(f) /\ journal[i].kind # "retract"
                                                /\ \A j \in 1 .. catalog.applied : j \in About(f) => j <= i
          BY <3>2 DEF LastSays
        <4>2. i \in 1 .. n /\ \A j \in 1 .. n : j \in About(f) => j <= i
          BY <1>2, <2>2, <4>1
        <4> QED
          BY <4>1, <4>2 DEF LastSays
      <3> QED
        BY <2>2, <3>1, <3>2
    <2> QED
      BY <2>1, <2>2
  <1>5. ASSUME NEW f \in Facts
        PROVE  /\ catalog'.facts[f].active <=> LastSays(f, catalog.applied)'
               /\ catalog'.facts[f].sequence <= n
    <2>1. LastSays(f, catalog.applied)' <=> LastSays(f, n)
      BY <1>1, <1>3 DEF LastSays
    <2>2. catalog.facts[f].active <=> LastSays(f, catalog.applied)
      BY <1>1 DEF FactsInv
    <2>3. catalog'.facts[f].active <=> IF n \in About(f) THEN journal[n].kind # "retract" ELSE catalog.facts[f].active
      BY DEF RecordApplied
    <2>4. catalog.facts[f].sequence <= catalog.applied /\ catalog.facts[f].sequence \in Nat
      BY <1>1 DEF FactsInv, Typed, Catalogs
    <2>5. catalog'.facts[f] = catalog.facts[f] \/ catalog'.facts[f].sequence = n
      BY DEF RecordApplied
    <2>6. catalog'.facts[f].sequence <= n
      BY <1>1, <2>4, <2>5
    <2>7. catalog'.facts[f].active <=> LastSays(f, n)
      BY <1>4, <2>2, <2>3
    <2> QED
      BY <2>1, <2>6, <2>7
  <1>6. ASSUME NEW m \in Messages
        PROVE  /\ catalog'.expunged[m] <= n
               /\ catalog'.expunged[m] # 0 <=> \E i \in 1 .. n : journal[i].kind = "expunge" /\ journal[i].msg = m
    <2>1. catalog'.expunged[m] = IF journal[n].kind = "expunge" /\ journal[n].msg = m
                                 THEN n ELSE catalog.expunged[m]
      BY DEF RecordApplied
    <2>2. /\ catalog.expunged[m] <= catalog.applied /\ catalog.expunged[m] \in Nat
          /\ catalog.expunged[m] # 0 <=> \E i \in 1 .. catalog.applied :
                journal[i].kind = "expunge" /\ journal[i].msg = m
      BY <1>1 DEF FactsInv, Typed, Catalogs
    <2>3. CASE journal[n].kind = "expunge" /\ journal[n].msg = m
      BY <1>1, <1>2, <2>1, <2>3
    <2>4. CASE ~(journal[n].kind = "expunge" /\ journal[n].msg = m)
      <3>1. catalog'.expunged[m] <= n
        BY <1>1, <2>1, <2>2, <2>4
      <3>2. (\E i \in 1 .. n : journal[i].kind = "expunge" /\ journal[i].msg = m) <=>
            \E i \in 1 .. catalog.applied : journal[i].kind = "expunge" /\ journal[i].msg = m
        BY <1>2, <2>4
      <3> QED
        BY <2>1, <2>2, <2>4, <3>1, <3>2
    <2> QED
      BY <2>3, <2>4
  <1> QED
    BY <1>1, <1>5, <1>6 DEF FactsInv

(* Once a refresh has completed, a view record finds the row it made.      *)
LEMMA AppliedRows ==
  ASSUME IInv, Typed', NEW n, RecordApplied(n)
  PROVE  RowsInv' /\ (catalog.refreshed # None => catalog'.rows = catalog.rows)
  <1>1. /\ Typed /\ PassInv /\ RowsInv /\ catalog.applied \in Nat /\ n = catalog.applied + 1
        /\ journal' = journal /\ catalog'.applied = n /\ catalog'.refreshed = catalog.refreshed
        /\ daemon' = daemon /\ daemon.pc = "applying" /\ daemon.pending = << >> /\ ~Working'
    BY DEF IInv, RecordApplied, PassInv, Typed, Catalogs, Working
  <1>2. n \in DOMAIN journal
    <2>1. n \in 1 .. Len(journal)
      <3>1. n <= daemon.scan /\ daemon.scan \in 1 .. Len(journal)
        BY <1>1 DEF RecordApplied, PassInv
      <3>2. Len(journal) \in Nat
        BY <1>1, LenProperties DEF Typed
      <3> QED
        BY <1>1, <3>1, <3>2
    <2> QED
      BY <1>1, <2>1, LenProperties DEF Typed
  <1>3. \A i \in Unapplied' : i \in Unapplied /\ journal'[i] = journal[i]
    <2>1. \A i \in DOMAIN journal : i \in Nat
      BY <1>1, LenProperties DEF Typed
    <2> QED
      BY <1>1, <2>1 DEF Unapplied, IsView
  <1>4. ASSUME catalog.refreshed # None PROVE catalog'.rows = catalog.rows
    <2>1. CASE IsView(n)
      <3>1. n \in Unapplied
        BY <1>1, <1>2, <2>1 DEF Unapplied
      <3>2. journal[n].row \in catalog.rows
        BY <1>1, <1>4, <3>1 DEF RowsInv
      <3>3. \A r \in catalog.rows : SameMembership(r, journal[n].row) => r = journal[n].row
        BY <1>1, <3>2 DEF RowsInv
      <3>4. catalog'.rows = {r \in catalog.rows : ~SameMembership(r, journal[n].row)} \cup {journal[n].row}
        BY <2>1 DEF RecordApplied
      <3> QED
        BY <3>2, <3>3, <3>4
    <2>2. CASE ~IsView(n)
      BY <2>2 DEF RecordApplied
    <2> QED
      BY <2>1, <2>2
  <1>5. \A r, s \in catalog'.rows : SameMembership(r, s) => r = s
    <2>1. \A r, s \in catalog.rows : SameMembership(r, s) => r = s
      BY <1>1 DEF RowsInv
    <2>2. CASE IsView(n)
      <3>1. PICK row : row = journal[n].row
        OBVIOUS
      <3>2. catalog'.rows = {r \in catalog.rows : ~SameMembership(r, row)} \cup {row}
        BY <2>2, <3>1 DEF RecordApplied
      <3>3. \A r, s : SameMembership(r, s) => SameMembership(s, r)
        BY DEF SameMembership
      <3> QED
        BY <2>1, <3>2, <3>3
    <2>3. CASE ~IsView(n)
      BY <2>1, <2>3 DEF RecordApplied
    <2> QED
      BY <2>2, <2>3
  <1>6. ASSUME catalog.refreshed # None
        PROVE  catalog.refreshed.sequence \in 1 .. n /\ \A i \in Unapplied' : journal'[i].row \in catalog'.rows
    <2>1. catalog.refreshed.sequence \in 1 .. catalog.applied /\ \A i \in Unapplied : journal[i].row \in catalog.rows
      BY <1>1, <1>6 DEF RowsInv
    <2> QED
      BY <1>1, <1>3, <1>4, <1>6, <2>1
  <1>7. DOMAIN daemon'.pending = {}
    BY <1>1
  <1>8. RowsInv'
    BY <1>1, <1>5, <1>6, <1>7 DEF RowsInv, SameMembership
  <1> QED
    BY <1>4, <1>8

(* A view record moves uidnext past its UID.                               *)
LEMMA AppliedUids ==
  ASSUME IInv, Typed', NEW n, RecordApplied(n)
  PROVE  UidInv'
  <1>1. /\ Typed /\ PassInv /\ UidInv /\ catalog.applied \in Nat /\ n = catalog.applied + 1
        /\ journal' = journal /\ catalog'.applied = n /\ history' = history
        /\ daemon' = daemon /\ daemon.pc = "applying" /\ daemon.pending = << >> /\ ~Working'
        /\ catalog.uidnext \in [Views -> Nat]
    BY DEF IInv, RecordApplied, PassInv, Typed, Catalogs, Working
  <1>2. DOMAIN journal = 1 .. Len(journal) /\ Len(journal) \in Nat /\ n <= Len(journal)
    <2>1. n <= daemon.scan /\ daemon.scan \in 1 .. Len(journal)
      BY <1>1 DEF RecordApplied, PassInv
    <2>2. Len(journal) \in Nat /\ DOMAIN journal = 1 .. Len(journal)
      BY <1>1, LenProperties DEF Typed
    <2> QED
      BY <1>1, <2>1, <2>2
  <1>3. \A i : IsView(i)' <=> IsView(i)
    BY <1>1 DEF IsView
  <1>4. \A v \in Views : catalog.uidnext[v] <= catalog'.uidnext[v] /\ catalog'.uidnext[v] \in Nat /\ catalog.uidnext[v] \in Nat
    BY <1>1 DEF RecordApplied, Typed, Catalogs
  <1>5. ASSUME NEW i \in DOMAIN journal, IsView(i)
        PROVE  journal[i].row.view \in Views /\ journal[i].row.uid \in Nat /\ SeenAs(journal[i].row) \in history.named
    <2>1. journal[i] \in Records
      BY <1>1, <1>2, ElementOfSeq DEF Typed
    <2>2. journal[i].row \in Rows
      BY <1>5, <2>1 DEF IsView, Records, ViewRecords
    <2> QED
      BY <1>1, <1>5, <2>2 DEF Rows, UidInv, RowsNamed
  <1>6. RowsNamed'
    <2>1. \A r \in catalog.rows : SeenAs(r) \in history.named
      BY <1>1 DEF UidInv, RowsNamed, Seen, SeenAs
    <2>2. \A r \in catalog'.rows : SeenAs(r) \in history.named
      <3>1. CASE IsView(n)
        <4>1. n \in DOMAIN journal
          BY <1>1, <1>2
        <4>2. SeenAs(journal[n].row) \in history.named
          BY <1>5, <3>1, <4>1
        <4> QED
          BY <2>1, <3>1, <4>2 DEF RecordApplied
      <3>2. CASE ~IsView(n)
        BY <2>1, <3>2 DEF RecordApplied
      <3> QED
        BY <3>1, <3>2
    <2>3. Seen(catalog'.rows) \subseteq history.named
      BY <2>2 DEF Seen, SeenAs
    <2> QED
      BY <1>1, <1>3, <2>3 DEF UidInv, RowsNamed, Seen, SeenAs
  <1>7. NamedRecorded' /\ NamedPast' /\ UidsNameOneMessage'
    BY <1>1, <1>3 DEF UidInv, NamedRecorded, NamedPast, UidsNameOneMessage, SeenAs
  <1>8. AppliedPast'
    <2> SUFFICES ASSUME NEW i \in 1 .. n, IsView(i)
                 PROVE  journal[i].row.uid < catalog'.uidnext[journal[i].row.view]
      BY <1>1, <1>3 DEF AppliedPast
    <2>1. CASE i = n
      BY <2>1 DEF RecordApplied
    <2>2. CASE i # n
      <3>1. i \in 1 .. catalog.applied /\ i \in DOMAIN journal
        BY <1>1, <1>2, <2>2
      <3>2. journal[i].row.uid < catalog.uidnext[journal[i].row.view]
        BY <1>1, <3>1 DEF UidInv, AppliedPast
      <3>3. journal[i].row.view \in Views /\ journal[i].row.uid \in Nat
        BY <1>5, <3>1
      <3> QED
        BY <1>4, <3>2, <3>3
    <2> QED
      BY <2>1, <2>2
  <1> QED
    BY <1>6, <1>7, <1>8 DEF UidInv

(* What a record makes wrong is due from then on.                          *)
LEMMA AppliedShown ==
  ASSUME IInv, Typed', NEW n, RecordApplied(n)
  PROVE  ShownInv'
  <1>1. /\ Typed /\ RowsInv /\ ShownInv /\ catalog' \in Catalogs /\ n = catalog.applied + 1
        /\ catalog'.applied = catalog.applied + 1 /\ catalog'.refreshed = catalog.refreshed
        /\ history' = history /\ ~Working' /\ catalog.applied \in Nat
    BY DEF IInv, RecordApplied, Typed, Catalogs, Working
  <1>2. /\ \A f \in Facts : \/ catalog'.facts[f] = catalog.facts[f]
                            \/ catalog'.facts[f].sequence = catalog.applied + 1
        /\ \A m \in Messages : \/ catalog'.expunged[m] = catalog.expunged[m]
                               \/ catalog'.expunged[m] = catalog.applied + 1
    BY <1>1 DEF RecordApplied
  <1>3. ASSUME NEW config \in Configs, NEW since \in Nat, ~history.reverted,
               catalog.refreshed # None, catalog.refreshed = [config |-> config, sequence |-> since],
               NEW i \in DOMAIN config.scopes
        PROVE  Shown(config, config.scopes[i], since, FALSE)'
    <2>1. PICK view : view = config.scopes[i]
      OBVIOUS
    <2>2. view \in Views
      BY <2>1, ElementOfSeq, LenProperties, ViewsAssumption
    <2>3. since \in 1 .. catalog.applied
      BY <1>1, <1>3 DEF RowsInv
    <2>4. catalog'.rows = catalog.rows
      BY <1>3, AppliedRows
    <2>5. Shown(config, view, since, FALSE)
      BY <1>1, <1>3, <2>1 DEF ShownInv
    <2>6. ASSUME NEW m \in Messages, m \notin Due(view, since, FALSE)'
          PROVE  RightAt(config, view, m)'
      <3>1. m \notin Due(view, since, FALSE) /\ (RightAt(config, view, m) => RightAt(config, view, m)')
        BY <1>1, <1>2, <2>2, <2>3, <2>4, <2>6, ChangesMakeDue
      <3> QED
        BY <2>5, <3>1 DEF Shown
    <2> QED
      BY <2>1, <2>6 DEF Shown
  <1> QED
    BY <1>1, <1>3 DEF ShownInv

(* Each kind of record does so, and only that.                             *)
LEMMA RecordIsApplied ==
  ASSUME IInv, NEW n, n = catalog.applied + 1, daemon.pc = "applying", n <= daemon.scan,
         journal' = journal, daemon' = daemon, bound' = bound,
         \/ /\ IsView(n)
            /\ catalog' = [catalog EXCEPT
                 !.rows = (@ \ {r \in catalog.rows : SameMembership(r, journal[n].row)}) \cup {journal[n].row},
                 !.uidnext[journal[n].row.view] = UidnextPast(journal[n].row), !.applied = @ + 1]
            /\ history' = [history EXCEPT !.named = @ \cup Seen({journal[n].row})]
         \/ /\ journal[n].kind \in {"delivered", "insert", "retract"} /\ history' = history
            /\ catalog' = [catalog EXCEPT !.facts = FactsAfter(journal[n], n), !.applied = @ + 1]
         \/ /\ journal[n].kind = "expunge" /\ history' = history
            /\ catalog' = [catalog EXCEPT !.expunged[journal[n].msg] = n, !.applied = @ + 1]
  PROVE  Typed' /\ RecordApplied(n)
  <1>1. /\ Typed /\ PassInv /\ UidInv /\ catalog \in Catalogs /\ history \in Histories /\ catalog.applied \in Nat
        /\ n \in Nat /\ journal \in Seq(Records)
    BY DEF IInv, Typed, Catalogs
  <1>2. n \in DOMAIN journal /\ journal[n] \in Records
    <2>1. daemon.scan \in 1 .. Len(journal) /\ Len(journal) \in Nat /\ DOMAIN journal = 1 .. Len(journal)
      BY <1>1, LenProperties DEF PassInv
    <2>2. n \in 1 .. Len(journal)
      BY <1>1, <2>1
    <2> QED
      BY <1>1, <2>1, <2>2, ElementOfSeq
  <1> DEFINE applied == catalog.applied + 1
  <1>3. applied = n
    OBVIOUS
  <1> HIDE DEF applied
  <1>4. CASE /\ IsView(n)
             /\ catalog' = [catalog EXCEPT
                  !.rows = (@ \ {r \in catalog.rows : SameMembership(r, journal[n].row)}) \cup {journal[n].row},
                  !.uidnext[journal[n].row.view] = UidnextPast(journal[n].row), !.applied = @ + 1]
             /\ history' = [history EXCEPT !.named = @ \cup Seen({journal[n].row})]
    <2>1. PICK row \in Rows : row = journal[n].row /\ SeenAs(row) \in history.named
      <3>1. journal[n].row \in Rows
        BY <1>2, <1>4 DEF IsView, Records, ViewRecords
      <3> QED
        BY <1>1, <1>2, <1>4, <3>1 DEF UidInv, RowsNamed
    <2> DEFINE rows == {r \in catalog.rows : ~SameMembership(r, row)} \cup {row}
               past == UidnextPast(row)
               named == history.named \cup Seen({row})
    <2>2. row.view \in Views /\ row.uid \in Nat /\ catalog.uidnext[row.view] \in Nat
      BY <1>1 DEF Rows, Catalogs
    <2>3. past \in Nat /\ catalog.uidnext[row.view] <= past /\ row.uid < past
      <3>1. past = Max({catalog.uidnext[row.view]} \cup {x.uid + 1 : x \in {row}})
        <4>1. {catalog.uidnext[row.view]} \cup {x.uid + 1 : x \in {row}} = {catalog.uidnext[row.view], row.uid + 1}
          OBVIOUS
        <4> QED
          BY <4>1 DEF UidnextPast
      <3>2. IsFiniteSet({row})
        BY FS_Singleton
      <3>3. \A x \in {row} : x.uid \in Nat
        BY <2>2
      <3> HIDE DEF past
      <3>4. past \in Nat /\ catalog.uidnext[row.view] <= past /\ \A x \in {row} : x.uid < past
        BY <2>2, <3>1, <3>2, <3>3, MaxIsPast
      <3> QED
        BY <3>4
    <2>4. catalog' = [catalog EXCEPT !.rows = rows, !.uidnext[row.view] = past, !.applied = applied]
      <3>1. catalog.rows \ {r \in catalog.rows : SameMembership(r, row)}
            = {r \in catalog.rows : ~SameMembership(r, row)}
        OBVIOUS
      <3> HIDE DEF past
      <3>2. catalog' = [catalog EXCEPT
                !.rows = (@ \ {r \in catalog.rows : SameMembership(r, row)}) \cup {row},
                !.uidnext[row.view] = past, !.applied = @ + 1]
        BY <1>4, <2>1 DEF past
      <3> QED
        BY <3>1, <3>2 DEF applied
    <2>5. rows \subseteq Rows /\ IsFiniteSet(rows)
      <3> DEFINE others == {r \in catalog.rows : ~SameMembership(r, row)}
      <3>1. others \in SUBSET catalog.rows /\ catalog.rows \subseteq Rows /\ IsFiniteSet(catalog.rows)
        BY <1>1 DEF Typed, Catalogs
      <3>2. rows = others \cup {row}
        OBVIOUS
      <3> HIDE DEF others, rows
      <3>3. IsFiniteSet(others)
        BY <3>1, FS_Subset
      <3>4. IsFiniteSet({row})
        BY FS_Singleton
      <3>5. IsFiniteSet(others \cup {row})
        BY <3>3, <3>4, FS_Union
      <3> QED
        BY <3>1, <3>2, <3>5
    <2>6. named = history.named
      BY <2>1 DEF Seen, SeenAs
    <2>7. history' = history
      <3>1. history' = [history EXCEPT !.named = named]
        BY <1>4, <2>1
      <3> HIDE DEF named
      <3>2. history' = [history EXCEPT !.named = history.named]
        BY <2>6, <3>1
      <3> QED
        BY <1>1, <3>2 DEF Histories
    <2> HIDE DEF rows, past
    <2>8. /\ catalog' \in Catalogs /\ catalog'.rows = rows /\ catalog'.applied = applied
          /\ catalog'.refreshed = catalog.refreshed /\ catalog'.facts = catalog.facts
          /\ catalog'.expunged = catalog.expunged
          /\ catalog'.uidnext = [catalog.uidnext EXCEPT ![row.view] = past]
      BY <1>1, <1>3, <2>2, <2>3, <2>4, <2>5 DEF Catalogs
    <2>9. catalog'.uidnext[row.view] = past /\ \A v \in Views : catalog.uidnext[v] <= catalog'.uidnext[v]
      BY <1>1, <2>2, <2>3, <2>8 DEF Catalogs
    <2>10. \A f : n \notin About(f)
      BY <1>4 DEF About, IsView
    <2>11. Typed'
      BY <1>1, <2>5, <2>7, <2>8 DEF Typed
    <2>12. RecordApplied(n)
      <3>1. IsView(n) /\ journal[n].kind # "expunge"
        BY <1>4 DEF IsView
      <3> QED
        BY <1>3, <2>1, <2>3, <2>7, <2>8, <2>9, <2>10, <3>1 DEF RecordApplied, rows
    <2> QED
      BY <2>11, <2>12
  <1>5. CASE /\ journal[n].kind \in {"delivered", "insert", "retract"} /\ history' = history
             /\ catalog' = [catalog EXCEPT !.facts = FactsAfter(journal[n], n), !.applied = @ + 1]
    <2> DEFINE facts == FactsAfter(journal[n], n)
    <2>1. catalog' = [catalog EXCEPT !.facts = facts, !.applied = applied]
      BY <1>5 DEF applied
    <2>2. \A f \in Facts :
            /\ facts[f] \in [active : BOOLEAN, sequence : Nat]
            /\ facts[f] = catalog.facts[f] \/ facts[f].sequence = n
            /\ facts[f].active <=> IF n \in About(f) THEN journal[n].kind # "retract" ELSE catalog.facts[f].active
      <3> SUFFICES ASSUME NEW f \in Facts
                   PROVE  /\ facts[f] \in [active : BOOLEAN, sequence : Nat]
                          /\ facts[f] = catalog.facts[f] \/ facts[f].sequence = n
                          /\ facts[f].active <=>
                               IF n \in About(f) THEN journal[n].kind # "retract" ELSE catalog.facts[f].active
        OBVIOUS
      <3> DEFINE said == IF journal[n].kind = "delivered" THEN journal[n].facts ELSE {journal[n].fact}
                 active == journal[n].kind # "retract"
      <3>1. f \in said <=> n \in About(f)
        BY <1>2, <1>5 DEF About
      <3>2. facts[f] = IF f \in said /\ catalog.facts[f].active # active
                       THEN [active |-> active, sequence |-> n] ELSE catalog.facts[f]
        BY DEF FactsAfter
      <3>3. catalog.facts[f] \in [active : BOOLEAN, sequence : Nat]
        BY <1>1 DEF Catalogs
      <3>4. active \in BOOLEAN /\ (active <=> journal[n].kind # "retract")
        OBVIOUS
      <3> HIDE DEF facts, said, active
      <3>5. facts[f] \in [active : BOOLEAN, sequence : Nat]
        BY <1>1, <3>2, <3>3, <3>4
      <3>6. facts[f] = catalog.facts[f] \/ facts[f].sequence = n
        BY <3>2
      <3>7. catalog.facts[f].active \in BOOLEAN
        BY <3>3
      <3>8. facts[f].active <=> IF f \in said THEN active ELSE catalog.facts[f].active
        BY <3>2, <3>4, <3>7
      <3> QED
        BY <3>1, <3>4, <3>5, <3>6, <3>8
    <2>3. facts \in [Facts -> [active : BOOLEAN, sequence : Nat]]
      <3>1. facts = [f \in Facts |-> facts[f]]
        BY DEF FactsAfter
      <3> HIDE DEF facts
      <3> QED
        BY <2>2, <3>1
    <2> HIDE DEF facts
    <2>4. /\ catalog' \in Catalogs /\ catalog'.rows = catalog.rows /\ catalog'.applied = applied
          /\ catalog'.refreshed = catalog.refreshed /\ catalog'.facts = facts
          /\ catalog'.expunged = catalog.expunged /\ catalog'.uidnext = catalog.uidnext
      BY <1>1, <1>3, <2>1, <2>3 DEF Catalogs
    <2>5. \A v \in Views : catalog.uidnext[v] <= catalog'.uidnext[v]
      BY <1>1, <2>4 DEF Catalogs
    <2>6. ~IsView(n) /\ journal[n].kind # "expunge"
      BY <1>5 DEF IsView
    <2>7. Typed'
      BY <1>1, <1>5, <2>4 DEF Typed
    <2>8. RecordApplied(n)
      <3>1. \A f \in Facts : /\ catalog'.facts[f] = catalog.facts[f] \/ catalog'.facts[f].sequence = n
                             /\ catalog'.facts[f].active <=>
                                  IF n \in About(f) THEN journal[n].kind # "retract" ELSE catalog.facts[f].active
        BY <2>2, <2>4
      <3>2. \A m \in Messages : catalog'.expunged[m] = IF journal[n].kind = "expunge" /\ journal[n].msg = m
                                                       THEN n ELSE catalog.expunged[m]
        BY <2>4, <2>6
      <3>3. /\ daemon.pc = "applying" /\ n = catalog.applied + 1 /\ n <= daemon.scan
            /\ journal' = journal /\ daemon' = daemon /\ history' = history
            /\ catalog'.applied = n /\ catalog'.refreshed = catalog.refreshed /\ catalog'.rows = catalog.rows
        BY <1>3, <1>5, <2>4
      <3> QED
        BY <2>5, <2>6, <3>1, <3>2, <3>3 DEF RecordApplied
    <2> QED
      BY <2>7, <2>8
  <1>6. CASE /\ journal[n].kind = "expunge" /\ history' = history
             /\ catalog' = [catalog EXCEPT !.expunged[journal[n].msg] = n, !.applied = @ + 1]
    <2>1. PICK m \in Messages : m = journal[n].msg
      BY <1>2, <1>6 DEF Records, ViewRecords
    <2>2. catalog' = [catalog EXCEPT !.expunged[m] = n, !.applied = applied]
      BY <1>6, <2>1 DEF applied
    <2>3. /\ catalog' \in Catalogs /\ catalog'.rows = catalog.rows /\ catalog'.applied = applied
          /\ catalog'.refreshed = catalog.refreshed /\ catalog'.facts = catalog.facts
          /\ catalog'.expunged = [catalog.expunged EXCEPT ![m] = n] /\ catalog'.uidnext = catalog.uidnext
      BY <1>1, <1>3, <2>2 DEF Catalogs
    <2>4. \A x \in Messages : catalog'.expunged[x] = IF x = m THEN n ELSE catalog.expunged[x]
      BY <1>1, <2>3 DEF Catalogs
    <2>5. \A v \in Views : catalog.uidnext[v] <= catalog'.uidnext[v]
      BY <1>1, <2>3 DEF Catalogs
    <2>6. ~IsView(n) /\ \A f : n \notin About(f)
      BY <1>6 DEF IsView, About
    <2>7. Typed'
      BY <1>1, <1>6, <2>3 DEF Typed
    <2>8. RecordApplied(n)
      BY <1>3, <1>6, <2>1, <2>3, <2>4, <2>5, <2>6 DEF RecordApplied
    <2> QED
      BY <2>7, <2>8
  <1> QED
    BY <1>4, <1>5, <1>6

(* A record is applied, or finds another UID at its row.                   *)
LEMMA ApplyRecordStep ==
  ASSUME IInv, ApplyRecord
  PROVE  IInv'
  <1> DEFINE n == catalog.applied + 1
  <1>1. /\ daemon.pc = "applying" /\ catalog.applied < daemon.scan /\ journal' = journal /\ bound' = bound
        /\ \/ journal[n].kind = "view" /\ ApplyViewRecord(journal[n].row)
           \/ /\ journal[n].kind \in {"delivered", "insert", "retract"} /\ daemon' = daemon /\ history' = history
              /\ catalog' = [catalog EXCEPT !.facts = FactsAfter(journal[n], n), !.applied = @ + 1]
           \/ /\ journal[n].kind = "expunge" /\ daemon' = daemon /\ history' = history
              /\ catalog' = [catalog EXCEPT !.expunged[journal[n].msg] = n, !.applied = @ + 1]
    BY DEF ApplyRecord
  <1>2. n = catalog.applied + 1 /\ n <= daemon.scan
    BY <1>1 DEF IInv, Typed, Catalogs, Daemons
  <1>3. Typed /\ PassInv /\ daemon.pending = << >> /\ daemon \in Daemons /\ daemon.config \in Configs
    BY <1>1 DEF IInv, PassInv, Typed
  <1> HIDE DEF n
  <1>4. CASE daemon' = [daemon EXCEPT !.pc = "conflict"] /\ catalog' = catalog /\ history' = history
    <2>1. /\ daemon' \in Daemons /\ daemon'.pc = "conflict" /\ daemon'.pending = << >>
          /\ daemon'.config = daemon.config
      BY <1>3, <1>4 DEF Daemons, Pcs
    <2>2. Typed'
      BY <1>1, <1>3, <1>4, <2>1 DEF Typed
    <2>3. ~Working'
      BY <2>1 DEF Working
    <2>4. PassInv'
      BY <1>1, <1>3, <1>4, <2>1, <2>3 DEF PassInv
    <2>5. UidInv' /\ FactsInv' /\ TodoInv' /\ RowsInv' /\ ShownInv'
      BY <1>1, <1>3, <1>4, <2>1, <2>3, IdleKeeps DEF IInv
    <2> QED
      BY <2>2, <2>4, <2>5 DEF IInv
  <1>5. ASSUME RecordApplied(n), Typed' PROVE IInv'
    <2>1. /\ daemon' = daemon /\ journal' = journal /\ catalog'.applied = n /\ n \in Nat
          /\ n <= Len(journal)
      <3>1. daemon.scan \in 1 .. Len(journal) /\ Len(journal) \in Nat
        BY <1>1, <1>3, LenProperties DEF PassInv, Typed
      <3> QED
        BY <1>2, <1>3, <1>5, <3>1 DEF RecordApplied, Typed, Catalogs
    <2>2. PassInv'
      BY <1>1, <1>2, <1>3, <2>1 DEF PassInv, Working, IsView
    <2>3. TodoInv'
      BY <1>1, <2>1 DEF TodoInv
    <2> QED
      BY <1>5, <2>2, <2>3, AppliedFacts, AppliedRows, AppliedUids, AppliedShown DEF IInv
  <1>6. CASE journal[n].kind = "view" /\ ApplyViewRecord(journal[n].row)
    <2>1. CASE \E r \in {s \in catalog.rows : SameMembership(s, journal[n].row)} : r.uid # journal[n].row.uid
      BY <1>4, <1>6, <2>1 DEF ApplyViewRecord
    <2>2. CASE ~\E r \in {s \in catalog.rows : SameMembership(s, journal[n].row)} : r.uid # journal[n].row.uid
      <3>1. /\ IsView(n) /\ daemon' = daemon
            /\ catalog' = [catalog EXCEPT
                 !.rows = (@ \ {r \in catalog.rows : SameMembership(r, journal[n].row)}) \cup {journal[n].row},
                 !.uidnext[journal[n].row.view] = UidnextPast(journal[n].row), !.applied = @ + 1]
            /\ history' = [history EXCEPT !.named = @ \cup Seen({journal[n].row})]
        BY <1>6, <2>2 DEF ApplyViewRecord, IsView
      <3>2. Typed' /\ RecordApplied(n)
        BY <1>1, <1>2, <3>1, RecordIsApplied
      <3> QED
        BY <1>5, <3>2
    <2> QED
      BY <2>1, <2>2
  <1>7. CASE \/ /\ journal[n].kind \in {"delivered", "insert", "retract"} /\ daemon' = daemon /\ history' = history
                /\ catalog' = [catalog EXCEPT !.facts = FactsAfter(journal[n], n), !.applied = @ + 1]
             \/ /\ journal[n].kind = "expunge" /\ daemon' = daemon /\ history' = history
                /\ catalog' = [catalog EXCEPT !.expunged[journal[n].msg] = n, !.applied = @ + 1]
    <2>1. Typed' /\ RecordApplied(n)
      BY <1>1, <1>2, <1>7, RecordIsApplied
    <2> QED
      BY <1>5, <2>1
  <1> QED
    BY <1>1, <1>6, <1>7

(* A catalog that is deleted takes nothing with it that the journal has    *)
(* not: UIDs that were named stay so.                                      *)
LEMMA DeleteCatalogStep ==
  ASSUME IInv, DeleteCatalog
  PROVE  IInv'
  <1> DEFINE copy == [rows |-> catalog.rows, uidnext |-> catalog.uidnext, records |-> Len(journal),
                      changes |-> bound.changes,
                      current |-> IF catalog.applied = Len(journal) /\ Latest <= catalog.refreshed.sequence
                                  THEN catalog.refreshed.config ELSE None]
             deleted == IF catalog.refreshed = None THEN history.deleted ELSE copy
  <1>1. /\ daemon.pc = "down" /\ ~Working /\ catalog' = Empty /\ history' = [history EXCEPT !.deleted = deleted]
        /\ journal' = journal /\ daemon' = daemon /\ bound' = [bound EXCEPT !.upsets = @ + 1]
    BY DEF DeleteCatalog, Upset, Working
  <1>2. Typed /\ PassInv /\ UidInv /\ daemon.pending = << >> /\ history \in Histories
    BY <1>1 DEF IInv, PassInv, Typed
  <1>3. deleted \in {None} \cup Copies
    <2>1. CASE catalog.refreshed = None
      BY <1>2, <2>1 DEF Histories
    <2>2. CASE catalog.refreshed # None
      <3> DEFINE current == IF catalog.applied = Len(journal) /\ Latest <= catalog.refreshed.sequence
                            THEN catalog.refreshed.config ELSE None
      <3>1. Len(journal) \in Nat
        BY <1>2, LenProperties DEF Typed
      <3>2. catalog.refreshed.config \in Configs
        BY <1>2, <2>2 DEF Typed, Catalogs
      <3>3. current \in {None} \cup Configs
        BY <3>2
      <3>4. /\ catalog.rows \in SUBSET Rows /\ catalog.uidnext \in [Views -> Nat] /\ bound.changes \in Nat
        BY <1>2 DEF Typed, Catalogs
      <3> HIDE DEF current
      <3>5. [rows |-> catalog.rows, uidnext |-> catalog.uidnext, records |-> Len(journal),
             changes |-> bound.changes, current |-> current] \in Copies
        BY <3>1, <3>3, <3>4 DEF Copies
      <3> QED
        BY <2>2, <3>5 DEF current
    <2> QED
      BY <2>1, <2>2
  <1> HIDE DEF deleted
  <1>4. /\ history' \in Histories /\ history'.named = history.named /\ history'.lost = history.lost
    BY <1>1, <1>2, <1>3 DEF Histories
  <1>5. /\ catalog' \in Catalogs /\ catalog'.rows = {} /\ catalog'.applied = 0 /\ catalog'.refreshed = None
        /\ \A f \in Facts : ~catalog'.facts[f].active /\ catalog'.facts[f].sequence = 0
        /\ \A m \in Messages : catalog'.expunged[m] = 0
    BY <1>1 DEF Empty, Catalogs, NoFact, Names
  <1>6. ~Working'
    BY <1>1 DEF Working
  <1>7. Typed'
    BY <1>1, <1>2, <1>4, <1>5, FS_EmptySet DEF Typed
  <1>8. PassInv'
    <2>1. Len(journal) \in Nat
      BY <1>2, LenProperties DEF Typed
    <2> QED
      BY <1>1, <1>2, <1>5, <1>6, <2>1 DEF PassInv
  <1>9. \A i : IsView(i)' <=> IsView(i)
    BY <1>1 DEF IsView
  <1>10. UidInv'
    <2>1. RowsNamed'
      BY <1>1, <1>2, <1>4, <1>5, <1>9 DEF UidInv, RowsNamed, Seen, SeenAs
    <2>2. NamedRecorded'
      BY <1>1, <1>2, <1>4, <1>9 DEF UidInv, NamedRecorded, SeenAs
    <2>3. AppliedPast'
      BY <1>5 DEF AppliedPast
    <2>4. NamedPast' /\ UidsNameOneMessage'
      BY <1>2, <1>4, <1>6 DEF UidInv, NamedPast, UidsNameOneMessage
    <2> QED
      BY <2>1, <2>2, <2>3, <2>4 DEF UidInv
  <1>11. FactsInv'
    <2>1. \A f : ~LastSays(f, catalog.applied)'
      BY <1>5 DEF LastSays
    <2> QED
      BY <1>5, <2>1 DEF FactsInv
  <1>12. TodoInv'
    BY <1>1 DEF TodoInv
  <1>13. RowsInv'
    BY <1>5, <1>6 DEF RowsInv
  <1>14. ShownInv'
    BY <1>5, <1>6 DEF ShownInv
  <1> QED
    BY <1>7, <1>8, <1>10, <1>11, <1>12, <1>13, <1>14 DEF IInv

-----------------------------------------------------------------------------
(* The invariant and what follows                                          *)

LEMMA NextIInv == IInv /\ [Next]_vars => IInv'
  <1> SUFFICES ASSUME IInv, [Next]_vars PROVE IInv'
    OBVIOUS
  <1>1. ASSUME NEW config \in Configs, Start(config) PROVE IInv'
    BY <1>1, StartStep
  <1>2. CASE PassStep \/ BeginPass
    BY <1>2, BeginPassStep, ApplyRecordStep, BeginRefreshStep, NameViewStep, RefreshBatchStep,
       NextScopeStep, AppendChangeStep, EndRefreshStep DEF PassStep, DuePass
  <1>3. CASE Change
    BY <1>3, ChangeStep
  <1>4. CASE Crash
    BY <1>4, CrashStep
  <1>5. CASE AppendFails
    BY <1>5, AppendFailsStep
  <1>6. CASE DeleteCatalog
    BY <1>6, DeleteCatalogStep
  <1>7. CASE UNCHANGED vars
    <2>1. /\ journal' = journal /\ catalog' = catalog /\ daemon' = daemon /\ bound' = bound
          /\ history' = history
      BY <1>7 DEF vars
    <2>2. FactsSame
      BY <2>1 DEF FactsSame
    <2>3. Typed /\ PassInv /\ UidInv /\ FactsInv /\ TodoInv /\ RowsInv /\ ShownInv
      BY DEF IInv
    <2>4. Typed'
      BY <2>1, <2>3 DEF Typed
    <2>5. PassInv'
      <3>1. Latest' = Latest
        BY <2>2, SameTruth
      <3> QED
        BY <2>1, <2>3, <3>1 DEF PassInv, Working, IsView
    <2>6. UidInv'
      BY <2>1, <2>3
         DEF UidInv, RowsNamed, NamedRecorded, AppliedPast, NamedPast, UidsNameOneMessage, Seen, SeenAs,
             IsView, Working
    <2>7. FactsInv'
      BY <2>1, <2>2, <2>3, SameFactsInv DEF PassInv
    <2>8. TodoInv'
      <3>1. \A view, since, full : Reach(view, since, full)' = Reach(view, since, full)
        BY <2>2, SameTruth
      <3> QED
        BY <2>1, <2>3, <3>1 DEF TodoInv, AtWork
    <2>9. RowsInv'
      <3>1. Unapplied' = Unapplied
        BY <2>1 DEF Unapplied, IsView
      <3> QED
        BY <2>1, <2>3, <3>1 DEF RowsInv, SameMembership, Working, Behind, Todo
    <2>10. ShownInv'
      BY <2>1, <2>2, <2>3, SameWork
    <2> QED
      BY <2>4, <2>5, <2>6, <2>7, <2>8, <2>9, <2>10 DEF IInv
  <1> QED
    BY <1>1, <1>2, <1>3, <1>4, <1>5, <1>6, <1>7 DEF Next

LEMMA AlwaysIInv == Spec => []IInv
  BY InitIInv, NextIInv, PTL DEF Spec

(* A UID of a view never names a second message, whatever crashes, leaves  *)
(* and comes back, or is rebuilt, unless rows were committed whose records *)
(* were never appended.                                                    *)
THEOREM UidsNameOneMessageCorrect == Spec => []UidsNameOneMessage
  <1>1. IInv => UidsNameOneMessage
    BY DEF IInv, UidInv
  <1> QED
    BY <1>1, AlwaysIInv, PTL

(* When all records about facts and messages are applied, the catalog has  *)
(* of them what the journal states.                                        *)
LEMMA AppliedIsStated ==
  ASSUME IInv, 0 < catalog.applied, \A i \in DOMAIN journal : catalog.applied < i => IsView(i)
  PROVE  ActiveFacts = Stated /\ Ordinary = Kept
  <1>1. /\ Typed /\ FactsInv /\ DOMAIN journal = 1 .. Len(journal) /\ Len(journal) \in Nat \ {0}
        /\ \A i \in DOMAIN journal : i \in Nat
        /\ catalog.applied \in Nat /\ catalog.applied <= Len(journal)
    BY EmptySeq, LenProperties DEF IInv, Typed, PassInv, Catalogs
  <1>2. ASSUME NEW f \in Facts
        PROVE  catalog.facts[f].active <=> About(f) # {} /\ journal[Max(About(f))].kind # "retract"
    <2>1. catalog.facts[f].active <=> LastSays(f, catalog.applied)
      BY <1>1 DEF FactsInv
    <2>2. About(f) \subseteq 1 .. catalog.applied /\ About(f) \subseteq 1 .. Len(journal)
      <3>1. ASSUME NEW i \in About(f) PROVE i \in DOMAIN journal /\ ~IsView(i)
        BY DEF About, IsView
      <3> QED
        BY <1>1, <3>1
    <2>3. About(f) # {} => Max(About(f)) \in About(f) /\ \A j \in About(f) : j <= Max(About(f))
      <3>1. 1 \in Int /\ Len(journal) \in Int
        BY <1>1
      <3>2. IsFiniteSet(1 .. Len(journal))
        BY <3>1, FS_Interval
      <3>3. IsFiniteSet(About(f)) /\ About(f) \subseteq Nat
        BY <2>2, <3>2, FS_Subset
      <3> QED
        BY <3>3, FiniteMax
    <2>4. ASSUME LastSays(f, catalog.applied) PROVE About(f) # {} /\ journal[Max(About(f))].kind # "retract"
      <3>1. PICK i \in 1 .. catalog.applied :
              /\ i \in About(f) /\ journal[i].kind # "retract"
              /\ \A j \in 1 .. catalog.applied : j \in About(f) => j <= i
        BY <2>4 DEF LastSays
      <3>2. Max(About(f)) \in 1 .. catalog.applied /\ i <= Max(About(f)) /\ Max(About(f)) <= i
        BY <2>2, <2>3, <3>1
      <3>3. Max(About(f)) = i
        BY <1>1, <3>1, <3>2
      <3> QED
        BY <3>1, <3>3
    <2>5. ASSUME About(f) # {}, journal[Max(About(f))].kind # "retract" PROVE LastSays(f, catalog.applied)
      BY <2>2, <2>3, <2>5 DEF LastSays
    <2> QED
      BY <2>1, <2>4, <2>5
  <1>3. ASSUME NEW m \in Messages
        PROVE  catalog.expunged[m] = 0 <=> \A i \in DOMAIN journal : journal[i].kind = "expunge" => journal[i].msg # m
    <2>1. \A i \in DOMAIN journal : journal[i].kind = "expunge" => i \in 1 .. catalog.applied
      BY <1>1 DEF IsView
    <2> QED
      BY <1>1, <2>1 DEF FactsInv
  <1>4. DeliveredMessages = Messages
    BY <1>1 DEF DeliveredMessages
  <1> QED
    BY <1>2, <1>3, <1>4 DEF ActiveFacts, Stated, Ordinary, Kept

(* A view that nothing is left to refresh for shows exactly the messages   *)
(* the configured rules derive from all facts, each once and under these   *)
(* rules, although only changed messages and their threads were evaluated, *)
(* unless other rules were refreshed halfway and then withdrawn.           *)
THEOREM ViewsMatchRulesCorrect == Spec => []ViewsMatchRulesUnlessReverted
  <1>1. ASSUME IInv PROVE ViewsMatchRulesUnlessReverted
    <2> SUFFICES ASSUME ~history.reverted, Settled, NEW view \in Configured
                 PROVE  /\ {r.msg : r \in VisibleRows(view)} = Promised(view)
                        /\ \A r, s \in VisibleRows(view) : r.msg = s.msg => r = s
                        /\ \A r \in VisibleRows(view) : r.rules = daemon.config.rules
      BY DEF ViewsMatchRulesUnlessReverted, ViewsMatchRules
    <2>1. /\ Typed /\ PassInv /\ FactsInv /\ RowsInv /\ ShownInv
          /\ daemon.pc = "idle" /\ \A j \in DOMAIN journal : catalog.applied < j => IsView(j)
          /\ catalog.refreshed # None /\ catalog.refreshed.config = daemon.config
          /\ Latest <= catalog.refreshed.sequence
      BY <1>1 DEF IInv, Settled, Current, IsView
    <2>2. PICK config \in Configs : config = daemon.config
      BY <2>1 DEF PassInv
    <2>3. PICK since \in Nat \ {0} : since = catalog.refreshed.sequence
      BY <2>1 DEF RowsInv
    <2>4. catalog.refreshed = [config |-> config, sequence |-> since]
      BY <2>1, <2>2, <2>3 DEF Typed, Catalogs
    <2>5. PICK i \in DOMAIN config.scopes : view = config.scopes[i]
      BY <2>2 DEF Configured
    <2>6. Shown(config, view, since, FALSE)
      BY <2>1, <2>4, <2>5 DEF ShownInv
    <2>7. Due(view, since, FALSE) = {}
      BY <2>1, <2>3, NothingDue
    <2>8. \A m \in Messages : RightAt(config, view, m)
      BY <2>6, <2>7 DEF Shown
    <2>9. Truth(config, view) = Promised(view)
      <3>1. 0 < catalog.applied
        BY <2>1, <2>3 DEF RowsInv, Typed, Catalogs
      <3> QED
        BY <1>1, <2>1, <2>2, <3>1, AppliedIsStated DEF Truth, Promised
    <2>10. Truth(config, view) \subseteq Messages
      BY DEF Truth, Derived
    <2>11. \A r \in VisibleRows(view) :
             /\ r \in catalog.rows /\ r.view = view /\ r.visible
             /\ r.msg \in Messages /\ r \in RowsOf(view, r.msg)
      BY <2>1 DEF VisibleRows, RowsOf, Typed, Catalogs, Rows
    <2>12. \A r \in VisibleRows(view) : r.rules = config.rules /\ r.msg \in Truth(config, view)
      BY <2>8, <2>11 DEF RightAt
    <2>13. ASSUME NEW m \in Truth(config, view) PROVE \E r \in VisibleRows(view) : r.msg = m
      <3>1. PICK r \in RowsOf(view, m) : r.rules = config.rules
        BY <2>8, <2>10 DEF RightAt
      <3>2. r.visible <=> TRUE
        BY <2>8, <2>10, <3>1 DEF RightAt
      <3>3. r \in catalog.rows /\ r.view = view /\ r.msg = m
        BY DEF RowsOf
      <3> QED
        BY <3>2, <3>3 DEF VisibleRows
    <2>14. {r.msg : r \in VisibleRows(view)} = Promised(view)
      BY <2>9, <2>12, <2>13
    <2>15. ASSUME NEW r \in VisibleRows(view), NEW s \in VisibleRows(view), r.msg = s.msg PROVE r = s
      BY <2>1, <2>11, <2>12, <2>15 DEF RowsInv, SameMembership
    <2> QED
      BY <2>2, <2>12, <2>14, <2>15
  <1> QED
    BY <1>1, AlwaysIInv, PTL

-----------------------------------------------------------------------------
(* What a journal brings back                                              *)

(* Rows that come to replace others, the last row a journal has of each    *)
(* membership, and all it has.                                             *)
Overlaid(rows, changes) == {r \in rows : \A x \in changes : ~SameMembership(r, x)} \cup changes
IsRow(log, i) == log[i].kind = "view"
Lasting(log, k, n) ==
  IsRow(log, k) /\ \A j \in (k + 1) .. n : IsRow(log, j) => ~SameMembership(log[k].row, log[j].row)
Replayed(log, n) == {log[i].row : i \in {k \in 1 .. n : Lasting(log, k, n)}}
Recorded(log, n) == {log[i].row : i \in {k \in 1 .. n : IsRow(log, k)}}

(* UIDs were given up to here.                                             *)
Numbered(uidnext, rows) ==
  \A v \in Views :
    /\ \A r \in rows : r.view = v => r.uid < uidnext[v]
    /\ uidnext[v] = 1 \/ \E r \in rows : r.view = v /\ uidnext[v] = r.uid + 1

(* A record of a row replaces the row of its membership, ...               *)
LEMMA ReplayOne ==
  ASSUME NEW log, NEW n \in Nat
  PROVE  /\ IsRow(log, n + 1) => /\ Replayed(log, n + 1) = Overlaid(Replayed(log, n), {log[n + 1].row})
                                 /\ Recorded(log, n + 1) = Recorded(log, n) \cup {log[n + 1].row}
         /\ ~IsRow(log, n + 1) => /\ Replayed(log, n + 1) = Replayed(log, n)
                                  /\ Recorded(log, n + 1) = Recorded(log, n)
  <1>1. 1 .. n + 1 = (1 .. n) \cup {n + 1}
    OBVIOUS
  <1>2. ASSUME NEW k \in 1 .. n
        PROVE  Lasting(log, k, n + 1) <=>
                 /\ Lasting(log, k, n)
                 /\ IsRow(log, n + 1) => ~SameMembership(log[k].row, log[n + 1].row)
    <2>1. (k + 1) .. (n + 1) = ((k + 1) .. n) \cup {n + 1}
      OBVIOUS
    <2> QED
      BY <2>1 DEF Lasting
  <1>3. Lasting(log, n + 1, n + 1) <=> IsRow(log, n + 1)
    <2>1. (n + 1) + 1 .. n + 1 = {}
      OBVIOUS
    <2> QED
      BY <2>1 DEF Lasting
  <1>4. CASE IsRow(log, n + 1)
    <2>1. \A r : r \in Replayed(log, n + 1) <=>
            \/ \E k \in 1 .. n : r = log[k].row /\ Lasting(log, k, n) /\ ~SameMembership(r, log[n + 1].row)
            \/ r = log[n + 1].row
      BY <1>1, <1>2, <1>3, <1>4 DEF Replayed
    <2>2. \A r : r \in Replayed(log, n) <=> \E k \in 1 .. n : r = log[k].row /\ Lasting(log, k, n)
      BY DEF Replayed
    <2>3. Replayed(log, n + 1) = Overlaid(Replayed(log, n), {log[n + 1].row})
      BY <2>1, <2>2 DEF Overlaid
    <2>4. Recorded(log, n + 1) = Recorded(log, n) \cup {log[n + 1].row}
      BY <1>1, <1>4 DEF Recorded
    <2> QED
      BY <1>4, <2>3, <2>4
  <1>5. CASE ~IsRow(log, n + 1)
    <2>1. Replayed(log, n + 1) = Replayed(log, n)
      BY <1>1, <1>2, <1>3, <1>5 DEF Replayed
    <2>2. Recorded(log, n + 1) = Recorded(log, n)
      BY <1>1, <1>5 DEF Recorded
    <2> QED
      BY <1>5, <2>1, <2>2
  <1> QED
    BY <1>4, <1>5

(* ... records of other kinds replace nothing, ...                         *)
LEMMA ReplayRest ==
  ASSUME NEW log, NEW m \in Nat, NEW n \in Nat, m <= n, \A i \in (m + 1) .. n : ~IsRow(log, i)
  PROVE  Replayed(log, n) = Replayed(log, m) /\ Recorded(log, n) = Recorded(log, m)
  <1>1. 1 .. n = (1 .. m) \cup ((m + 1) .. n)
    OBVIOUS
  <1>2. ASSUME NEW k \in 1 .. m PROVE Lasting(log, k, n) <=> Lasting(log, k, m)
    <2>1. (k + 1) .. n = ((k + 1) .. m) \cup ((m + 1) .. n)
      OBVIOUS
    <2> QED
      BY <2>1 DEF Lasting
  <1>3. \A k \in (m + 1) .. n : ~Lasting(log, k, n)
    BY DEF Lasting
  <1>4. Replayed(log, n) = Replayed(log, m)
    BY <1>1, <1>2, <1>3 DEF Replayed
  <1>5. Recorded(log, n) = Recorded(log, m)
    BY <1>1 DEF Recorded
  <1> QED
    BY <1>4, <1>5

(* ... and later records leave what the earlier ones brought back.         *)
LEMMA ReplayKept ==
  ASSUME NEW log, NEW longer, NEW n \in Nat, \A i \in 1 .. n : longer[i] = log[i]
  PROVE  Replayed(longer, n) = Replayed(log, n) /\ Recorded(longer, n) = Recorded(log, n)
  <1>1. \A k \in 1 .. n : IsRow(longer, k) <=> IsRow(log, k)
    BY DEF IsRow
  <1>2. ASSUME NEW k \in 1 .. n PROVE Lasting(longer, k, n) <=> Lasting(log, k, n)
    <2>1. \A j \in (k + 1) .. n : j \in 1 .. n
      OBVIOUS
    <2> QED
      BY <1>1, <2>1 DEF Lasting
  <1>3. Replayed(longer, n) = Replayed(log, n)
    BY <1>2 DEF Replayed
  <1>4. Recorded(longer, n) = Recorded(log, n)
    BY <1>1 DEF Recorded
  <1> QED
    BY <1>3, <1>4

(* The rows say where UIDs go on.                                          *)
LEMMA NumberedOnce ==
  ASSUME NEW uidnext \in [Views -> Nat], NEW other \in [Views -> Nat], NEW rows,
         \A r \in rows : r.uid \in Nat, Numbered(uidnext, rows), Numbered(other, rows)
  PROVE  uidnext = other
  <1>1. ASSUME NEW v \in Views PROVE uidnext[v] = other[v]
    <2>1. uidnext[v] \in Nat /\ other[v] \in Nat
      OBVIOUS
    <2>2. uidnext[v] >= 1 /\ other[v] >= 1
      BY <2>1 DEF Numbered
    <2>3. uidnext[v] <= other[v]
      BY <2>1, <2>2 DEF Numbered
    <2>4. other[v] <= uidnext[v]
      BY <2>1, <2>2 DEF Numbered
    <2> QED
      BY <2>1, <2>3, <2>4
  <1> QED
    BY <1>1

-----------------------------------------------------------------------------
(* The catalog, the journal and the catalog that was deleted               *)

Waiting == {daemon.pending[i].row : i \in DOMAIN daemon.pending}

(* No batch was committed since the catalog was created.                   *)
Untouched == catalog.names = Empty.names
Touched == catalog.refreshed # None \/ Working \/ ~Untouched

JournalInv ==
  ~history.lost =>
    /\ Untouched => /\ catalog.rows = Replayed(journal, catalog.applied)
                    /\ Numbered(catalog.uidnext, Recorded(journal, catalog.applied))
    /\ Touched => /\ catalog.rows = Overlaid(Replayed(journal, Len(journal)), Waiting)
                  /\ Numbered(catalog.uidnext, Recorded(journal, Len(journal)) \cup Waiting)
                  /\ \A i \in Unapplied : journal[i].row \in catalog.rows

CopyInv ==
  history.deleted # None =>
    /\ history.deleted.records <= Len(journal) /\ history.deleted.changes <= bound.changes
    /\ daemon.pc = "applying" => history.deleted.records <= daemon.scan
    /\ Working => history.deleted.records <= catalog.applied
    /\ history.deleted.changes = bound.changes =>
         \A i \in DOMAIN journal : history.deleted.records < i => IsView(i)
    /\ ~history.lost =>
         /\ history.deleted.rows = Replayed(journal, history.deleted.records)
         /\ Numbered(history.deleted.uidnext, Recorded(journal, history.deleted.records))

(* Do these rows show of a message what the journal's facts say?           *)
Says(config, view) == Derived(config.rules, view, Stated) \cap Kept
RightIn(rows, config, view, m) ==
  /\ \A r \in rows : r.view = view /\ r.msg = m =>
       (r.visible <=> r.rules = config.rules /\ m \in Says(config, view))
  /\ m \in Says(config, view) => \E r \in rows : r.view = view /\ r.msg = m /\ r.rules = config.rules

Repeats == /\ history.deleted # None /\ ~history.lost /\ ~history.reverted
           /\ history.deleted.changes = bound.changes
RepeatInv ==
  Repeats =>
    /\ daemon.pending = << >>
    /\ \A config \in Configs : history.deleted.current = config =>
         \A i \in DOMAIN config.scopes, m \in Messages :
           RightIn(Replayed(journal, Len(journal)), config, config.scopes[i], m)

(* Other rules than those of the copy have not committed a batch yet.      *)
FirstInv ==
  Working /\ daemon.full /\ history.deleted # None /\ Messages # {} =>
    \/ history.deleted.current = daemon.config
    \/ daemon.scope = 1 /\ (daemon.pc = "refreshing" => daemon.todo # {})

RebuildInv == JournalInv /\ CopyInv /\ RepeatInv /\ FirstInv

(* Nothing but the catalog, or the pass, may have changed: ...             *)
LEMMA SameJournalInv ==
  ASSUME JournalInv, journal' = journal, daemon'.pending = daemon.pending,
         catalog'.rows = catalog.rows, catalog'.uidnext = catalog.uidnext,
         catalog'.applied = catalog.applied,
         Untouched' => Untouched, Touched' => Touched, ~history'.lost => ~history.lost
  PROVE  JournalInv'
  <1>1. Waiting' = Waiting
    BY DEF Waiting
  <1>2. Unapplied' = Unapplied
    BY DEF Unapplied, IsView
  <1> QED
    BY <1>1, <1>2 DEF JournalInv

(* ... the journal is the same, and a pass applies all of it that there    *)
(* was when it began; ...                                                  *)
LEMMA SameCopyInv ==
  ASSUME CopyInv, journal' = journal, history'.deleted \in {None, history.deleted},
         bound'.changes = bound.changes, ~history'.lost => ~history.lost,
         daemon'.pc = "applying" =>
           daemon'.scan = Len(journal) \/ (daemon.pc = "applying" /\ daemon'.scan = daemon.scan),
         Working' => /\ catalog'.applied = catalog.applied
                     /\ Working \/ (daemon.pc = "applying" /\ catalog.applied = daemon.scan)
  PROVE  CopyInv'
  <1> SUFFICES ASSUME history'.deleted # None PROVE CopyInv'
    BY DEF CopyInv
  <1>1. history'.deleted = history.deleted /\ history.deleted # None
    OBVIOUS
  <1>2. \A i : IsView(i)' <=> IsView(i)
    BY DEF IsView
  <1> QED
    BY <1>1, <1>2 DEF CopyInv

(* ... what the journal says is the same, ...                              *)
LEMMA SameSays ==
  ASSUME journal' = journal
  PROVE  \A config, view : Says(config, view)' = Says(config, view)
  BY DEF Says, Stated, About, Kept

(* ... and so is what the rows it brings back are to show.                 *)
LEMMA SameRepeatInv ==
  ASSUME RepeatInv, journal' = journal, history'.deleted \in {None, history.deleted},
         bound'.changes = bound.changes, ~history'.lost => ~history.lost,
         ~history'.reverted => ~history.reverted, daemon'.pending \in {<< >>, daemon.pending}
  PROVE  RepeatInv'
  <1> SUFFICES ASSUME Repeats' PROVE RepeatInv'
    BY DEF RepeatInv
  <1>1. Repeats /\ history'.deleted = history.deleted
    BY DEF Repeats
  <1>2. \A rows, config, view, m : RightIn(rows, config, view, m)' <=> RightIn(rows, config, view, m)
    BY SameSays DEF RightIn
  <1> QED
    BY <1>1, <1>2 DEF RepeatInv

(* A longer journal brings back the same up to where it was longer.        *)
LEMMA LongerJournal ==
  ASSUME Typed, NEW r \in Records, journal' = Append(journal, r)
  PROVE  /\ Len(journal) \in Nat /\ Len(journal') = Len(journal) + 1 /\ journal'[Len(journal) + 1] = r
         /\ \A i \in 1 .. Len(journal) : IsView(i)' <=> IsView(i)
         /\ \A i \in 1 .. Len(journal) : journal'[i] = journal[i]
         /\ IsRow(journal', Len(journal) + 1) <=> r.kind = "view"
         /\ DOMAIN journal = 1 .. Len(journal) /\ DOMAIN journal' = 1 .. Len(journal) + 1
         /\ \A k \in 0 .. Len(journal) : /\ Replayed(journal', k) = Replayed(journal, k)
                                         /\ Recorded(journal', k) = Recorded(journal, k)
         /\ r.kind = "view" =>
              /\ Replayed(journal', Len(journal')) = Overlaid(Replayed(journal, Len(journal)), {r.row})
              /\ Recorded(journal', Len(journal')) = Recorded(journal, Len(journal)) \cup {r.row}
         /\ r.kind # "view" =>
              /\ Replayed(journal', Len(journal')) = Replayed(journal, Len(journal))
              /\ Recorded(journal', Len(journal')) = Recorded(journal, Len(journal))
  <1>1. /\ Len(journal) \in Nat /\ Len(journal') = Len(journal) + 1
        /\ DOMAIN journal = 1 .. Len(journal) /\ DOMAIN journal' = 1 .. Len(journal) + 1
        /\ \A i \in 1 .. Len(journal) : journal'[i] = journal[i]
        /\ journal'[Len(journal) + 1] = r
    BY Appended DEF Typed
  <1>2. PICK log, longer : log = journal /\ longer = journal'
    OBVIOUS
  <1>3. PICK n \in Nat : n = Len(journal)
    BY <1>1
  <1>4. ASSUME NEW k \in 0 .. n
        PROVE  Replayed(longer, k) = Replayed(log, k) /\ Recorded(longer, k) = Recorded(log, k)
    <2>1. k \in Nat /\ \A i \in 1 .. k : longer[i] = log[i]
      BY <1>1, <1>2, <1>3
    <2> QED
      BY <2>1, ReplayKept
  <1>5. n \in 0 .. n /\ longer[n + 1] = r /\ (IsRow(longer, n + 1) <=> r.kind = "view")
    BY <1>1, <1>2, <1>3 DEF IsRow
  <1>6. r.kind = "view" => /\ Replayed(longer, n + 1) = Overlaid(Replayed(log, n), {r.row})
                           /\ Recorded(longer, n + 1) = Recorded(log, n) \cup {r.row}
    BY <1>4, <1>5, ReplayOne
  <1>7. r.kind # "view" => /\ Replayed(longer, n + 1) = Replayed(log, n)
                           /\ Recorded(longer, n + 1) = Recorded(log, n)
    BY <1>4, <1>5, ReplayOne
  <1>8. /\ \A i \in 1 .. Len(journal) : IsView(i)' <=> IsView(i)
        /\ IsRow(journal', Len(journal) + 1) <=> r.kind = "view"
    BY <1>1 DEF IsView, IsRow
  <1> QED
    BY <1>1, <1>2, <1>3, <1>4, <1>6, <1>7, <1>8

(* What waits are the rows of the records that wait.                       *)
LEMMA NothingWaits ==
  ASSUME daemon.pending = << >>
  PROVE  Waiting = {} /\ \A rows : Overlaid(rows, Waiting) = rows
  <1>1. DOMAIN daemon.pending = {}
    OBVIOUS
  <1> QED
    BY <1>1 DEF Waiting, Overlaid

(* The rows a journal has are rows.                                        *)
LEMMA RecordedRows ==
  ASSUME Typed, NEW n \in Nat, n <= Len(journal)
  PROVE  Recorded(journal, n) \subseteq Rows /\ \A r \in Recorded(journal, n) : r.uid \in Nat /\ r.view \in Views
  <1>1. DOMAIN journal = 1 .. Len(journal) /\ Len(journal) \in Nat
    BY LenProperties DEF Typed
  <1>2. ASSUME NEW i \in 1 .. n, IsRow(journal, i) PROVE journal[i].row \in Rows
    <2>1. journal[i] \in Records /\ journal[i].kind = "view"
      BY <1>1, <1>2 DEF IsRow, Typed
    <2> QED
      BY <2>1 DEF Records, ViewRecords
  <1>3. Recorded(journal, n) \subseteq Rows
    BY <1>2 DEF Recorded
  <1> QED
    BY <1>3 DEF Rows

(* The journal's new records become rows one by one.                       *)
LEMMA ApplyRecordRebuilds ==
  ASSUME IInv, RebuildInv, ApplyRecord
  PROVE  RebuildInv'
  <1>1. PICK n : n = catalog.applied + 1
    OBVIOUS
  <1>2. /\ daemon.pc = "applying" /\ catalog.applied < daemon.scan /\ journal' = journal /\ bound' = bound
        /\ \/ journal[n].kind = "view" /\ ApplyViewRecord(journal[n].row)
           \/ /\ journal[n].kind \in {"delivered", "insert", "retract"} /\ daemon' = daemon /\ history' = history
              /\ catalog' = [catalog EXCEPT !.facts = FactsAfter(journal[n], n), !.applied = @ + 1]
           \/ /\ journal[n].kind = "expunge" /\ daemon' = daemon /\ history' = history
              /\ catalog' = [catalog EXCEPT !.expunged[journal[n].msg] = n, !.applied = @ + 1]
    BY <1>1 DEF ApplyRecord
  <1>3. /\ Typed /\ PassInv /\ RowsInv /\ JournalInv /\ CopyInv /\ RepeatInv /\ daemon.pending = << >> /\ ~Working
        /\ catalog \in Catalogs /\ catalog.applied \in Nat /\ daemon.scan \in 1 .. Len(journal)
        /\ Len(journal) \in Nat /\ DOMAIN journal = 1 .. Len(journal) /\ daemon \in Daemons
        /\ history \in Histories
    BY <1>2, LenProperties DEF IInv, RebuildInv, PassInv, Typed, Working, Catalogs
  <1>4. n \in Nat /\ n \in DOMAIN journal /\ n <= Len(journal)
    BY <1>1, <1>2, <1>3
  <1>5. /\ ~Working' /\ daemon'.pending = << >> /\ history'.deleted = history.deleted
        /\ history'.lost = history.lost /\ history'.reverted = history.reverted
        /\ daemon'.pc = "applying" => daemon'.scan = daemon.scan
        /\ catalog'.names = catalog.names /\ catalog'.refreshed = catalog.refreshed
    <2>1. /\ daemon' \in {daemon, [daemon EXCEPT !.pc = "conflict"]}
          /\ history' \in {history, [history EXCEPT !.named = @ \cup Seen({journal[n].row})]}
      BY <1>2 DEF ApplyViewRecord
    <2>2. catalog'.names = catalog.names /\ catalog'.refreshed = catalog.refreshed
      BY <1>2, <1>3 DEF ApplyViewRecord, Catalogs
    <2>3. /\ history'.deleted = history.deleted
          /\ history'.lost = history.lost /\ history'.reverted = history.reverted
      BY <1>3, <2>1 DEF Histories
    <2>4. /\ daemon'.pending = << >> /\ (daemon'.pc = "applying" => daemon'.scan = daemon.scan)
          /\ daemon'.pc \in {"applying", "conflict"}
      BY <1>2, <1>3, <2>1 DEF Daemons
    <2> QED
      BY <2>2, <2>3, <2>4 DEF Working
  <1>6. CopyInv' /\ RepeatInv'
    BY <1>2, <1>3, <1>5, SameCopyInv, SameRepeatInv
  <1>7. FirstInv'
    BY <1>5 DEF FirstInv
  <1>8. (Untouched' <=> Untouched) /\ (Touched' <=> Touched)
    BY <1>3, <1>5 DEF Untouched, Touched
  <1>9. CASE catalog' = catalog
    BY <1>2, <1>3, <1>5, <1>6, <1>7, <1>8, <1>9, SameJournalInv DEF RebuildInv
  <1>10. ASSUME catalog'.applied = n, ~history.lost
         PROVE  Unapplied' \subseteq Unapplied /\ Waiting' = Waiting /\ Waiting = {}
                /\ \A rows : Overlaid(rows, Waiting) = rows
    <2>1. Unapplied' \subseteq Unapplied
      BY <1>1, <1>2, <1>3, <1>10 DEF Unapplied, IsView
    <2>2. Waiting' = Waiting
      BY <1>3, <1>5 DEF Waiting
    <2> QED
      BY <1>3, <2>1, <2>2, NothingWaits
  <1>11. CASE journal[n].kind # "view"
    <2>1. catalog'.rows = catalog.rows /\ catalog'.uidnext = catalog.uidnext /\ catalog'.applied = n
      BY <1>1, <1>2, <1>3, <1>11 DEF Catalogs
    <2>2. /\ Replayed(journal, n) = Replayed(journal, catalog.applied)
          /\ Recorded(journal, n) = Recorded(journal, catalog.applied)
      BY <1>1, <1>3, <1>11, ReplayOne DEF IsRow
    <2>3. JournalInv'
      <3> SUFFICES ASSUME ~history.lost PROVE JournalInv'
        BY <1>5 DEF JournalInv
      <3> QED
        BY <1>2, <1>3, <1>5, <1>8, <1>10, <2>1, <2>2 DEF JournalInv
    <2> QED
      BY <1>6, <1>7, <2>3 DEF RebuildInv
  <1>12. CASE journal[n].kind = "view" /\ catalog' # catalog
    <2>1. PICK row : row = journal[n].row
      OBVIOUS
    <2>2. row \in Rows /\ row.view \in Views /\ row.uid \in Nat
      BY <1>3, <1>4, <1>12, <2>1 DEF Typed, Records, ViewRecords, Rows
    <2>3. catalog' = [catalog EXCEPT !.rows = (@ \ {r \in catalog.rows : SameMembership(r, row)}) \cup {row},
                        !.uidnext[row.view] = UidnextPast(row), !.applied = @ + 1]
      BY <1>2, <1>12, <2>1 DEF ApplyViewRecord
    <2>4. PICK uidnext : uidnext = UidnextPast(row)
      OBVIOUS
    <2>5. /\ catalog'.rows = Overlaid(catalog.rows, {row}) /\ catalog'.applied = n
          /\ catalog'.uidnext = [catalog.uidnext EXCEPT ![row.view] = uidnext]
      BY <1>1, <1>3, <2>3, <2>4 DEF Catalogs, Overlaid
    <2>6. /\ uidnext \in Nat /\ catalog.uidnext[row.view] <= uidnext /\ row.uid < uidnext
          /\ uidnext = catalog.uidnext[row.view] \/ uidnext = row.uid + 1
      <3>1. {catalog.uidnext[row.view], row.uid + 1} = {catalog.uidnext[row.view]} \cup {x.uid + 1 : x \in {row}}
        OBVIOUS
      <3>2. catalog.uidnext[row.view] \in Nat /\ IsFiniteSet({row})
        BY <1>3, <2>2, FS_Singleton DEF Catalogs
      <3> QED
        BY <2>2, <2>4, <3>1, <3>2, MaxIsPast DEF UidnextPast
    <2>7. /\ Replayed(journal, n) = Overlaid(Replayed(journal, catalog.applied), {row})
          /\ Recorded(journal, n) = Recorded(journal, catalog.applied) \cup {row}
      BY <1>1, <1>3, <1>12, <2>1, ReplayOne DEF IsRow
    <2>8. catalog.uidnext \in [Views -> Nat]
      BY <1>3 DEF Catalogs
    <2>9. ASSUME ~history.lost, Untouched
          PROVE  catalog'.rows = Replayed(journal, n) /\ Numbered(catalog'.uidnext, Recorded(journal, n))
      <3>1. /\ catalog.rows = Replayed(journal, catalog.applied)
            /\ Numbered(catalog.uidnext, Recorded(journal, catalog.applied))
        BY <1>3, <2>9 DEF JournalInv
      <3>2. \A r \in Recorded(journal, catalog.applied) : r.uid \in Nat /\ r.view \in Views
        BY <1>1, <1>3, <1>4, RecordedRows
      <3>3. Numbered(catalog'.uidnext, Recorded(journal, n))
        BY <2>2, <2>5, <2>6, <2>7, <2>8, <3>1, <3>2 DEF Numbered
      <3> QED
        BY <2>5, <2>7, <3>1, <3>3
    <2>10. ASSUME ~history.lost, Touched
           PROVE  catalog'.rows = catalog.rows /\ catalog'.uidnext = catalog.uidnext
      <3>1. /\ Numbered(catalog.uidnext, Recorded(journal, Len(journal)) \cup Waiting)
            /\ \A i \in Unapplied : journal[i].row \in catalog.rows
        BY <1>3, <2>10 DEF JournalInv
      <3>2. n \in Unapplied
        BY <1>1, <1>3, <1>4, <1>12 DEF Unapplied, IsView
      <3>3. row \in catalog.rows /\ \A r \in catalog.rows : SameMembership(r, row) => r = row
        BY <1>3, <2>1, <3>1, <3>2 DEF RowsInv
      <3>4. row \in Recorded(journal, Len(journal))
        BY <1>3, <1>4, <1>12, <2>1 DEF Recorded, IsRow
      <3>5. row.uid < catalog.uidnext[row.view]
        BY <2>2, <3>1, <3>4 DEF Numbered
      <3>6. uidnext = catalog.uidnext[row.view]
        BY <2>2, <2>6, <2>8, <3>5
      <3> QED
        BY <2>2, <2>5, <2>8, <3>3, <3>6 DEF Overlaid
    <2>11. JournalInv'
      <3> SUFFICES ASSUME ~history.lost PROVE JournalInv'
        BY <1>5 DEF JournalInv
      <3>1. Untouched => /\ catalog'.rows = Replayed(journal', catalog'.applied)
                         /\ Numbered(catalog'.uidnext, Recorded(journal', catalog'.applied))
        BY <1>2, <2>5, <2>9
      <3>2. Touched => /\ catalog'.rows = Overlaid(Replayed(journal', Len(journal')), Waiting')
                       /\ Numbered(catalog'.uidnext, Recorded(journal', Len(journal')) \cup Waiting')
                       /\ \A i \in Unapplied' : journal'[i].row \in catalog'.rows
        BY <1>2, <1>3, <1>10, <2>5, <2>10 DEF JournalInv
      <3> QED
        BY <1>8, <3>1, <3>2 DEF JournalInv
    <2> QED
      BY <1>6, <1>7, <2>11 DEF RebuildInv
  <1> QED
    BY <1>9, <1>11, <1>12

(* A pass that has applied everything there was when it began has the      *)
(* rows the journal brings back.                                           *)
LEMMA BeginRefreshRebuilds ==
  ASSUME IInv, RebuildInv, BeginRefresh
  PROVE  RebuildInv'
  <1>1. /\ daemon.pc = "applying" /\ catalog.applied = daemon.scan /\ daemon' = Refreshing
        /\ journal' = journal /\ catalog' = catalog /\ bound' = bound /\ history' = history
    BY DEF BeginRefresh
  <1>2. /\ Typed /\ PassInv /\ JournalInv /\ CopyInv /\ RepeatInv /\ daemon.pending = << >> /\ ~Working
        /\ catalog.applied \in Nat /\ catalog.applied <= Len(journal) /\ daemon \in Daemons
        /\ Len(journal) \in Nat /\ DOMAIN journal = 1 .. Len(journal)
    BY <1>1, LenProperties DEF IInv, RebuildInv, PassInv, Typed, Working, Catalogs
  <1>3. /\ daemon'.pc \in {"idle", "naming"} /\ daemon'.pending = << >> /\ daemon'.scope = 1
    BY <1>1, <1>2 DEF Refreshing, Daemons
  <1>4. CopyInv' /\ RepeatInv' /\ FirstInv'
    BY <1>1, <1>2, <1>3, SameCopyInv, SameRepeatInv DEF FirstInv
  <1>5. \A i \in DOMAIN journal : IsView(i) => i <= catalog.applied
    BY <1>1, <1>2 DEF PassInv
  <1>6. JournalInv'
    <2> SUFFICES ASSUME ~history.lost PROVE JournalInv'
      BY <1>1 DEF JournalInv
    <2>1. CASE Touched \/ ~Touched'
      BY <1>1, <1>2, <1>3, <2>1, SameJournalInv DEF Untouched
    <2>2. CASE ~Touched
      <3>1. Untouched /\ Untouched'
        BY <1>1, <2>2 DEF Touched, Untouched
      <3>2. /\ Replayed(journal, Len(journal)) = Replayed(journal, catalog.applied)
            /\ Recorded(journal, Len(journal)) = Recorded(journal, catalog.applied)
        <4>1. \A i \in (catalog.applied + 1) .. Len(journal) : ~IsRow(journal, i)
          BY <1>2, <1>5 DEF IsRow, IsView
        <4> QED
          BY <1>2, <4>1, ReplayRest
      <3>3. Waiting' = {} /\ \A rows : Overlaid(rows, Waiting') = rows
        BY <1>2, <1>3, NothingWaits DEF Waiting
      <3>4. Unapplied' = {}
        BY <1>1, <1>2, <1>5 DEF Unapplied, IsView
      <3>5. /\ catalog.rows = Replayed(journal, catalog.applied)
            /\ Numbered(catalog.uidnext, Recorded(journal, catalog.applied))
        BY <1>2, <3>1 DEF JournalInv
      <3>6. Recorded(journal, catalog.applied) \cup {} = Recorded(journal, catalog.applied)
        OBVIOUS
      <3> QED
        BY <1>1, <3>1, <3>2, <3>3, <3>4, <3>5, <3>6 DEF JournalInv
    <2> QED
      BY <2>1, <2>2
  <1> QED
    BY <1>4, <1>6 DEF RebuildInv

(* The first view of a full refresh has messages to evaluate.              *)
LEMMA FullHasWork ==
  ASSUME Typed, PassInv, Working, daemon.full, NEW m \in Messages
  PROVE  Components(View) # {}
  <1>1. daemon.since = 0 /\ 0 < catalog.applied /\ View \in Views
    BY ViewOfRefresh DEF PassInv
  <1>2. DeliveredMessages = Messages /\ m \in Changed(daemon.since)
    BY <1>1 DEF DeliveredMessages, Changed
  <1>3. <<m, m>> \in IF View = "thread" THEN Threads(Linked(ThreadLinks(daemon.since, daemon.full)))
                     ELSE Near(View, {})
    BY <1>1, ThreadsReflexive, NearEquivalence
  <1> QED
    BY <1>2, <1>3 DEF Components

(* Naming a view changes no row.                                           *)
LEMMA NameViewRebuilds ==
  ASSUME IInv, RebuildInv, NameView
  PROVE  RebuildInv'
  <1>1. /\ daemon.pc = "naming" /\ Working /\ journal' = journal /\ bound' = bound /\ history' = history
        /\ \/ /\ catalog' = IF View = "account" THEN catalog
                            ELSE [catalog EXCEPT !.names[View] = daemon.config.names[View]]
              /\ daemon' = [daemon EXCEPT !.pc = "refreshing", !.todo = Components(View)]
           \/ catalog' = catalog /\ daemon' = [daemon EXCEPT !.pc = "held", !.due = TRUE]
    BY DEF NameView, Working
  <1>2. /\ Typed /\ PassInv /\ JournalInv /\ CopyInv /\ RepeatInv /\ FirstInv /\ daemon.pending = << >>
        /\ catalog \in Catalogs /\ daemon \in Daemons
    BY <1>1 DEF IInv, RebuildInv, PassInv, Typed
  <1>3. /\ daemon.config \in Configs /\ View \in Views /\ daemon.config.names[View] # None
    BY <1>1, <1>2, ViewOfRefresh, ViewsAssumption
  <1>4. /\ daemon'.pending = daemon.pending /\ daemon'.pc \in {"refreshing", "held"}
        /\ daemon'.full = daemon.full /\ daemon'.config = daemon.config /\ daemon'.scope = daemon.scope
        /\ daemon'.pc = "refreshing" => daemon'.todo = Components(View)
    BY <1>1, <1>2 DEF Daemons
  <1>5. /\ catalog'.rows = catalog.rows /\ catalog'.uidnext = catalog.uidnext
        /\ catalog'.applied = catalog.applied
        /\ catalog'.names \in {catalog.names, [catalog.names EXCEPT ![View] = daemon.config.names[View]]}
    BY <1>1, <1>2 DEF Catalogs
  <1>6. Untouched' => Untouched
    <2>1. Empty.names[View] = None
      BY <1>3 DEF Empty
    <2>2. catalog.names \in [Views -> Names]
      BY <1>2 DEF Catalogs
    <2>3. [catalog.names EXCEPT ![View] = daemon.config.names[View]] # Empty.names
      BY <1>3, <2>1, <2>2
    <2> QED
      BY <1>5, <2>3 DEF Untouched, Empty
  <1>7. JournalInv'
    BY <1>1, <1>2, <1>4, <1>5, <1>6, SameJournalInv DEF Touched
  <1>8. CopyInv' /\ RepeatInv'
    BY <1>1, <1>2, <1>4, <1>5, SameCopyInv, SameRepeatInv
  <1>9. FirstInv'
    BY <1>1, <1>2, <1>4, FullHasWork DEF FirstInv
  <1> QED
    BY <1>7, <1>8, <1>9 DEF RebuildInv

(* In a refresh whose facts are the copy's, the truth is what the journal  *)
(* says.                                                                   *)
LEMMA RepeatedTruth ==
  ASSUME IInv, CopyInv, Working, history.deleted # None, history.deleted.changes = bound.changes
  PROVE  \A config, view : Truth(config, view) = Says(config, view)
  <1>1. 0 < catalog.applied /\ catalog.applied \in Nat /\ Len(journal) \in Nat /\ DOMAIN journal = 1 .. Len(journal)
    BY LenProperties DEF IInv, PassInv, Typed, Catalogs
  <1>2. history.deleted # None /\ history.deleted \in Copies
    BY DEF IInv, Typed, Histories
  <1>3. history.deleted.records \in Nat
    BY <1>2 DEF Copies
  <1>4. \A i \in DOMAIN journal : catalog.applied < i => IsView(i)
    BY <1>1, <1>2, <1>3 DEF CopyInv
  <1> QED
    BY <1>1, <1>4, AppliedIsStated DEF Truth, Says

(* The rows of the catalog are those the journal brings back.              *)
LEMMA RowsAreReplayed ==
  ASSUME JournalInv, ~history.lost, Touched, daemon.pending = << >>
  PROVE  /\ catalog.rows = Replayed(journal, Len(journal))
         /\ Numbered(catalog.uidnext, Recorded(journal, Len(journal)))
  <1>1. Recorded(journal, Len(journal)) \cup {} = Recorded(journal, Len(journal))
    OBVIOUS
  <1> QED
    BY <1>1, NothingWaits DEF JournalInv

(* A view is right as evaluated if it is right as stated.                  *)
LEMMA RightAsSaid ==
  ASSUME NEW config, NEW view, NEW m, Truth(config, view) = Says(config, view)
  PROVE  RightIn(catalog.rows, config, view, m) <=> RightAt(config, view, m)
  <1>1. \A r : r \in RowsOf(view, m) <=> r \in catalog.rows /\ r.view = view /\ r.msg = m
    BY DEF RowsOf
  <1> QED
    BY <1>1 DEF RightIn, RightAt

(* What is right already is not changed by a batch.                        *)
LEMMA RightStays ==
  ASSUME IInv, NEW c, NEW changes, NEW order, NEW uidnext, BatchDone(c, changes, order, uidnext),
         \A m \in Messages : RightAt(daemon.config, View, m)
  PROVE  changes = {}
  <1> DEFINE batch == BatchThrough(c)  members == BatchMembers(View, BatchThrough(c))
  <1>1. Typed /\ PassInv /\ Working
    BY DEF IInv, BatchDone, Working
  <1>2. /\ daemon.config \in Configs /\ View \in Views /\ View = daemon.config.scopes[daemon.scope]
        /\ daemon.scope \in Nat /\ daemon.since \in Nat /\ daemon.full \in BOOLEAN
    BY <1>1, ViewOfRefresh DEF Typed, Daemons
  <1>3. \A p \in daemon.todo, n \in Messages :
          <<p[2], n>> \in Reach(View, daemon.since, daemon.full) => <<p[1], n>> \in daemon.todo
    BY <1>2 DEF IInv, TodoInv, BatchDone, AtWork
  <1>4. /\ batch \in SUBSET Messages
        /\ \A m \in batch : m \in members <=> m \in Truth(daemon.config, View)
    BY <1>1, <1>2, <1>3, BatchIsRight
  <1>5. changes = Changes(View, batch, members)
    BY DEF BatchDone, BatchChanges
  <1> HIDE DEF batch, members
  <1>6. PICK view, config : view = View /\ config = daemon.config
    OBVIOUS
  <1>7. Flipped(view, batch, members) = {}
    <2> SUFFICES ASSUME NEW r \in Flipped(view, batch, members) PROVE FALSE
      OBVIOUS
    <2>1. /\ r \in catalog.rows /\ r.view = view /\ r.msg \in batch
          /\ r.visible # (r.rules = config.rules /\ r.msg \in members)
      BY <1>6 DEF Flipped
    <2>2. r.visible \in BOOLEAN
      BY <1>1, <2>1 DEF Typed, Catalogs, Rows
    <2>3. r \in RowsOf(view, r.msg) /\ RightAt(config, view, r.msg)
      BY <1>4, <1>6, <2>1 DEF RowsOf
    <2>4. r.visible <=> r.rules = config.rules /\ r.msg \in members
      BY <1>4, <1>6, <2>1, <2>3 DEF RightAt
    <2> QED
      BY <2>1, <2>2, <2>4
  <1>8. Entering(view, batch, members) = {}
    <2> SUFFICES ASSUME NEW m \in Entering(view, batch, members) PROVE FALSE
      OBVIOUS
    <2>1. m \in batch /\ m \in members /\ \A r \in RowsOf(view, m) : r.rules # config.rules
      BY <1>6 DEF Entering
    <2>2. RightAt(config, view, m) /\ m \in Truth(config, view)
      BY <1>4, <1>6, <2>1
    <2> QED
      BY <2>1, <2>2 DEF RightAt
  <1> QED
    BY <1>5, <1>6, <1>7, <1>8 DEF Changes, Inserted

(* A batch adds its changes to the rows and to the records that wait.      *)
LEMMA RefreshBatchRebuilds ==
  ASSUME IInv, IInv', RebuildInv, RefreshBatch
  PROVE  RebuildInv'
  <1>1. /\ daemon.pc = "refreshing" /\ daemon.pending = << >> /\ journal' = journal /\ bound' = bound /\ Working
    BY DEF RefreshBatch, Working
  <1>2. /\ Typed /\ PassInv /\ JournalInv /\ CopyInv /\ RepeatInv /\ Touched
        /\ catalog \in Catalogs /\ daemon \in Daemons /\ history \in Histories
    BY <1>1 DEF IInv, RebuildInv, Typed, Touched
  <1>3. daemon.config \in Configs /\ View \in Views /\ daemon.config.names[View] # None
    BY <1>1, <1>2, ViewOfRefresh, ViewsAssumption
  <1>4. PICK c, changes, order, uidnext : BatchDone(c, changes, order, uidnext)
    BY BatchIsDone
  <1>5. PICK through, other : Commit(View, other, through)
    BY DEF RefreshBatch
  <1>6. ~Untouched'
    <2> DEFINE rows == {r \in catalog.rows : \A x \in other : ~SameMembership(r, x)} \cup other
               past == Max({catalog.uidnext[View]} \cup {x.uid + 1 : x \in other})
    <2>1. catalog' = [catalog EXCEPT !.rows = rows, !.names[View] = daemon.config.names[View],
                                     !.uidnext[View] = past]
      BY <1>5 DEF Commit
    <2> HIDE DEF rows, past
    <2>2. catalog'.names = [catalog.names EXCEPT ![View] = daemon.config.names[View]]
      BY <1>2, <2>1 DEF Catalogs
    <2>3. catalog'.names[View] = daemon.config.names[View] /\ Empty.names[View] = None
      BY <1>2, <1>3, <2>2 DEF Catalogs, Empty
    <2> QED
      BY <1>3, <2>3 DEF Untouched, Empty
  <1>7. /\ history'.deleted = IF history.deleted # None /\ history.deleted.current # daemon.config
                              THEN None ELSE history.deleted
        /\ history'.reverted <=>
             history.reverted \/ (catalog.refreshed # None /\ catalog.refreshed.config # daemon.config)
        /\ history'.lost = history.lost
    <2> DEFINE named == history.named \cup Seen(other)
               deleted == IF history.deleted # None /\ history.deleted.current # daemon.config
                          THEN None ELSE history.deleted
               reverted == history.reverted \/ (catalog.refreshed # None /\ catalog.refreshed.config # daemon.config)
    <2>1. history' = [history EXCEPT !.named = named, !.deleted = deleted, !.reverted = reverted]
      BY <1>5 DEF Commit
    <2>2. history'.deleted = deleted
      <3> HIDE DEF named, deleted, reverted
      <3> QED
        BY <1>2, <2>1 DEF Histories
    <2>3. /\ history'.reverted <=>
               history.reverted \/ (catalog.refreshed # None /\ catalog.refreshed.config # daemon.config)
          /\ history'.lost = history.lost
      BY <1>4 DEF BatchDone
    <2> QED
      BY <2>2, <2>3
  <1>8. /\ catalog'.rows = Overlaid(catalog.rows, changes) /\ catalog'.applied = catalog.applied
        /\ catalog'.uidnext = [catalog.uidnext EXCEPT ![View] = uidnext]
        /\ daemon'.pc = "refreshing" /\ daemon'.config = daemon.config
        /\ daemon'.pending = [i \in DOMAIN order |-> [kind |-> "view", row |-> order[i]]]
        /\ Ordered(order, changes) /\ DOMAIN order = 1 .. Cardinality(changes)
    BY <1>1, <1>4 DEF BatchDone, Committed, Overlaid, FactsSame, Ordered
  <1>9. /\ changes \subseteq Rows /\ IsFiniteSet(changes)
        /\ \A x \in changes : x.view = View /\ x.uid \in Nat
        /\ uidnext \in Nat /\ catalog.uidnext[View] <= uidnext /\ \A x \in changes : x.uid < uidnext
        /\ uidnext = catalog.uidnext[View] \/ \E x \in changes : uidnext = x.uid + 1
    <2>1. /\ changes \subseteq Rows /\ IsFiniteSet(changes)
          /\ \A x \in changes : x.view = View /\ x.uid \in Nat
          /\ uidnext \in Nat /\ catalog.uidnext[View] <= uidnext /\ \A x \in changes : x.uid < uidnext
      BY <1>4, BatchParts
    <2>2. uidnext = Max({catalog.uidnext[View]} \cup {x.uid + 1 : x \in changes})
      BY <1>4 DEF BatchDone
    <2>3. catalog.uidnext[View] \in Nat
      BY <1>2, <1>3 DEF Catalogs
    <2>4. PICK u : u = catalog.uidnext[View]
      OBVIOUS
    <2>5. \A x \in changes : x.uid \in Nat
      BY <2>1
    <2>6. uidnext = u \/ \E x \in changes : uidnext = x.uid + 1
      <3>1. u \in Nat /\ uidnext = Max({u} \cup {x.uid + 1 : x \in changes})
        BY <2>2, <2>3, <2>4
      <3>2. IsFiniteSet(changes)
        BY <2>1
      <3> QED
        BY <2>5, <3>1, <3>2, MaxIsPast
    <2> QED
      BY <2>1, <2>4, <2>6
  <1>10. Working'
    BY <1>8 DEF Working
  <1>11. CopyInv'
    BY <1>1, <1>2, <1>7, <1>8, SameCopyInv
  <1>12. FirstInv'
    BY <1>7, <1>8 DEF FirstInv
  <1>13. JournalInv'
    <2> SUFFICES ASSUME ~history.lost PROVE JournalInv'
      BY <1>7 DEF JournalInv
    <2>1. /\ catalog.rows = Replayed(journal, Len(journal))
          /\ Numbered(catalog.uidnext, Recorded(journal, Len(journal)))
      BY <1>1, <1>2, RowsAreReplayed
    <2>2. Waiting' = changes
      <3>1. \A x \in changes : \E i \in DOMAIN order : order[i] = x
        <4>1. IsFiniteSet(changes) /\ changes \subseteq Rows /\ Ordered(order, changes)
          BY <1>8, <1>9
        <4> QED
          BY <4>1, OrderHasAll
      <3>2. \A i \in DOMAIN order : order[i] \in changes
        BY <1>8 DEF Ordered
      <3>3. DOMAIN daemon'.pending = DOMAIN order /\ \A i \in DOMAIN order : daemon'.pending[i].row = order[i]
        BY <1>8
      <3> QED
        BY <3>1, <3>2, <3>3 DEF Waiting
    <2>3. \A r \in Recorded(journal, Len(journal)) : r.uid \in Nat /\ r.view \in Views
      <3>1. Len(journal) \in Nat
        BY <1>2, LenProperties DEF Typed
      <3> QED
        BY <1>2, <3>1, RecordedRows
    <2>4. catalog.uidnext \in [Views -> Nat]
      BY <1>2 DEF Catalogs
    <2>5. Numbered(catalog'.uidnext, Recorded(journal, Len(journal)) \cup changes)
      BY <1>3, <1>8, <1>9, <2>1, <2>3, <2>4 DEF Numbered
    <2>6. \A i \in Unapplied' : journal'[i].row \in catalog'.rows
      BY <1>10 DEF IInv, RowsInv
    <2> QED
      BY <1>1, <1>6, <1>8, <2>1, <2>2, <2>5, <2>6 DEF JournalInv
  <1>14. RepeatInv'
    <2> SUFFICES ASSUME Repeats' PROVE RepeatInv'
      BY DEF RepeatInv
    <2>1. Repeats /\ history'.deleted = history.deleted /\ history.deleted.current = daemon.config
      BY <1>1, <1>7 DEF Repeats
    <2>2. catalog.rows = Replayed(journal, Len(journal))
      BY <1>1, <1>2, <2>1, RowsAreReplayed DEF Repeats
    <2>3. PICK config, view, i : /\ config = daemon.config /\ view = View /\ i = daemon.scope
                                 /\ config \in Configs /\ i \in DOMAIN config.scopes /\ view = config.scopes[i]
      BY <1>1, <1>2, ViewOfRefresh
    <2>4. \A m \in Messages : RightIn(catalog.rows, config, view, m)
      BY <1>2, <2>1, <2>2, <2>3 DEF RepeatInv
    <2>5. Truth(config, view) = Says(config, view)
      BY <1>1, <1>2, <2>1, RepeatedTruth DEF Repeats
    <2>6. \A m \in Messages : RightAt(daemon.config, View, m)
      <3>1. \A m \in Messages : RightAt(config, view, m)
        BY <2>4, <2>5, RightAsSaid
      <3> QED
        BY <2>3, <3>1
    <2>7. changes = {}
      BY <1>4, <2>6, RightStays
    <2>8. daemon'.pending = << >>
      <3>1. DOMAIN daemon'.pending = {}
        <4>1. Cardinality(changes) = 0
          BY <2>7, FS_EmptySet
        <4>2. DOMAIN daemon'.pending = DOMAIN order /\ DOMAIN order = 1 .. Cardinality(changes)
          BY <1>8
        <4> QED
          BY <4>1, <4>2
      <3>2. daemon'.pending \in Seq(ViewRecords)
        BY DEF IInv, Typed, Daemons
      <3>3. Len(daemon'.pending) \in Nat /\ DOMAIN daemon'.pending = 1 .. Len(daemon'.pending)
        BY <3>2, LenProperties
      <3>4. ASSUME NEW n \in Nat, 1 .. n = {} PROVE n = 0
        <4>1. 1 \notin 1 .. n
          BY <3>4
        <4> QED
          BY <4>1
      <3>5. Len(daemon'.pending) = 0
        BY <3>1, <3>3, <3>4
      <3> QED
        BY <3>2, <3>5, EmptySeq
    <2>9. \A rows, x, v, m : RightIn(rows, x, v, m)' <=> RightIn(rows, x, v, m)
      BY <1>1, SameSays DEF RightIn
    <2> QED
      BY <1>1, <1>2, <2>1, <2>8, <2>9 DEF RepeatInv
  <1> QED
    BY <1>11, <1>12, <1>13, <1>14 DEF RebuildInv

(* A record that waited becomes one of the journal's.                      *)
LEMMA AppendChangeRebuilds ==
  ASSUME IInv, IInv', RebuildInv, AppendChange
  PROVE  RebuildInv'
  <1> DEFINE rest == Tail(daemon.pending)
  <1>1. /\ daemon.pending # << >> /\ journal' = Append(journal, Head(daemon.pending))
        /\ daemon' = [daemon EXCEPT !.pending = rest]
        /\ catalog' = catalog /\ bound' = bound /\ history' = history
    BY DEF AppendChange
  <1>2. /\ Typed /\ PassInv /\ RowsInv /\ JournalInv /\ CopyInv /\ RepeatInv /\ FirstInv
        /\ daemon \in Daemons /\ daemon.pending \in Seq(ViewRecords) /\ Working
        /\ catalog.applied \in Nat /\ catalog.applied <= Len(journal)
    BY <1>1 DEF IInv, RebuildInv, Typed, PassInv, Daemons, Working, Catalogs
  <1>3. PICK r \in ViewRecords : r = Head(daemon.pending) /\ r = daemon.pending[1]
    BY <1>1, <1>2, HeadTailProperties
  <1>4. r \in Records /\ r.kind = "view" /\ r.row \in Rows
    BY DEF ViewRecords, Records
  <1>5. Waiting = {r.row} \cup {rest[i].row : i \in DOMAIN rest}
    <2> DEFINE last == Len(daemon.pending)
    <2>1. rest \in Seq(ViewRecords) /\ Len(rest) = last - 1
      BY <1>1, <1>2, HeadTailProperties
    <2>2. last \in Nat /\ DOMAIN daemon.pending = 1 .. last /\ last # 0
      BY <1>1, <1>2, LenProperties, EmptySeq
    <2>3. DOMAIN rest = 1 .. last - 1
      BY <2>1, LenProperties
    <2>4. \A i \in 1 .. last - 1 : rest[i] = daemon.pending[i + 1]
      BY <1>1, <1>2, <2>1, HeadTailProperties
    <2> HIDE DEF rest, last
    <2>5. ASSUME NEW i \in 1 .. last PROVE i = 1 \/ (i - 1 \in 1 .. last - 1 /\ rest[i - 1] = daemon.pending[i])
      BY <2>2, <2>4
    <2>6. \A i \in 1 .. last - 1 : i + 1 \in 1 .. last /\ rest[i] = daemon.pending[i + 1]
      BY <2>2, <2>4
    <2>7. 1 \in 1 .. last
      BY <2>2
    <2>8. \A x \in Waiting : x \in {r.row} \cup {rest[i].row : i \in DOMAIN rest}
      <3> SUFFICES ASSUME NEW i \in 1 .. last
                   PROVE  daemon.pending[i].row \in {r.row} \cup {rest[j].row : j \in DOMAIN rest}
        BY <2>2 DEF Waiting
      <3>1. CASE i = 1
        BY <1>3, <3>1
      <3>2. CASE i - 1 \in 1 .. last - 1 /\ rest[i - 1] = daemon.pending[i]
        BY <2>3, <3>2
      <3> QED
        BY <2>5, <3>1, <3>2
    <2>9. \A x \in {r.row} \cup {rest[i].row : i \in DOMAIN rest} : x \in Waiting
      <3>1. r.row \in Waiting
        BY <1>3, <2>2, <2>7 DEF Waiting
      <3>2. ASSUME NEW i \in DOMAIN rest PROVE rest[i].row \in Waiting
        BY <2>2, <2>3, <2>6 DEF Waiting
      <3> QED
        BY <3>1, <3>2
    <2> QED
      BY <2>8, <2>9
  <1>6. /\ daemon'.pending = rest /\ daemon'.pc = daemon.pc /\ daemon'.full = daemon.full
        /\ daemon'.config = daemon.config /\ daemon'.scope = daemon.scope /\ daemon'.todo = daemon.todo
        /\ daemon'.scan = daemon.scan
    <2> HIDE DEF rest
    <2> QED
      BY <1>1, <1>2 DEF Daemons
  <1>7. Waiting = {r.row} \cup Waiting'
    BY <1>5, <1>6 DEF Waiting
  <1> HIDE DEF rest
  <1>8. Working' /\ (Untouched' <=> Untouched) /\ Touched /\ ~Repeats
    BY <1>1, <1>2, <1>6 DEF Working, Untouched, Touched, RepeatInv
  <1>9. journal' = Append(journal, r)
    BY <1>1, <1>3
  <1>10. /\ Len(journal) \in Nat /\ Len(journal') = Len(journal) + 1
         /\ \A i \in 1 .. Len(journal) : IsView(i)' <=> IsView(i)
         /\ IsRow(journal', Len(journal) + 1)
         /\ DOMAIN journal = 1 .. Len(journal) /\ DOMAIN journal' = 1 .. Len(journal) + 1
         /\ \A k \in 0 .. Len(journal) : /\ Replayed(journal', k) = Replayed(journal, k)
                                         /\ Recorded(journal', k) = Recorded(journal, k)
         /\ Replayed(journal', Len(journal')) = Overlaid(Replayed(journal, Len(journal)), {r.row})
         /\ Recorded(journal', Len(journal')) = Recorded(journal, Len(journal)) \cup {r.row}
    BY <1>2, <1>4, <1>9, LongerJournal
  <1>11. JournalInv'
    <2> SUFFICES ASSUME ~history.lost PROVE JournalInv'
      BY <1>1 DEF JournalInv
    <2>1. /\ catalog.rows = Overlaid(Replayed(journal, Len(journal)), Waiting)
          /\ Numbered(catalog.uidnext, Recorded(journal, Len(journal)) \cup Waiting)
      BY <1>2, <1>8 DEF JournalInv
    <2>2. \A x \in Waiting' : SameMembership(r.row, x) => x = r.row
      <3>1. Waiting \subseteq catalog.rows
        BY <2>1 DEF Overlaid
      <3> QED
        BY <1>2, <1>7, <3>1 DEF RowsInv
    <2>3. catalog.rows = Overlaid(Overlaid(Replayed(journal, Len(journal)), {r.row}), Waiting')
      BY <1>7, <2>1, <2>2 DEF Overlaid
    <2>4. Recorded(journal', Len(journal')) \cup Waiting' = Recorded(journal, Len(journal)) \cup Waiting
      BY <1>7, <1>10
    <2>5. \A i \in Unapplied' : journal'[i].row \in catalog'.rows
      BY <1>8 DEF IInv, RowsInv
    <2>6. catalog.applied \in 0 .. Len(journal)
      BY <1>2, <1>10
    <2>7. Untouched => /\ catalog.rows = Replayed(journal, catalog.applied)
                       /\ Numbered(catalog.uidnext, Recorded(journal, catalog.applied))
      BY <1>2 DEF JournalInv
    <2> QED
      BY <1>1, <1>8, <1>10, <2>1, <2>3, <2>4, <2>5, <2>6, <2>7 DEF JournalInv
  <1>12. CopyInv'
    <2> SUFFICES ASSUME history.deleted # None PROVE CopyInv'
      BY <1>1 DEF CopyInv
    <2>1. history.deleted.records \in Nat /\ history.deleted.records <= Len(journal)
      BY <1>2 DEF CopyInv, Typed, Histories, Copies
    <2>2. history.deleted.records \in 0 .. Len(journal)
      BY <1>10, <2>1
    <2>3. ASSUME history.deleted.changes = bound.changes, NEW i \in DOMAIN journal', history.deleted.records < i
          PROVE  IsView(i)'
      <3>1. CASE i \in DOMAIN journal
        BY <1>2, <1>10, <2>3, <3>1 DEF CopyInv
      <3>2. CASE i = Len(journal) + 1
        BY <1>10, <3>2 DEF IsRow, IsView
      <3> QED
        BY <1>10, <2>3, <3>1, <3>2
    <2> QED
      BY <1>1, <1>2, <1>6, <1>8, <1>10, <2>1, <2>2, <2>3 DEF CopyInv
  <1>13. RepeatInv'
    BY <1>1, <1>8 DEF RepeatInv, Repeats
  <1>14. FirstInv'
    BY <1>1, <1>2, <1>6 DEF FirstInv, Working
  <1> QED
    BY <1>11, <1>12, <1>13, <1>14 DEF RebuildInv

(* Changes by clients come after what the copy had.                        *)
LEMMA ChangeRebuilds ==
  ASSUME IInv, RebuildInv, Change
  PROVE  RebuildInv'
  <1> USE DEF SameButDue
  <1>1. /\ catalog' = catalog /\ SameButDue /\ history' = history
        /\ bound' = [bound EXCEPT !.changes = @ + 1]
    BY ChangeAsks DEF Change, IInv, Typed
  <1>2. PICK r \in Records : journal' = Append(journal, r) /\ r.kind # "view"
    BY ChangeRecord
  <1>3. /\ Typed /\ PassInv /\ JournalInv /\ CopyInv /\ RepeatInv /\ FirstInv
        /\ catalog.applied \in Nat /\ catalog.applied <= Len(journal)
        /\ bound'.changes = bound.changes + 1 /\ bound.changes \in Nat
    BY <1>1 DEF IInv, RebuildInv, Typed, PassInv, Catalogs
  <1>4. /\ Len(journal) \in Nat /\ Len(journal') = Len(journal) + 1
        /\ \A i \in 1 .. Len(journal) : journal'[i] = journal[i] /\ (IsView(i)' <=> IsView(i))
        /\ ~IsRow(journal', Len(journal) + 1)
        /\ DOMAIN journal = 1 .. Len(journal) /\ DOMAIN journal' = 1 .. Len(journal) + 1
        /\ \A k \in 0 .. Len(journal) : /\ Replayed(journal', k) = Replayed(journal, k)
                                        /\ Recorded(journal', k) = Recorded(journal, k)
        /\ Replayed(journal', Len(journal')) = Replayed(journal, Len(journal))
        /\ Recorded(journal', Len(journal')) = Recorded(journal, Len(journal))
    BY <1>2, <1>3, LongerJournal
  <1>5. Waiting' = Waiting /\ (Untouched' <=> Untouched) /\ (Touched' <=> Touched) /\ (Working' <=> Working)
    BY <1>1 DEF Waiting, Untouched, Touched, Working
  <1>6. \A i \in Unapplied' : i \in Unapplied /\ journal'[i] = journal[i]
    <2>1. \A i \in DOMAIN journal' : i \in DOMAIN journal \/ i = Len(journal) + 1
      BY <1>4
    <2> QED
      BY <1>1, <1>4, <2>1 DEF Unapplied, IsRow, IsView
  <1>7. catalog.applied \in 0 .. Len(journal)
    BY <1>3, <1>4
  <1>8. JournalInv'
    BY <1>1, <1>3, <1>4, <1>5, <1>6, <1>7 DEF JournalInv
  <1>9. history.deleted # None => /\ history.deleted.records \in 0 .. Len(journal)
                                  /\ history.deleted.changes \in Nat
                                  /\ history.deleted.changes < bound'.changes
    BY <1>3, <1>4 DEF CopyInv, Typed, Histories, Copies
  <1>10. CopyInv'
    <2> SUFFICES ASSUME history.deleted # None PROVE CopyInv'
      BY <1>1 DEF CopyInv
    <2>1. history.deleted.changes <= bound'.changes /\ history.deleted.changes # bound'.changes
      BY <1>3, <1>9
    <2>2. history.deleted.records <= Len(journal')
      BY <1>4, <1>9
    <2> QED
      BY <1>1, <1>3, <1>4, <1>5, <1>9, <2>1, <2>2 DEF CopyInv
  <1>11. RepeatInv'
    BY <1>1, <1>3, <1>9 DEF RepeatInv, Repeats
  <1>12. FirstInv'
    BY <1>1, <1>3, <1>5 DEF FirstInv
  <1> QED
    BY <1>8, <1>10, <1>11, <1>12 DEF RebuildInv

(* A refresh that ends leaves the rows, and after a full one they are what *)
(* the rules say.                                                          *)
LEMMA EndRefreshRebuilds ==
  ASSUME IInv, RebuildInv, EndRefresh
  PROVE  RebuildInv'
  <1>1. /\ daemon.pc = "refreshing" /\ daemon.pending = << >> /\ daemon.todo = {} /\ Working
        /\ daemon.scope = Len(daemon.config.scopes)
        /\ catalog' = [catalog EXCEPT !.refreshed = [config |-> daemon.config, sequence |-> daemon.latest]]
        /\ daemon' = [daemon EXCEPT !.pc = "idle"]
        /\ history' = [history EXCEPT !.reverted = @ /\ ~daemon.full]
        /\ journal' = journal /\ bound' = bound
    BY DEF EndRefresh, ScopeDone, Working
  <1>2. /\ Typed /\ PassInv /\ JournalInv /\ CopyInv /\ RepeatInv /\ FirstInv /\ ShownInv /\ Touched
        /\ catalog \in Catalogs /\ daemon \in Daemons /\ history \in Histories
    BY <1>1 DEF IInv, RebuildInv, Typed, Touched
  <1>3. /\ catalog'.rows = catalog.rows /\ catalog'.uidnext = catalog.uidnext
        /\ catalog'.applied = catalog.applied /\ catalog'.names = catalog.names
    BY <1>1, <1>2 DEF Catalogs
  <1>4. daemon'.pc = "idle" /\ daemon'.pending = daemon.pending /\ ~Working'
    BY <1>1, <1>2 DEF Daemons, Working
  <1>5. /\ history'.deleted = history.deleted /\ history'.lost = history.lost
        /\ ~history'.reverted => ~history.reverted \/ daemon.full
    BY <1>1, <1>2 DEF Histories
  <1>6. JournalInv'
    BY <1>1, <1>2, <1>3, <1>4, <1>5, SameJournalInv DEF Untouched, Empty
  <1>7. CopyInv' /\ FirstInv'
    BY <1>1, <1>2, <1>4, <1>5, SameCopyInv DEF FirstInv
  <1>8. RepeatInv'
    <2>1. CASE ~history'.reverted => ~history.reverted
      BY <1>1, <1>2, <1>4, <1>5, <2>1, SameRepeatInv
    <2>2. CASE daemon.full
      <3> SUFFICES ASSUME Repeats', NEW config \in Configs, history'.deleted.current = config,
                          NEW i \in DOMAIN config.scopes, NEW m \in Messages
                   PROVE  RightIn(Replayed(journal, Len(journal)), config, config.scopes[i], m)'
        BY <1>1, <1>4 DEF RepeatInv
      <3>1. history.deleted # None /\ ~history.lost /\ history.deleted.changes = bound.changes
        BY <1>1, <1>5 DEF Repeats
      <3>2. config = daemon.config
        BY <1>1, <1>2, <1>5, <2>2, <3>1 DEF FirstInv
      <3>3. PICK scope, since \in Nat : scope = daemon.scope /\ since = daemon.since
        BY <1>2 DEF Typed, Daemons
      <3>4. Within(config, scope, since, TRUE)
        BY <1>1, <1>2, <2>2, <3>2, <3>3 DEF ShownInv, AtWork
      <3>5. /\ DOMAIN config.scopes = 1 .. Len(config.scopes) /\ Len(config.scopes) \in Nat
            /\ scope = Len(config.scopes)
        BY <1>1, <1>2, <3>2, <3>3, ViewOfRefresh
      <3>6. Todo = {}
        BY <1>1 DEF Todo
      <3>7. RightAt(config, config.scopes[i], m)
        <4>1. i \in Nat /\ scope \in Nat /\ i <= scope
          BY <3>5
        <4>2. CASE i < scope
          BY <3>4, <4>2 DEF Within
        <4>3. CASE i = scope
          BY <1>1, <3>4, <3>6, <4>3 DEF Within
        <4> QED
          BY <4>1, <4>2, <4>3
      <3>8. Truth(config, config.scopes[i]) = Says(config, config.scopes[i])
        BY <1>1, <1>2, <3>1, RepeatedTruth
      <3>9. RightIn(catalog.rows, config, config.scopes[i], m)
        BY <3>7, <3>8, RightAsSaid
      <3>10. RightIn(Replayed(journal, Len(journal)), config, config.scopes[i], m)
        BY <1>1, <1>2, <3>1, <3>9, RowsAreReplayed
      <3> QED
        BY <1>1, <3>10, SameSays DEF RightIn
    <2> QED
      BY <1>5, <2>1, <2>2
  <1> QED
    BY <1>6, <1>7, <1>8 DEF RebuildInv

(* A catalog that is deleted after its refresh is what the journal brings  *)
(* back, and shows what the rules say if the refresh was of the last       *)
(* change.                                                                 *)
LEMMA DeleteCatalogRebuilds ==
  ASSUME IInv, RebuildInv, DeleteCatalog
  PROVE  RebuildInv'
  <1> DEFINE current == IF catalog.applied = Len(journal) /\ Latest <= catalog.refreshed.sequence
                        THEN catalog.refreshed.config ELSE None
             copy == [rows |-> catalog.rows, uidnext |-> catalog.uidnext, records |-> Len(journal),
                      changes |-> bound.changes, current |-> current]
             deleted == IF catalog.refreshed = None THEN history.deleted ELSE copy
  <1>1. /\ daemon.pc = "down" /\ ~Working /\ ~Working' /\ catalog' = Empty
        /\ history' = [history EXCEPT !.deleted = deleted]
        /\ journal' = journal /\ daemon' = daemon /\ bound' = [bound EXCEPT !.upsets = @ + 1]
    BY DEF DeleteCatalog, Upset, Working
  <1>2. /\ Typed /\ PassInv /\ JournalInv /\ CopyInv /\ RepeatInv /\ ShownInv /\ FactsInv /\ RowsInv
        /\ daemon.pending = << >> /\ history \in Histories /\ bound.changes \in Nat
        /\ Len(journal) \in Nat /\ DOMAIN journal = 1 .. Len(journal)
    BY <1>1, LenProperties DEF IInv, RebuildInv, PassInv, Typed
  <1>3. /\ history'.deleted = deleted /\ history'.lost = history.lost /\ history'.reverted = history.reverted
    <2> HIDE DEF deleted
    <2> QED
      BY <1>1, <1>2 DEF Histories
  <1>4. bound'.changes = bound.changes
    BY <1>1, <1>2 DEF Typed
  <1>5. FirstInv'
    BY <1>1 DEF FirstInv
  <1>6. JournalInv'
    <2>1. Replayed(journal, 0) = {} /\ Recorded(journal, 0) = {}
      BY DEF Replayed, Recorded
    <2>2. /\ catalog'.rows = {} /\ catalog'.applied = 0 /\ catalog'.refreshed = None
          /\ catalog'.uidnext = [v \in Views |-> 1] /\ Untouched'
      BY <1>1 DEF Empty, Untouched
    <2>3. Numbered(catalog'.uidnext, {})
      BY <2>2 DEF Numbered
    <2>4. ~Touched'
      BY <1>1, <2>2 DEF Touched
    <2> QED
      BY <1>1, <2>1, <2>2, <2>3, <2>4 DEF JournalInv
  <1>7. CASE catalog.refreshed = None
    <2>1. history'.deleted = history.deleted
      BY <1>3, <1>7
    <2> QED
      BY <1>1, <1>2, <1>3, <1>4, <1>5, <1>6, <2>1, SameCopyInv, SameRepeatInv DEF RebuildInv
  <1>8. CASE catalog.refreshed # None
    <2>1. /\ history'.deleted.rows = catalog.rows /\ history'.deleted.uidnext = catalog.uidnext
          /\ history'.deleted.records = Len(journal) /\ history'.deleted.changes = bound.changes
          /\ history'.deleted.current = current
      BY <1>3, <1>8
    <2> HIDE DEF current, deleted, copy
    <2>2. ~history.lost => /\ catalog.rows = Replayed(journal, Len(journal))
                           /\ Numbered(catalog.uidnext, Recorded(journal, Len(journal)))
      BY <1>2, <1>8, RowsAreReplayed DEF Touched
    <2>3. CopyInv'
      BY <1>1, <1>2, <1>3, <1>4, <2>1, <2>2 DEF CopyInv
    <2>4. RepeatInv'
      <3> SUFFICES ASSUME Repeats', NEW config \in Configs, history'.deleted.current = config,
                          NEW i \in DOMAIN config.scopes, NEW m \in Messages
                   PROVE  RightIn(Replayed(journal, Len(journal)), config, config.scopes[i], m)'
        BY <1>1, <1>2 DEF RepeatInv
      <3>1. ~history.lost /\ ~history.reverted /\ current = config
        BY <1>3, <2>1 DEF Repeats
      <3>2. /\ catalog.applied = Len(journal) /\ Latest <= catalog.refreshed.sequence
            /\ catalog.refreshed.config = config
        BY <3>1, ViewsAssumption DEF current
      <3>3. PICK since \in Nat \ {0} : since = catalog.refreshed.sequence
        BY <1>2, <1>8 DEF RowsInv
      <3>4. catalog.refreshed = [config |-> config, sequence |-> since]
        BY <1>2, <1>8, <3>2, <3>3 DEF Typed, Catalogs
      <3>5. Shown(config, config.scopes[i], since, FALSE)
        BY <1>2, <1>8, <3>1, <3>4 DEF ShownInv
      <3>6. Due(config.scopes[i], since, FALSE) = {}
        BY <1>2, <3>2, <3>3, NothingDue
      <3>7. RightAt(config, config.scopes[i], m)
        BY <3>5, <3>6 DEF Shown
      <3>8. Truth(config, config.scopes[i]) = Says(config, config.scopes[i])
        <4>1. 0 < catalog.applied /\ \A j \in DOMAIN journal : ~(catalog.applied < j)
          BY <1>2, <3>2, EmptySeq DEF Typed
        <4> QED
          BY <4>1, AppliedIsStated DEF Truth, Says
      <3>9. RightIn(catalog.rows, config, config.scopes[i], m)
        BY <3>7, <3>8, RightAsSaid
      <3>10. RightIn(Replayed(journal, Len(journal)), config, config.scopes[i], m)
        BY <2>2, <3>1, <3>9
      <3> QED
        BY <1>1, <3>10, SameSays DEF RightIn
    <2> QED
      BY <1>5, <1>6, <2>3, <2>4 DEF RebuildInv
  <1> QED
    BY <1>7, <1>8

(* All of it holds at first, and every step keeps it.                      *)
LEMMA InitRebuildInv == Init => RebuildInv
  <1> SUFFICES ASSUME Init PROVE RebuildInv
    OBVIOUS
  <1>1. /\ history.deleted = None /\ daemon.pc = "down" /\ daemon.pending = << >>
        /\ catalog.rows = {} /\ catalog.applied = 0 /\ catalog.refreshed = None
        /\ catalog.uidnext = [v \in Views |-> 1] /\ catalog.names = Empty.names
    BY DEF Init, Empty, Down
  <1>2. Replayed(journal, 0) = {} /\ Recorded(journal, 0) = {}
    BY DEF Replayed, Recorded
  <1>3. Numbered(catalog.uidnext, {})
    BY <1>1 DEF Numbered
  <1>4. JournalInv
    BY <1>1, <1>2, <1>3 DEF JournalInv, Touched, Untouched, Working
  <1> QED
    BY <1>1, <1>4 DEF RebuildInv, CopyInv, RepeatInv, Repeats, FirstInv

LEMMA NextRebuildInv == IInv /\ IInv' /\ RebuildInv /\ [Next]_vars => RebuildInv'
  <1> SUFFICES ASSUME IInv, IInv', RebuildInv, [Next]_vars PROVE RebuildInv'
    OBVIOUS
  <1>1. JournalInv /\ CopyInv /\ RepeatInv /\ FirstInv /\ PassInv /\ daemon \in Daemons /\ history \in Histories
    BY DEF RebuildInv, IInv, Typed
  <1>2. ASSUME journal' = journal, catalog' = catalog, bound'.changes = bound.changes,
               history'.deleted = history.deleted, history'.reverted = history.reverted,
               ~history'.lost => ~history.lost /\ daemon'.pending = daemon.pending,
               daemon'.pending \in {<< >>, daemon.pending},
               daemon'.pc = "applying" =>
                 daemon'.scan = Len(journal) \/ (daemon.pc = "applying" /\ daemon'.scan = daemon.scan),
               Working' => Working, FirstInv'
        PROVE  RebuildInv'
    <2>1. JournalInv'
      <3>1. CASE history'.lost
        BY <3>1 DEF JournalInv
      <3>2. CASE ~history'.lost
        BY <1>1, <1>2, <3>2, SameJournalInv DEF Touched, Untouched, Empty
      <3> QED
        BY <3>1, <3>2
    <2> QED
      BY <1>1, <1>2, <2>1, SameCopyInv, SameRepeatInv DEF RebuildInv
  <1>3. ASSUME NEW config \in Configs, Start(config) PROVE RebuildInv'
    <2>1. /\ daemon' = [Down EXCEPT !.pc = "idle", !.due = TRUE, !.config = config] /\ daemon.pc = "down"
          /\ journal' = journal /\ catalog' = catalog /\ bound' = bound /\ history' = history
      BY <1>3 DEF Start
    <2>2. daemon'.pc = "idle" /\ daemon'.pending = << >> /\ daemon.pending = << >> /\ ~Working'
      BY <1>1, <2>1 DEF Down, PassInv, Working
    <2> QED
      BY <1>2, <2>1, <2>2 DEF FirstInv
  <1>4. CASE BeginPass
    <2>1. /\ daemon.pc \in {"idle", "held"} /\ daemon' = [daemon EXCEPT !.pc = "applying", !.due = FALSE, !.scan = Len(journal)]
          /\ journal' = journal /\ catalog' = catalog /\ bound' = bound /\ history' = history
      BY <1>4 DEF BeginPass
    <2>2. daemon'.pc = "applying" /\ daemon'.pending = daemon.pending /\ daemon'.scan = Len(journal) /\ ~Working'
      BY <1>1, <2>1 DEF Daemons, Working
    <2> QED
      BY <1>2, <2>1, <2>2 DEF FirstInv
  <1>5. CASE NextScope
    <2>1. /\ daemon.pc = "refreshing" /\ daemon.todo = {}
          /\ daemon' = [daemon EXCEPT !.scope = @ + 1, !.pc = "naming"]
          /\ journal' = journal /\ catalog' = catalog /\ bound' = bound /\ history' = history
      BY <1>5 DEF NextScope, ScopeDone
    <2>2. /\ daemon'.pc = "naming" /\ daemon'.pending = daemon.pending /\ Working
          /\ daemon'.full = daemon.full /\ daemon'.config = daemon.config
      BY <1>1, <2>1 DEF Daemons, Working
    <2>3. FirstInv'
      BY <1>1, <2>1, <2>2 DEF FirstInv
    <2> QED
      BY <1>2, <2>1, <2>2, <2>3
  <1>6. CASE Crash \/ AppendFails
    <2>1. /\ journal' = journal /\ catalog' = catalog /\ bound' = [bound EXCEPT !.upsets = @ + 1]
          /\ history' = [history EXCEPT !.lost = @ \/ daemon.pending # << >>]
          /\ daemon' = Down \/ daemon' = [daemon EXCEPT !.pc = "held", !.due = TRUE, !.pending = << >>]
      BY <1>6 DEF Crash, AppendFails, Upset, Forgotten
    <2>2. daemon'.pc \in {"down", "held"} /\ daemon'.pending = << >> /\ ~Working'
      <3>1. CASE daemon' = Down
        BY <3>1 DEF Down, Working
      <3>2. CASE daemon' = [daemon EXCEPT !.pc = "held", !.due = TRUE, !.pending = << >>]
        BY <1>1, <3>2 DEF Daemons, Working
      <3> QED
        BY <2>1, <3>1, <3>2
    <2>3. /\ history'.deleted = history.deleted /\ history'.reverted = history.reverted
          /\ history'.lost <=> history.lost \/ daemon.pending # << >>
      BY <1>1, <2>1 DEF Histories
    <2>4. bound'.changes = bound.changes
      BY <2>1 DEF IInv, Typed
    <2> QED
      BY <1>2, <2>1, <2>2, <2>3, <2>4 DEF FirstInv
  <1>7. CASE UNCHANGED vars
    <2>1. journal' = journal /\ catalog' = catalog /\ bound' = bound /\ history' = history /\ daemon' = daemon
      BY <1>7 DEF vars
    <2> QED
      BY <1>1, <1>2, <2>1 DEF FirstInv, Working
  <1>8. CASE PassStep \/ BeginPass
    BY <1>4, <1>5, <1>8, ApplyRecordRebuilds, BeginRefreshRebuilds, NameViewRebuilds, RefreshBatchRebuilds,
       AppendChangeRebuilds, EndRefreshRebuilds DEF PassStep, DuePass
  <1> QED
    BY <1>3, <1>6, <1>7, <1>8, ChangeRebuilds, DeleteCatalogRebuilds DEF Next

(* Replaying the journal into a new catalog brings back every row and UID  *)
(* of the deleted one, and with the same configuration the refresh behind  *)
(* it has nothing to add.                                                  *)
THEOREM RebuildReproducesCorrect == Spec => []RebuildReproduces
  <1>1. ASSUME IInv, RebuildInv PROVE RebuildReproduces
    <2> SUFFICES ASSUME history.deleted # None, ~history.lost PROVE RebuildReproduces
      BY DEF RebuildReproduces
    <2>1. /\ Typed /\ PassInv /\ JournalInv /\ CopyInv /\ RepeatInv /\ history.deleted \in Copies
          /\ catalog.applied \in Nat /\ catalog.applied <= Len(journal) /\ catalog.uidnext \in [Views -> Nat]
      BY <1>1 DEF IInv, RebuildInv, Typed, Histories, Catalogs, PassInv
    <2>2. ASSUME catalog.applied = history.deleted.records, catalog.names = Empty.names
          PROVE  catalog.rows = history.deleted.rows /\ catalog.uidnext = history.deleted.uidnext
      <3>1. /\ catalog.rows = Replayed(journal, catalog.applied)
            /\ Numbered(catalog.uidnext, Recorded(journal, catalog.applied))
        BY <2>1, <2>2 DEF JournalInv, Untouched
      <3>2. /\ history.deleted.rows = Replayed(journal, catalog.applied)
            /\ Numbered(history.deleted.uidnext, Recorded(journal, catalog.applied))
        BY <2>1, <2>2 DEF CopyInv
      <3>3. history.deleted.uidnext \in [Views -> Nat]
        BY <2>1 DEF Copies
      <3>4. \A r \in Recorded(journal, catalog.applied) : r.uid \in Nat
        BY <2>1, RecordedRows
      <3> QED
        BY <2>1, <3>1, <3>2, <3>3, <3>4, NumberedOnce
    <2>3. history.deleted.changes = bound.changes /\ ~history.reverted => daemon.pending = << >>
      BY <2>1 DEF RepeatInv, Repeats
    <2> QED
      BY <2>2, <2>3 DEF RebuildReproduces
  <1>2. IInv /\ RebuildInv => RebuildReproduces
    BY <1>1
  <1> QED
    BY <1>2, AlwaysIInv, InitRebuildInv, NextRebuildInv, PTL DEF Spec
=============================================================================
