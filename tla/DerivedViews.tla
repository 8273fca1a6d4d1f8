---------------------------- MODULE DerivedViews ----------------------------
(***************************************************************************)
(* Virtual mailboxes: facts about messages, the rules evaluated over them, *)
(* and the catalog rows and journal records that follow.  One account and  *)
(* one view of each scope: a pass applies the journal's new records, then  *)
(* refreshes the views from the changed messages alone, in batches that    *)
(* never split a thread; each batch commits its rows and only then appends *)
(* the records a rebuild of the catalog would need.                        *)
(*   wyrebox/daemon/wyrebox-daemon-wirelog-views.c,                        *)
(*   wirelog/wyrebox-derived-view-materializer.c,                          *)
(*   ingestion/wyrebox-delivery-materializer.c (facts, view records),      *)
(*   daemon/wyrebox-daemon-fact-mutation-service.c, facts/*                *)
(* When a pass runs and for which accounts is Materialization.             *)
(***************************************************************************)
EXTENDS Naturals, Sequences, FiniteSets, FiniteSetsExt, Functions

CONSTANTS
  None,        \* a name, state or configuration that is not there
  Messages,    \* messages, numbers in the order of their identities
  Keys,        \* values that connect messages: message ids, references
  Configs,     \* configurations: rules, scopes of views in order, their names
  Extracted,   \* sets of facts extraction may have found in the messages
  Claimable,   \* bound: the facts that clients insert and retract
  BatchSize,   \* messages per batch
  MaxEvents    \* bound: fact and membership changes by clients, crashes,
               \* failed appends and rebuilds of the catalog

Views == UNION {{c.scopes[i] : i \in DOMAIN c.scopes} : c \in Configs}
Facts == Messages \X (Keys \cup {"mark"})

ASSUME ViewsAssumption ==
  /\ Messages \subseteq Nat \ {0} /\ IsFiniteSet(Messages)
  /\ Views \subseteq {"message", "thread", "account"} /\ None \notin Configs
  /\ \A c \in Configs : c.scopes \in Seq(Views) /\ c.scopes # << >> /\ IsInjective(c.scopes)
  /\ \A c \in Configs : \A i \in DOMAIN c.scopes : c.names[c.scopes[i]] # None
  /\ Extracted \subseteq SUBSET Facts /\ Claimable \subseteq Facts
  /\ BatchSize \in Nat \ {0} /\ MaxEvents \in Nat

VARIABLES
  journal,   \* records
  catalog,   \* facts and expunges; rows, UIDs, names and refresh state of the views
  daemon,    \* the daemon: its configuration and the pass under way
  bound,     \* bounds already used
  history    \* what clients saw, what was lost, and the catalog last deleted

vars == <<journal, catalog, daemon, bound, history>>

(* The messages are delivered, with some facts extracted from them.        *)
Delivered(facts) == [kind |-> "delivered", facts |-> facts]
NoFact == [active |-> FALSE, sequence |-> 0]
Empty == [facts |-> [f \in Facts |-> NoFact], expunged |-> [m \in Messages |-> 0],
          rows |-> {}, uidnext |-> [v \in Views |-> 1], names |-> [v \in Views |-> None],
          refreshed |-> None, applied |-> 0]
Down == [pc |-> "down", due |-> FALSE, config |-> None, scan |-> 0, scope |-> 0, todo |-> {},
         full |-> FALSE, since |-> 0, latest |-> 0, pending |-> << >>]

Init ==
  /\ \E facts \in Extracted : journal = <<Delivered(facts)>>
  /\ catalog = Empty /\ daemon = Down
  /\ bound = [changes |-> 0, upsets |-> 0]
  /\ history = [named |-> {}, lost |-> FALSE, reverted |-> FALSE, deleted |-> None]

-----------------------------------------------------------------------------
(* message_facts and memberships.  A row takes the sequence of the record  *)
(* that changed it: inserting an active fact or retracting another changes *)
(* nothing.                                                                *)

FactsAfter(record, sequence) ==
  LET named == IF record.kind = "delivered" THEN record.facts ELSE {record.fact}
      active == record.kind # "retract"
  IN  [f \in Facts |-> IF f \in named /\ catalog.facts[f].active # active
                       THEN [active |-> active, sequence |-> sequence] ELSE catalog.facts[f]]

Kept == {m \in Messages : \A i \in DOMAIN journal :
           journal[i].kind = "expunge" => journal[i].msg # m}
DeliveredMessages == IF catalog.applied > 0 THEN Messages ELSE {}
Ordinary == {m \in DeliveredMessages : catalog.expunged[m] = 0}
ActiveFacts == {f \in Facts : catalog.facts[f].active}

Changed(since) ==
  {m \in DeliveredMessages :
     \/ since < 1 \/ catalog.expunged[m] > since
     \/ \E f \in Facts : f[1] = m /\ catalog.facts[f].sequence > since}

Latest ==
  Max({IF catalog.applied > 0 THEN 1 ELSE 0} \cup {catalog.facts[f].sequence : f \in Facts}
      \cup {catalog.expunged[m] : m \in Messages})

-----------------------------------------------------------------------------
(* Rules: an earlier file derives the messages near a marked one, a later  *)
(* one those with a link.  A rule sees the facts it is given, and "near"   *)
(* is what its view's scope promises it.                                   *)

Linked(facts) == {l \in Messages \X Messages :
                    \E k \in Keys : <<l[1], k>> \in facts /\ <<l[2], k>> \in facts}
Threads(links) ==  \* pairs that no set closed under the links separates
  {p \in Messages \X Messages : \A S \in SUBSET Messages :
     p[1] \in S /\ (\A l \in links : l[1] \in S => l[2] \in S) => p[2] \in S}
Near(view, facts) ==
  CASE view = "message" -> {<<m, m>> : m \in Messages}
    [] view = "thread" -> Threads(Linked(facts))
    [] view = "account" -> Messages \X Messages

Derived(rules, view, facts) ==
  IF rules = "marked"
  THEN {m \in Messages : \E n \in Messages : <<m, n>> \in Near(view, facts) /\ <<n, "mark">> \in facts}
  ELSE {m \in Messages : \E k \in Keys : <<m, k>> \in facts}

-----------------------------------------------------------------------------
(* The scope of a refresh: (component, message) pairs                      *)

(* Links retracted since the last refresh still connect.                   *)
ThreadLinksActive(since, full) == {f \in ActiveFacts : f[2] \in Keys}  \* variant
ThreadLinks(since, full) ==
  {f \in Facts : f[2] \in Keys /\ \/ catalog.facts[f].active
                                  \/ ~full /\ catalog.facts[f].sequence > since}

(* Each message that a changed one reaches, under the smallest of them; a  *)
(* view of the account is always evaluated whole.                          *)
Components(view) ==
  LET changed == Changed(daemon.since)
      reach == IF view = "thread" THEN Threads(Linked(ThreadLinks(daemon.since, daemon.full)))
               ELSE Near(view, {})
      seeds == [m \in Messages |->
                  {s \in IF view = "account" THEN Messages ELSE changed : <<s, m>> \in reach}]
  IN  {<<Min(seeds[m]), m>> : m \in {x \in DeliveredMessages : seeds[x] # {}}}

(* Whole components, in order, until the batch is full: c ends a batch.    *)
(* Within it messages follow each other by component, then by identity.    *)
BatchThrough(c) == {p[2] : p \in {q \in daemon.todo : q[1] <= c}}
EndsBatch(c) ==
  LET ends == {p[1] : p \in daemon.todo} IN
  /\ Cardinality(BatchThrough(c)) >= BatchSize \/ c = Max(ends)
  /\ \A d \in ends : d < c => Cardinality(BatchThrough(d)) < BatchSize
ComponentOf(m) == CHOOSE c \in Messages : <<c, m>> \in daemon.todo
Precedes(n, m) ==
  ComponentOf(n) < ComponentOf(m) \/ (ComponentOf(n) = ComponentOf(m) /\ n < m)

-----------------------------------------------------------------------------
(* Rows.  A row is one message in one view under one rules version.        *)

RowsOf(view, m) == {r \in catalog.rows : r.view = view /\ r.msg = m}
Row(view, m, rules, uid, visible) ==
  [view |-> view, msg |-> m, rules |-> rules, uid |-> uid, visible |-> visible]

(* The messages of a batch: rows of other rules are hidden, the row of     *)
(* these rules follows the evaluation, a message without one gets a UID.   *)
Flipped(view, batch, members) ==
  {r \in catalog.rows : r.view = view /\ r.msg \in batch
     /\ r.visible # (r.rules = daemon.config.rules /\ r.msg \in members)}
Entering(view, batch, members) ==
  {m \in batch \cap members : \A r \in RowsOf(view, m) : r.rules # daemon.config.rules}

Inserted(view, batch, members) ==
  {Row(view, m, daemon.config.rules,
       catalog.uidnext[view] + Cardinality({n \in Entering(view, batch, members) : Precedes(n, m)}), TRUE) :
     m \in Entering(view, batch, members)}
Changes(view, batch, members) ==
  {[r EXCEPT !.visible = ~@] : r \in Flipped(view, batch, members)} \cup Inserted(view, batch, members)

Seen(rows) == {<<r.view, r.uid, r.msg>> : r \in rows}
SameMembership(a, b) == a.view = b.view /\ a.msg = b.msg /\ a.rules = b.rules

(* In the journal a batch goes message by message, its row under older     *)
(* rules first; a whole account what leaves, what enters, older rules.     *)
Turn(view, x) ==
  IF x.rules # daemon.config.rules THEN IF view = "account" THEN 3 ELSE 0
  ELSE IF x.visible THEN 2 ELSE 1
Sooner(view, x, y) ==
  \/ view # "account" /\ Precedes(x.msg, y.msg)
  \/ /\ view = "account" \/ x.msg = y.msg
     /\ \/ Turn(view, x) < Turn(view, y)
        \/ /\ Turn(view, x) = Turn(view, y) /\ x.rules = y.rules
           /\ IF x.visible THEN x.msg < y.msg ELSE x.uid < y.uid

(* One transaction; its changes wait to be journaled.                      *)
Commit(view, changes, through) ==
  /\ catalog' = [catalog EXCEPT
       !.rows = {r \in @ : \A x \in changes : ~SameMembership(r, x)} \cup changes,
       !.names[view] = daemon.config.names[view],
       !.uidnext[view] = Max({@} \cup {x.uid + 1 : x \in changes})]
  /\ \E order \in [1 .. Cardinality(changes) -> changes] :
       /\ IsInjective(order)
       /\ \A i, j \in DOMAIN order : i < j => ~Sooner(view, order[j], order[i])
       /\ daemon' = [daemon EXCEPT
            !.pending = [i \in DOMAIN order |-> [kind |-> "view", row |-> order[i]]],
            !.todo = {p \in @ : p[1] > through}]
  /\ history' = [history EXCEPT !.named = @ \cup Seen(changes),
       !.deleted = IF @ # None /\ @.current # daemon.config THEN None ELSE @,
       !.reverted = @ \/ (catalog.refreshed # None /\ catalog.refreshed.config # daemon.config)]

-----------------------------------------------------------------------------
(* The pass                                                                *)

View == daemon.config.scopes[daemon.scope]

(* The daemon catches up when it starts.                                   *)
Start(config) ==
  /\ daemon.pc = "down"
  /\ daemon' = [Down EXCEPT !.pc = "idle", !.due = TRUE, !.config = config]
  /\ UNCHANGED <<journal, catalog, bound, history>>

Current ==
  /\ catalog.refreshed # None /\ catalog.refreshed.config = daemon.config
  /\ Latest <= catalog.refreshed.sequence

(* A pass is due from the start on, after a client's record, and by the    *)
(* retry timer while the account is held; none is after a clean pass, not  *)
(* even for the records its refresh appended.  A pass that a record of     *)
(* another account called for takes this account's records along.          *)
BeginPass ==
  /\ daemon.pc \in {"idle", "held"}
  /\ daemon.due \/ catalog.applied < Len(journal)
  /\ daemon' = [daemon EXCEPT !.pc = "applying", !.due = FALSE, !.scan = Len(journal)]
  /\ UNCHANGED <<journal, catalog, bound, history>>
DuePass == daemon.due /\ BeginPass

(* A view record finds its row, or makes it, and moves uidnext past it.    *)
UidnextKept(row) == catalog.uidnext[row.view]  \* variant
UidnextPast(row) == Max({catalog.uidnext[row.view], row.uid + 1})

ApplyViewRecordOnce(row) ==  \* variant: a row that is there is left alone
  /\ catalog' = [catalog EXCEPT !.applied = @ + 1,
       !.rows = IF \E r \in @ : SameMembership(r, row) THEN @ ELSE @ \cup {row},
       !.uidnext[row.view] = UidnextPast(row)]
  /\ UNCHANGED <<daemon, history>>
ApplyViewRecord(row) ==
  LET same == {r \in catalog.rows : SameMembership(r, row)} IN
  IF \E r \in same : r.uid # row.uid
  THEN daemon' = [daemon EXCEPT !.pc = "conflict"] /\ UNCHANGED <<catalog, history>>
  ELSE /\ catalog' = [catalog EXCEPT !.rows = (@ \ same) \cup {row},
                        !.uidnext[row.view] = UidnextPast(row), !.applied = @ + 1]
       /\ history' = [history EXCEPT !.named = @ \cup Seen({row})]
       /\ UNCHANGED daemon

ApplyRecord ==
  /\ daemon.pc = "applying" /\ catalog.applied < daemon.scan
  /\ LET record == journal[catalog.applied + 1] IN
     \/ record.kind = "view" /\ ApplyViewRecord(record.row)
     \/ /\ record.kind \in {"delivered", "insert", "retract"}
        /\ catalog' = [catalog EXCEPT !.facts = FactsAfter(record, catalog.applied + 1), !.applied = @ + 1]
        /\ UNCHANGED <<daemon, history>>
     \/ /\ record.kind = "expunge"
        /\ catalog' = [catalog EXCEPT !.expunged[record.msg] = catalog.applied + 1, !.applied = @ + 1]
        /\ UNCHANGED <<daemon, history>>
  /\ UNCHANGED <<journal, bound>>

Refreshing ==
  LET known == catalog.refreshed # None /\ catalog.refreshed.config = daemon.config IN
  [daemon EXCEPT
     !.pc = IF Current THEN "idle" ELSE "naming",
     !.full = ~known, !.since = IF known THEN catalog.refreshed.sequence ELSE 0,
     !.latest = Latest, !.scope = 1]

BeginRefresh ==
  /\ daemon.pc = "applying" /\ catalog.applied = daemon.scan /\ daemon' = Refreshing
  /\ UNCHANGED <<journal, catalog, bound, history>>

(* A view keeps the name it was first stored with: another one fails the   *)
(* refresh, and the account is held.                                       *)
NameView ==
  /\ daemon.pc = "naming"
  /\ LET stored == catalog.names[View]  name == daemon.config.names[View] IN
     \/ /\ stored \in {None, name}
        /\ catalog' = IF View = "account" THEN catalog ELSE [catalog EXCEPT !.names[View] = name]
        /\ daemon' = [daemon EXCEPT !.pc = "refreshing", !.todo = Components(View)]
     \/ /\ stored \notin {None, name} /\ UNCHANGED catalog
        /\ daemon' = [daemon EXCEPT !.pc = "held", !.due = TRUE]
  /\ UNCHANGED <<journal, bound, history>>

(* The facts of a batch, or of the account.                                *)
GivenFacts(batch) == {f \in ActiveFacts : f[1] \in batch}
BatchMembers(view, batch) ==
  Derived(daemon.config.rules, view, GivenFacts(batch)) \cap Ordinary
BatchChanges(view, batch) == Changes(view, batch, BatchMembers(view, batch))

RefreshBatch ==
  /\ daemon.pc = "refreshing" /\ daemon.pending = << >>
  /\ \E c \in {p[1] : p \in daemon.todo} :
       /\ EndsBatch(c)
       /\ \E changes \in {BatchChanges(View, BatchThrough(c))} : Commit(View, changes, c)
  /\ UNCHANGED <<journal, bound>>

ScopeDone == daemon.pc = "refreshing" /\ daemon.pending = << >> /\ daemon.todo = {}

NextScope ==
  /\ ScopeDone /\ daemon.scope < Len(daemon.config.scopes)
  /\ daemon' = [daemon EXCEPT !.scope = @ + 1, !.pc = "naming"]
  /\ UNCHANGED <<journal, catalog, bound, history>>

AppendChange ==
  /\ daemon.pending # << >>
  /\ journal' = Append(journal, Head(daemon.pending))
  /\ daemon' = [daemon EXCEPT !.pending = Tail(@)]
  /\ UNCHANGED <<catalog, bound, history>>

EndRefresh ==
  /\ ScopeDone /\ daemon.scope = Len(daemon.config.scopes)
  /\ catalog' = [catalog EXCEPT !.refreshed = [config |-> daemon.config, sequence |-> daemon.latest]]
  /\ daemon' = [daemon EXCEPT !.pc = "idle"]
  /\ history' = [history EXCEPT !.reverted = @ /\ ~daemon.full]
  /\ UNCHANGED <<journal, bound>>

-----------------------------------------------------------------------------
(* Clients, failures, rebuilds                                             *)

EventsLeft == bound.changes + bound.upsets < MaxEvents

(* A fact or membership change is durable in the journal before its        *)
(* handler runs a pass.                                                    *)
Change ==
  /\ daemon.pc # "down" /\ EventsLeft
  /\ \/ \E f \in Claimable, kind \in {"insert", "retract"} :
          journal' = Append(journal, [kind |-> kind, fact |-> f])
     \/ \E m \in Kept : journal' = Append(journal, [kind |-> "expunge", msg |-> m])
  /\ bound' = [bound EXCEPT !.changes = @ + 1]
  /\ daemon' = [daemon EXCEPT !.due = TRUE]
  /\ UNCHANGED <<catalog, history>>

Upset == EventsLeft /\ bound' = [bound EXCEPT !.upsets = @ + 1]
Forgotten == history' = [history EXCEPT !.lost = @ \/ daemon.pending # << >>]

(* Committed rows whose records were not appended yet stay without them.   *)
Crash ==
  /\ daemon.pc # "down" /\ Upset /\ daemon' = Down /\ Forgotten
  /\ UNCHANGED <<journal, catalog>>

AppendFailsUnretried ==  \* variant: the retry timer is not started
  /\ daemon.pending # << >> /\ Upset /\ Forgotten
  /\ daemon' = [daemon EXCEPT !.pc = "held", !.pending = << >>]
  /\ UNCHANGED <<journal, catalog>>
AppendFails ==
  /\ daemon.pending # << >> /\ Upset /\ Forgotten
  /\ daemon' = [daemon EXCEPT !.pc = "held", !.due = TRUE, !.pending = << >>]
  /\ UNCHANGED <<journal, catalog>>

(* An operator deletes the catalog: the next start replays the journal.    *)
(* What is remembered is the last one that a refresh had completed.        *)
DeleteCatalog ==
  /\ daemon.pc = "down" /\ catalog # Empty /\ Upset /\ catalog' = Empty
  /\ history' = [history EXCEPT !.deleted =
       IF catalog.refreshed = None THEN @
       ELSE [rows |-> catalog.rows, uidnext |-> catalog.uidnext, records |-> Len(journal),
             changes |-> bound.changes,
             current |-> IF catalog.applied = Len(journal) /\ Latest <= catalog.refreshed.sequence
                         THEN catalog.refreshed.config ELSE None]]
  /\ UNCHANGED <<journal, daemon>>

PassStep ==
  DuePass \/ ApplyRecord \/ BeginRefresh \/ NameView \/ RefreshBatch
  \/ NextScope \/ AppendChange \/ EndRefresh

Next ==
  \/ \E config \in Configs : Start(config)
  \/ PassStep \/ BeginPass \/ Change \/ Crash \/ AppendFails \/ DeleteCatalog

Spec == Init /\ [][Next]_vars /\ WF_vars(PassStep)

-----------------------------------------------------------------------------
(* Properties                                                              *)

(* What the journal says of a fact, and what the rules make of all facts.  *)
About(f) == {i \in DOMAIN journal :
  \/ journal[i].kind = "delivered" /\ f \in journal[i].facts
  \/ journal[i].kind \in {"insert", "retract"} /\ journal[i].fact = f}
Stated == {f \in Facts : About(f) # {} /\ journal[Max(About(f))].kind # "retract"}
Promised(view) == Derived(daemon.config.rules, view, Stated) \cap Kept

(* What a refresh appended may wait for a later pass: it tells what is     *)
(* committed already.                                                      *)
Settled ==
  /\ daemon.pc = "idle" /\ Current
  /\ \A i \in DOMAIN journal : catalog.applied < i => journal[i].kind = "view"
Configured == {daemon.config.scopes[i] : i \in DOMAIN daemon.config.scopes}
VisibleRows(view) == {r \in catalog.rows : r.view = view /\ r.visible}

(* A view that nothing is left to refresh for shows exactly the messages   *)
(* the configured rules derive from all facts, each once and under these   *)
(* rules, although only changed messages and their threads were evaluated. *)
ViewsMatchRules ==
  Settled => \A view \in Configured :
    /\ {r.msg : r \in VisibleRows(view)} = Promised(view)
    /\ \A r, s \in VisibleRows(view) : r.msg = s.msg => r = s
    /\ \A r \in VisibleRows(view) : r.rules = daemon.config.rules

(* The same unless other rules were refreshed halfway and then withdrawn:  *)
(* the refresh state still names the old ones, so nothing is evaluated.    *)
ViewsMatchRulesUnlessReverted == history.reverted \/ ViewsMatchRules

(* A UID of a view never names a second message, whatever crashes, leaves  *)
(* and comes back, or is rebuilt, unless rows were committed whose records *)
(* were never appended.                                                    *)
UidsNameOneMessage ==
  history.lost \/
  \A a, b \in history.named : a[1] = b[1] /\ a[2] = b[2] => a[3] = b[3]

(* Replaying the journal into a new catalog brings back every row and UID  *)
(* of the deleted one, and with the same configuration the refresh behind  *)
(* it has nothing to add.                                                  *)
RebuildReproduces ==
  (history.deleted # None /\ ~history.lost) =>
    LET old == history.deleted IN
    /\ catalog.applied = old.records /\ catalog.names = Empty.names =>
         catalog.rows = old.rows /\ catalog.uidnext = old.uidnext
    /\ old.current = daemon.config /\ old.changes = bound.changes /\ ~history.reverted =>
         daemon.pending = << >>

(* Every client's record is applied and every refresh it calls for ends,   *)
(* by passes of the start, of the record's handler and of the retry timer  *)
(* alone, unless the daemon is down or the new name of a view holds the    *)
(* account.                                                                *)
ViewsCatchUp ==
  []<>(daemon.pc = "down" \/ Settled \/ \E v \in Configured :
         catalog.names[v] \notin {None, daemon.config.names[v]})
=============================================================================
