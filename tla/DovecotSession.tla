--------------------------- MODULE DovecotSession ---------------------------
(***************************************************************************)
(* One IMAP session of the Dovecot backend on one INBOX: the index in      *)
(* memory, the daemon rows it was built from, and the daemon requests of   *)
(* SELECT, sync, FETCH, STORE, EXPUNGE, APPEND, COPY and MOVE.             *)
(*   src/wyrebox/dovecot/wyrebox-dovecot-plugin.c                          *)
(*   src/wyrebox/dovecot/wyrebox-dovecot-daemon-client.c                   *)
(* Every request is a connection of its own: the daemon may restart, and   *)
(* the mailbox may change, between any two of them. What the daemon does   *)
(* with a request is modelled in detail by MailboxWrites; here a request   *)
(* appends its record in one step, whose answer may be lost, and a pass    *)
(* applies the record at once or, while the account is held, later.        *)
(* The UIDVALIDITY of an INBOX is a constant, also in a catalog that was   *)
(* rebuilt from the journal: the checks of it, in the daemon and in the    *)
(* session, never fail and are left out.                                   *)
(***************************************************************************)
EXTENDS Naturals, Sequences, FiniteSets, FiniteSetsExt, Functions

CONSTANTS
  Messages,     \* message identities
  Flags,        \* system flags and keywords
  Unstorable,   \* keywords the daemon cannot store
  MaxUid,       \* bound: UIDs that copies use
  MaxRebuilds,  \* bound: rebuilt catalogs
  MaxHolds,     \* bound: passes that cannot apply a record
  MaxFaults,    \* bound: requests that fail or whose answer is lost
  MaxEvents,    \* bound: deliveries and writes of other sessions
  MaxCommands   \* bound: commands that write

ASSUME FlagsAssumption == Unstorable \subseteq Flags
ASSUME SessionBoundsAssumption == {MaxUid, MaxRebuilds, MaxHolds, MaxFaults, MaxEvents,
                                  MaxCommands} \subseteq Nat

VARIABLES
  \* the daemon: the journal, how many of its records the catalog contains and
  \* whether the next one holds the account; UIDNEXT and the memberships of the
  \* catalog, by UID; and, for the properties, every UID ever given to a message
  box,
  spent,    \* how much of every bound is used up
  \* struct wyrebox_dovecot_mailbox
  idx,      \* the index: synced once, next_uid, flags by UID
  st,       \* state: rows_by_uid
  opened,
  cmd,      \* the command in progress
  \* what the outside world knows
  told,     \* what the last command told: UIDs, their messages, sources of copies
  asked,    \* messages some client asked to remove
  late      \* UIDs that became visible when the index was past them

vars == <<box, spent, idx, st, opened, cmd, told, asked, late>>

Idle == [op |-> "idle"]
NoIndex == [synced |-> FALSE, next |-> 1, flags |-> <<>>]
NoState == <<>>
Spend(kind, bound) == spent[kind] < bound /\ spent' = [spent EXCEPT ![kind] = @ + 1]
Without(f, S) == Restrict(f, DOMAIN f \ S)
Over(f, g) == [x \in DOMAIN f \cup DOMAIN g |-> IF x \in DOMAIN f THEN f[x] ELSE g[x]]

\* UIDs in ascending order.
Position(U, u) == Cardinality({v \in U : v <= u})
Nth(U, n) == CHOOSE u \in U : Position(U, u) = n

-----------------------------------------------------------------------------
(* Applying the journal.                                                   *)

Row(m, F) == [msg |-> m, flags |-> F, gone |-> FALSE]
Visible == {u \in DOMAIN box.rows : ~box.rows[u].gone}

\* The memberships a record adds: a delivery takes UIDNEXT when it is applied,
\* the others were given their UIDs when they were written.
Added(r) ==
  CASE r.type = "delivered" -> [u \in {box.next} |-> Row(r.msg, {})]
    [] r.type \in {"appended", "copied", "moved"} -> r.rows
    [] OTHER -> <<>>

\* Those it hides: what it names must be visible.
Hidden(r) == IF r.type \in {"moved", "expunged"} THEN r.uids ELSE {}

\* A record that does not fit the catalog holds the account.
Fits(r) ==
  /\ DOMAIN Added(r) \cap DOMAIN box.rows = {}
  /\ r.type = "flags" => r.uid \in DOMAIN box.rows
  /\ r.type \in {"copied", "moved", "expunged"} => r.uids \subseteq Visible
  /\ r.type \in {"copied", "moved"} =>
       \A v \in DOMAIN r.rows : r.rows[v].msg = box.rows[r.source[v]].msg

Marked(r, row, u) ==
  [row EXCEPT !.gone = @ \/ u \in Hidden(r),
              !.flags = IF r.type = "flags" /\ u = r.uid
                        THEN IF r.mode = "set" THEN @ \cup r.flags ELSE @ \ r.flags
                        ELSE @]

RaisedUidnext(U) == Max({box.next} \cup {u + 1 : u \in U})

AfterRecord(r) ==
  [box EXCEPT !.done = @ + 1,
              !.next = RaisedUidnext(DOMAIN Added(r)),
              !.rows = Over(Added(r), [u \in DOMAIN @ |-> Marked(r, @[u], u)]),
              !.given = @ \cup {<<u, Added(r)[u].msg>> : u \in DOMAIN Added(r)}]

-----------------------------------------------------------------------------
(* The daemon. An operator yields the possible outcomes of a request: the  *)
(* class of the answer, the mailbox after it, and the mailbox when the     *)
(* request fails between the reservation of UIDs and the record.           *)

Refused(class) == {[class |-> class, box |-> box, partly |-> box, uids |-> <<>>]}

\* The UIDs are taken from UIDNEXT before the record is written.
Reserved(n) == [box EXCEPT !.next = @ + n]
Recorded(r, rows) ==
  [Reserved(Cardinality(DOMAIN rows)) EXCEPT
     !.journal = Append(@, r),
     !.given = @ \cup {<<u, rows[u].msg>> : u \in DOMAIN rows}]
Accepted(r, rows, uids) ==
  {[class |-> "ok", box |-> Recorded(r, rows), partly |-> Reserved(Cardinality(DOMAIN rows)),
    uids |-> uids]}

DaemonFlags(u, mode, F) ==
  IF u \notin Visible THEN Refused("not_found")
  ELSE Accepted([type |-> "flags", uid |-> u, mode |-> mode, flags |-> F], <<>>, <<>>)

\* UIDs that are not visible are left out of an expunge; without an INBOX it
\* is refused.
DaemonExpunge(U) ==
  IF U \cap Visible # {}
  THEN Accepted([type |-> "expunged", uids |-> U \cap Visible], <<>>, <<>>)
  ELSE Refused("ok") \cup (IF box.next = 1 THEN Refused("not_found") ELSE {})

NewUid == [u \in {box.next} |-> u]

DaemonAppend(m) ==
  LET rows == [u \in {box.next} |-> Row(m, {})]
  IN  Accepted([type |-> "appended", rows |-> rows], rows, NewUid)

\* COPY and MOVE give UIDs in the order of the sources, which must all be
\* visible; a MOVE removes them with the same record.
CopyUids(U) == [u \in U |-> box.next + Position(U, u) - 1]
SourceOf(U, v) == CHOOSE u \in U : CopyUids(U)[u] = v
CopiedRows(U) ==
  [v \in Range(CopyUids(U)) |-> Row(box.rows[SourceOf(U, v)].msg, box.rows[SourceOf(U, v)].flags)]
CopyRecord(U, moving) ==
  [type |-> IF moving THEN "moved" ELSE "copied", uids |-> U, rows |-> CopiedRows(U),
   source |-> [v \in Range(CopyUids(U)) |-> SourceOf(U, v)]]

MoveInTwoRecords(U, moving) == \* variant
  IF ~ U \subseteq Visible THEN Refused("not_found")
  ELSE {[o EXCEPT !.partly.journal = Append(@, [type |-> "expunged", uids |-> U])] :
          o \in Accepted(CopyRecord(U, moving), CopiedRows(U), CopyUids(U))}
DaemonCopyMove(U, moving) ==
  IF ~ U \subseteq Visible THEN Refused("not_found")
  ELSE Accepted(CopyRecord(U, moving), CopiedRows(U), CopyUids(U))

\* Reads see the visible memberships of the moment.
SelectAnswer == box.next
UidMapRows == [u \in Visible |-> [msg |-> box.rows[u].msg, flags |-> box.rows[u].flags]]
DaemonFetch(u) ==
  IF u \notin Visible THEN [class |-> "not_found"]
  ELSE [class |-> "ok", msg |-> box.rows[u].msg]

\* daemon_client_*: the session learns the class of the answer. The daemon may
\* reject the request; of every other failure ("unavailable") the session
\* cannot know how far the daemon came.
Ask(outcomes, class, uids) ==
  \/ \E o \in outcomes : class = o.class /\ uids = o.uids /\ box' = o.box /\ UNCHANGED spent
  \/ /\ class \in {"permanent", "unavailable"} /\ uids = <<>>
     /\ Spend("faults", MaxFaults)
     /\ \E o \in outcomes :
          box' \in {box, o.partly} \cup (IF class = "unavailable" THEN {o.box} ELSE {})

Classes == {"ok", "not_found", "permanent", "unavailable"}

-----------------------------------------------------------------------------
(* The rest of the world: passes, deliveries, other sessions, and a new    *)
(* catalog.                                                                *)

Environment == UNCHANGED <<idx, st, opened, cmd, told>>
Event == Spend("events", MaxEvents)

\* A pass applies the next record.
NextRecord == box.journal[box.done + 1]
Applicable == box.done < Len(box.journal) /\ Fits(NextRecord)

ApplyRecord ==
  /\ Applicable /\ ~box.held
  /\ box' = AfterRecord(NextRecord)
  /\ late' = late \cup {u \in DOMAIN Added(NextRecord) : u < idx.next}
  /\ UNCHANGED <<spent, asked>> /\ Environment

\* It cannot: the object is unreadable, or the catalog fails. Until it can, the
\* account is held.
Hold ==
  /\ Applicable /\ ~box.held /\ Spend("holds", MaxHolds)
  /\ box' = [box EXCEPT !.held = TRUE]
  /\ UNCHANGED <<asked, late>> /\ Environment

Release ==
  /\ box.held
  /\ box' = [box EXCEPT !.held = FALSE]
  /\ UNCHANGED <<spent, asked, late>> /\ Environment

\* Messages no record and no command has.
MessagesOf(r) ==
  IF r.type = "delivered" THEN {r.msg}
  ELSE IF r.type \in {"appended", "copied", "moved"} THEN {r.rows[u].msg : u \in DOMAIN r.rows}
  ELSE {}
FreshMessages ==
  {m \in Messages : /\ \A i \in DOMAIN box.journal : m \notin MessagesOf(box.journal[i])
                    /\ cmd.op = "save" => m \notin cmd.todo}

Deliver ==
  /\ Event
  /\ \E m \in FreshMessages :
       box' = [box EXCEPT !.journal = Append(@, [type |-> "delivered", msg |-> m])]
  /\ UNCHANGED <<asked, late>> /\ Environment

OtherAppends ==
  /\ Event
  /\ \E m \in FreshMessages : \E o \in DaemonAppend(m) : box' \in {o.box, o.partly}
  /\ UNCHANGED <<asked, late>> /\ Environment

OtherExpunges ==
  /\ Event
  /\ \E u \in Visible :
       /\ \E o \in DaemonExpunge({u}) : box' = o.box
       /\ asked' = asked \cup {box.rows[u].msg}
  /\ UNCHANGED late /\ Environment

OtherStores ==
  /\ Event
  /\ \E u \in Visible, f \in Flags \ Unstorable :
       \E o \in DaemonFlags(u, IF f \in box.rows[u].flags THEN "clear" ELSE "set", {f}) :
         box' = o.box
  /\ UNCHANGED <<asked, late>> /\ Environment

\* The daemon starts without a catalog file and applies its journal anew. A
\* UID whose record was never written is given again.
Rebuild ==
  /\ Spend("rebuilds", MaxRebuilds)
  /\ box' = [box EXCEPT !.done = 0, !.held = FALSE, !.next = 1, !.rows = <<>>]
  /\ UNCHANGED <<asked, late>> /\ Environment

-----------------------------------------------------------------------------
(* SELECT, sync and FETCH.                                                 *)

\* Loading the state takes two requests: SELECT, and below the UID map.
LoadSelect ==
  /\ cmd = Idle
  /\ cmd' = [op |-> "load", next |-> SelectAnswer] /\ told' = {}
  /\ UNCHANGED <<box, spent, idx, st, opened, asked, late>>

FitsSelect == \A u \in DOMAIN UidMapRows : u < cmd.next

\* A row above UIDNEXT, or the failure of a request, leaves everything as it was.
LoadFails ==
  /\ cmd.op = "load"
  /\ cmd' = Idle
  /\ UNCHANGED <<box, spent, idx, st, opened, told, asked, late>>

\* The first load opens the mailbox, on an empty index.
Open ==
  /\ cmd.op = "load" /\ ~opened /\ FitsSelect
  /\ st' = UidMapRows /\ opened' = TRUE /\ cmd' = Idle
  /\ UNCHANGED <<box, spent, idx, told, asked, late>>

SyncExpungeMissing(uids) == uids \cap DOMAIN UidMapRows
SyncAppendAbove(next) == {u \in DOMAIN UidMapRows : u > next} \* variant
SyncAppendNew(next) == {u \in DOMAIN UidMapRows : u >= next}

\* wyrebox_dovecot_mailbox_sync_index. Daemon flags replace those of the index.
SyncIndex ==
  /\ cmd.op = "load" /\ opened /\ FitsSelect
  /\ LET uids == SyncExpungeMissing(DOMAIN idx.flags) \cup SyncAppendNew(idx.next)
     IN  idx' = [synced |-> TRUE, next |-> Max({idx.next, cmd.next}),
                 flags |-> [u \in uids |-> UidMapRows[u].flags]]
  /\ st' = UidMapRows
  /\ cmd' = Idle
  /\ UNCHANGED <<box, spent, opened, told, asked, late>>

\* mail_open_stream: the daemon checks that the UID is visible, the client
\* that the message is the one of the row.
SameMessage(u, answer) == answer.msg = st[u].msg
Told(u, m, source) == [uid |-> u, msg |-> m, source |-> source]

Fetch ==
  /\ cmd = Idle
  /\ \E u \in DOMAIN idx.flags \cap DOMAIN st :
       LET answer == DaemonFetch(u)
       IN  /\ answer.class = "ok" /\ SameMessage(u, answer)
           /\ told' = {Told(u, answer.msg, 0)}
  /\ UNCHANGED <<box, spent, idx, st, opened, cmd, asked, late>>

\* The index is in memory and goes with the session.
Close ==
  /\ cmd = Idle /\ opened
  /\ opened' = FALSE /\ idx' = NoIndex /\ st' = NoState /\ late' = {} /\ told' = {}
  /\ UNCHANGED <<box, spent, cmd, asked>>

-----------------------------------------------------------------------------
(* STORE: the index commits first, then one SET and one CLEAR per message  *)
(* go to the daemon, in ascending order of UIDs.                           *)

Store ==
  /\ cmd = Idle /\ Spend("commands", MaxCommands)
  /\ \E U \in (SUBSET DOMAIN idx.flags) \ {{}}, add \in SUBSET Flags, remove \in SUBSET Flags :
       /\ add \cap remove = {} /\ add \cup remove # {}
       /\ idx' = [idx EXCEPT !.flags = Over([u \in U |-> (idx.flags[u] \ remove) \cup add], @)]
       /\ cmd' = [op |-> "push", todo |-> [u \in U |-> [set |-> add, clear |-> remove]],
                  mode |-> "set", stopped |-> FALSE]
  /\ told' = {}
  /\ UNCHANGED <<box, st, opened, asked, late>>

Pushed == Min(DOMAIN cmd.todo)
PushedFlags == cmd.todo[Pushed][cmd.mode]
NextMessage == [cmd EXCEPT !.todo = Without(@, {Pushed}), !.mode = "set"]
NextRequest == IF cmd.mode = "set" THEN [cmd EXCEPT !.mode = "clear"] ELSE NextMessage

\* push_update when there is nothing to send.
PushNothing ==
  /\ cmd.op = "push" /\ DOMAIN cmd.todo # {}
  /\ ~cmd.stopped /\ PushedFlags = {}
  /\ cmd' = NextRequest
  /\ UNCHANGED <<box, spent, idx, st, opened, told, asked, late>>

\* An accepted update changes the row too.
PushAccepted ==
  /\ cmd.op = "push" /\ DOMAIN cmd.todo # {}
  /\ ~cmd.stopped /\ PushedFlags # {} /\ PushedFlags \cap Unstorable = {}
  /\ Ask(DaemonFlags(Pushed, cmd.mode, PushedFlags), "ok", <<>>)
  /\ st' = [st EXCEPT ![Pushed].flags =
              IF cmd.mode = "set" THEN @ \cup PushedFlags ELSE @ \ PushedFlags]
  /\ cmd' = NextRequest
  /\ UNCHANGED <<idx, opened, told, asked, late>>

\* Any other outcome puts the row's flags back. A message that is gone, or
\* whose change the daemon rejects, does not stop the push; a change that
\* cannot be sent and every other failure do.
RevertNothing == UNCHANGED idx \* variant
RevertFlags == idx' = [idx EXCEPT !.flags[Pushed] = st[Pushed].flags]

PushRefused ==
  /\ cmd.op = "push" /\ DOMAIN cmd.todo # {}
  /\ ~cmd.stopped /\ PushedFlags # {}
  /\ \E class \in (Classes \ {"ok"}) \cup {"invalid"} :
       /\ IF PushedFlags \cap Unstorable # {}
          THEN class = "invalid" /\ UNCHANGED <<box, spent>>
          ELSE Ask(DaemonFlags(Pushed, cmd.mode, PushedFlags), class, <<>>)
       /\ cmd' = [NextMessage EXCEPT !.stopped = class \notin {"not_found", "permanent"}]
  /\ RevertFlags
  /\ UNCHANGED <<st, opened, told, asked, late>>

PushStopped ==
  /\ cmd.op = "push" /\ DOMAIN cmd.todo # {} /\ cmd.stopped
  /\ RevertFlags
  /\ cmd' = NextMessage
  /\ UNCHANGED <<box, spent, st, opened, told, asked, late>>

PushDone ==
  /\ cmd.op = "push" /\ DOMAIN cmd.todo = {}
  /\ cmd' = Idle
  /\ UNCHANGED <<box, spent, idx, st, opened, told, asked, late>>

-----------------------------------------------------------------------------
(* EXPUNGE, APPEND, COPY and MOVE.                                         *)

\* A command records the messages it names in its transaction, whose commit
\* asks the daemon.
Begin(command) ==
  /\ cmd = Idle /\ Spend("commands", MaxCommands)
  /\ cmd' = command /\ told' = {}
  /\ UNCHANGED <<box, idx, st, opened, asked, late>>

NamedUids == (SUBSET DOMAIN idx.flags) \ {{}}

BeginExpunge == \E U \in NamedUids : Begin([op |-> "expunge", uids |-> U])

\* The daemon's tombstones come first; the index has the messages until the
\* next sync, whatever the answer.
PushExpunge ==
  /\ cmd.op = "expunge"
  /\ \E class \in Classes : Ask(DaemonExpunge(cmd.uids), class, <<>>)
  /\ asked' = asked \cup {st[u].msg : u \in cmd.uids}
  /\ cmd' = Idle
  /\ UNCHANGED <<idx, st, opened, told, late>>

\* Each saved message is a request of its own; a failure keeps those before it.
BeginAppend ==
  /\ opened
  /\ \E M \in (SUBSET Messages) \ {{}} :
       /\ M \subseteq FreshMessages
       /\ Begin([op |-> "save", todo |-> M, saved |-> {}])

SaveMessage ==
  /\ cmd.op = "save" /\ cmd.todo # {}
  /\ \E m \in cmd.todo, class \in Classes, uids \in {<<>>, NewUid} :
       /\ Ask(DaemonAppend(m), class, uids)
       /\ cmd' = IF class = "ok"
                 THEN [cmd EXCEPT !.todo = @ \ {m},
                                  !.saved = @ \cup {Told(u, m, 0) : u \in Range(uids)}]
                 ELSE Idle
  /\ UNCHANGED <<idx, st, opened, told, asked, late>>

SaveDone ==
  /\ cmd.op = "save" /\ cmd.todo = {}
  /\ told' = cmd.saved
  /\ cmd' = Idle
  /\ UNCHANGED <<box, spent, idx, st, opened, asked, late>>

PairedReversed(U, uids) == \* variant
  {Told(Nth(Range(uids), Cardinality(U) + 1 - n), st[Nth(U, n)].msg, Nth(U, n)) :
     n \in 1 .. Cardinality(U)}
\* COPYUID: the client pairs the sorted sources with the sorted new UIDs; the
\* messages it knows are those of its rows.
Paired(U, uids) ==
  {Told(Nth(Range(uids), n), st[Nth(U, n)].msg, Nth(U, n)) : n \in 1 .. Cardinality(U)}

\* One request for the batch. Only the daemon's MOVE record removes the
\* sources: mail_expunge skips them.
BeginCopyMove ==
  \E U \in NamedUids, moving \in BOOLEAN :
    /\ box.next + Cardinality(U) <= MaxUid + 1
    /\ Begin([op |-> "copy", uids |-> U, moving |-> moving])

PushCopy ==
  /\ cmd.op = "copy"
  /\ \E o \in DaemonCopyMove(cmd.uids, cmd.moving), class \in Classes :
       /\ Ask({o}, class, IF class = "ok" THEN o.uids ELSE <<>>)
       /\ told' = IF class = "ok" THEN Paired(cmd.uids, o.uids) ELSE told
  /\ cmd' = Idle
  /\ UNCHANGED <<idx, st, opened, asked, late>>

-----------------------------------------------------------------------------
Init ==
  /\ box = [journal |-> <<>>, done |-> 0, held |-> FALSE, next |-> 1, rows |-> <<>>, given |-> {}]
  /\ spent = [rebuilds |-> 0, holds |-> 0, faults |-> 0, events |-> 0,
             commands |-> 0]
  /\ idx = NoIndex /\ st = NoState /\ opened = FALSE
  /\ cmd = Idle
  /\ told = {} /\ asked = {} /\ late = {}

World == ApplyRecord \/ Hold \/ Release \/ Deliver \/ OtherAppends \/ OtherExpunges \/ OtherStores \/ Rebuild

Session ==
  \/ LoadSelect \/ LoadFails \/ Open \/ SyncIndex \/ Fetch \/ Close
  \/ Store \/ PushNothing \/ PushAccepted \/ PushRefused \/ PushStopped \/ PushDone
  \/ BeginExpunge \/ PushExpunge \/ BeginAppend \/ SaveMessage \/ SaveDone
  \/ BeginCopyMove \/ PushCopy

Next == World \/ Session

Spec == Init /\ [][Next]_vars

-----------------------------------------------------------------------------
(* Properties.                                                             *)

\* The UIDs that were given to two messages: a rebuilt catalog gives the UIDs
\* of a delivery anew, and no UIDVALIDITY tells a session so.
Reused ==
  {a[1] : a \in {x \in box.given : \E y \in box.given : x[1] = y[1] /\ x[2] # y[2]}}

\* The UIDs and messages a client was told by FETCH and APPENDUID were given to
\* each other; those of COPYUID too, unless the UID of the source was reused: a
\* COPY does not check that the source is still the message of the session.
ToldIsTrueUnlessReused ==
  \A t \in told : <<t.uid, t.msg>> \in box.given \/ t.source \in Reused

\* Between commands the index shows what the daemon accepted: each of its
\* messages has a row, with the same flags, whatever part of a STORE failed.
IndexShowsAccepted ==
  cmd = Idle =>
    \A u \in DOMAIN idx.flags : u \in DOMAIN st /\ idx.flags[u] = st[u].flags

\* The index has the messages of its rows, except those that became visible
\* when the index was past their UIDs, because their record was applied late
\* or a rebuilt catalog gave them lower ones: sync appends only UIDs at or
\* above the index's next UID.
IndexMatchesRowsUnlessLate ==
  idx.synced => /\ DOMAIN idx.flags \subseteq DOMAIN st
                /\ DOMAIN st \ DOMAIN idx.flags \subseteq late

\* A message that has a UID only disappears after some client asked to expunge
\* it, whatever part of a MOVE failed; it is visible or its record waits. The
\* exception is a message with a UID that was reused: an EXPUNGE, whose record
\* names UIDs and no messages, may have meant the other one.
RemovedWereAskedUnlessReused ==
  \A a \in box.given :
    \/ a[2] \in asked
    \/ \E u \in Visible : box.rows[u].msg = a[2]
    \/ \E i \in DOMAIN box.journal : i > box.done /\ a[2] \in MessagesOf(box.journal[i])
    \/ \E b \in box.given : b[2] = a[2] /\ b[1] \in Reused
=============================================================================
