---------------------------- MODULE MailboxWrites ----------------------------
(***************************************************************************)
(* Mailbox writes: deliveries, APPEND, COPY, MOVE, EXPUNGE and flag        *)
(* updates of one account's INBOX, from the request that checks the        *)
(* catalog, reserves a UID and appends a record, to the transaction that   *)
(* applies the record to the catalog.                                      *)
(*   src/wyrebox/daemon/wyrebox-daemon-memberships-copy-move-journal.c     *)
(*   src/wyrebox/daemon/wyrebox-daemon-memberships-expunge-journal.c       *)
(*   src/wyrebox/daemon/wyrebox-daemon-message-append-journal.c            *)
(*   src/wyrebox/daemon/wyrebox-daemon-flag-keyword-update-journal.c       *)
(*   src/wyrebox/ingestion/wyrebox-delivery-materializer.c                 *)
(* The route lock admits one of these requests at a time, but it does not  *)
(* exclude the retry pass of the main loop, which may apply records        *)
(* between any two statements of a request.                                *)
(* The passes are those of Materialization seen from this account: another *)
(* account appears only as the hold that keeps the checkpoint in place,    *)
(* and as the records that separate this account's, so that each of them   *)
(* is a run of its own.                                                    *)
(***************************************************************************)
EXTENDS Naturals, Sequences, FiniteSets

CONSTANTS
  Operations,   \* the kinds of records clients write
  MaxRecords,   \* bound: records in the journal
  Troubles,     \* the kinds of trouble that may happen
  MaxTroubles,  \* bound: how often any of them does
  MaxEvents     \* bound: records and troubles together

Types == {"delivered", "appended", "copied", "moved", "expunged", "flags"}

(* breaks: a record's object becomes unreadable; pins: another account     *)
(* becomes held; faults: an append or the object write before it fails;    *)
(* aborts: an error ends a pass; crashes: the daemon dies; rebuilds: it    *)
(* starts on a new catalog.                                                *)
AllTroubles == {"breaks", "pins", "faults", "aborts", "crashes", "rebuilds"}

ASSUME OperationsAssumption == Operations \subseteq Types
ASSUME TroublesAssumption == Troubles \subseteq AllTroubles
ASSUME WritesBoundsAssumption == {MaxRecords, MaxTroubles, MaxEvents} \subseteq Nat

VARIABLES
  \* durable
  journal,     \* records [type, src, dst, msg, flag]
  rows,        \* memberships, by the record that created them
  uidnext,     \* UIDNEXT of the INBOX
  checkpoint,  \* newest record before which nothing is to be replayed
  applied,     \* records the catalog contains
  \* the outside world
  bad,         \* records whose object cannot be read
  pinned,      \* another account's record behind the checkpoint is broken
  receipts,    \* UIDs returned to clients, with their records
  \* the daemon
  serving,     \* startup has caught up
  request,     \* the request that holds the route lock
  pass,        \* the running materialization pass
  holds,       \* accounts the last pass held: "own", "other"
  cursor,      \* scan cursor of the next post-ingest pass, 0 when absent
  retry,       \* the retry timer is armed
  spent        \* how often each trouble happened

catalogVars == <<rows, uidnext, checkpoint, applied>>
passVars == <<pass, holds, cursor, retry>>
vars == <<journal, rows, uidnext, checkpoint, applied, bad, pinned, receipts,
          serving, request, pass, holds, cursor, retry, spent>>

Record == [type : Types, src : Nat, dst : Nat, msg : Nat, flag : BOOLEAN]
NoRequest == [pc |-> "idle", type |-> "delivered", src |-> 0, dst |-> 0, msg |-> 0,
              flag |-> FALSE]
NoPass == [kind |-> "none", at |-> 1, end |-> 0, held |-> {}]
Indices == 1 .. Len(journal)

Total == spent.breaks + spent.pins + spent.faults + spent.aborts + spent.crashes
           + spent.rebuilds
Begun == IF request.pc \in {"idle", "materialize", "materializing"} THEN 0 ELSE 1
Room == Len(journal) + Begun + Total < MaxEvents

Happens(what) ==
  /\ what \in Troubles /\ Total < MaxTroubles /\ Room
  /\ spent' = [spent EXCEPT ![what] = @ + 1]

-----------------------------------------------------------------------------
(* Applying a record                                                       *)

EmptyCatalog == [rows |-> << >>, uidnext |-> 1]
Catalog == [rows |-> rows, uidnext |-> uidnext]

MaxOf(m, n) == IF m >= n THEN m ELSE n
RowsOf(cat, u) == {r \in DOMAIN cat.rows : cat.rows[r].uid = u}
Visible(cat, r) == cat.rows[r].hidden = 0
AnyRow(cat, u) == RowsOf(cat, u) \* variant
VisibleRow(cat, u) == {r \in RowsOf(cat, u) : Visible(cat, r)}

\* A new membership: its UID must be free, and UIDNEXT moves beyond it.
RaisedUidnextNot(cat, u) == cat.uidnext \* variant
RaisedUidnext(cat, u) == MaxOf(cat.uidnext, u + 1)

InsertWith(cat, n, u, m, f) ==
  [rows |-> [r \in DOMAIN cat.rows \union {n} |->
               IF r = n THEN [msg |-> m, uid |-> u, hidden |-> 0, flag |-> f]
               ELSE cat.rows[r]],
   uidnext |-> RaisedUidnext(cat, u)]
InsertOrIgnore(cat, n, u, m, f) == \* variant
  {IF RowsOf(cat, u) # {} THEN cat ELSE InsertWith(cat, n, u, m, f)}
Insert(cat, n, u, m, f) ==
  IF RowsOf(cat, u) # {} THEN {}
  ELSE {InsertWith(cat, n, u, m, f)}

\* A membership that exists must be visible or hidden by a later record.
Restored(cat, n) == {[cat EXCEPT !.rows[n].hidden = 0]} \* variant
Existing(cat, n) == IF cat.rows[n].hidden \in 1 .. n THEN {} ELSE {cat}

\* Hides the membership of a UID; a tombstone of another record is an error.
Tombstone(cat, n, u) ==
  {[cat EXCEPT !.rows[r].hidden = n] :
     r \in {x \in RowsOf(cat, u) : cat.rows[x].hidden \in {0, n}}}

\* The destination of a COPY or MOVE, from a visible source.
CopyTo(cat, n, rec) ==
  IF n \in DOMAIN cat.rows THEN Existing(cat, n)
  ELSE UNION {Insert(cat, n, rec.dst, rec.msg, rec.flag) :
                r \in {x \in VisibleRow(cat, rec.src) : cat.rows[x].msg = rec.msg}}

SetFlagOnly(cat, u, f) == \* variant
  {[cat EXCEPT !.rows[r].flag = f \/ @] : r \in RowsOf(cat, u)}
SetFlag(cat, u, f) == {[cat EXCEPT !.rows[r].flag = f] : r \in RowsOf(cat, u)}

\* The catalogs that applying record n to cat may commit: one, or none when
\* the record is invalid for the catalog.
Effect(cat, n) ==
  LET rec == journal[n]
      insert(u) == IF n \in DOMAIN cat.rows THEN Existing(cat, n)
                   ELSE Insert(cat, n, u, n, rec.flag)
  IN CASE rec.type = "delivered" -> insert(cat.uidnext)
       [] rec.type = "appended"  -> insert(rec.dst)
       [] rec.type = "copied"    -> CopyTo(cat, n, rec)
       [] rec.type = "moved"     -> UNION {Tombstone(c, n, rec.src) : c \in CopyTo(cat, n, rec)}
       [] rec.type = "expunged"  -> Tombstone(cat, n, rec.src)
       [] rec.type = "flags"     -> SetFlag(cat, rec.src, rec.flag)

-----------------------------------------------------------------------------
(* Passes                                                                  *)

PassIdle == pass.kind = "none"
Resumes(k) == k = "post" /\ cursor > 0
StartPass(k) ==
  /\ PassIdle
  /\ pass' = [kind |-> k,
              at |-> (IF Resumes(k) THEN cursor ELSE checkpoint) + 1,
              end |-> Len(journal),
              held |-> (IF k = "post" THEN holds ELSE {})
                         \union (IF pinned /\ ~Resumes(k) THEN {"other"} ELSE {})]

Scanning == ~PassIdle /\ pass.at <= pass.end
OwnHeld == "own" \in pass.held
Outcome == IF pass.at \in bad THEN {} ELSE Effect(Catalog, pass.at)

SkipRecord ==
  /\ Scanning /\ OwnHeld
  /\ pass' = [pass EXCEPT !.at = @ + 1]
  /\ UNCHANGED <<journal, catalogVars, bad, pinned, receipts, serving, request,
                 holds, cursor, retry, spent>>

HoldRecord ==
  /\ Scanning /\ ~OwnHeld /\ Outcome = {}
  /\ pass' = [pass EXCEPT !.at = @ + 1, !.held = @ \union {"own"}]
  /\ UNCHANGED <<journal, catalogVars, bad, pinned, receipts, serving, request,
                 holds, cursor, retry, spent>>

ApplyRecord ==
  /\ Scanning /\ ~OwnHeld
  /\ \E cat \in Outcome : rows' = cat.rows /\ uidnext' = cat.uidnext
  /\ applied' = applied \union {pass.at}
  /\ checkpoint' = IF pass.held = {} THEN MaxOf(checkpoint, pass.at) ELSE checkpoint
  /\ pass' = [pass EXCEPT !.at = @ + 1]
  /\ UNCHANGED <<journal, bad, pinned, receipts, serving, request, holds, cursor,
                 retry, spent>>

\* What the caller of the pass does next: a catch-up leads to the checks of
\* its request whether an account is held or not, a post-ingest pass to its
\* answer, the first pass to the open socket.
Answer ==
  /\ receipts' = IF request.pc = "materializing" /\ request.dst > 0
                 THEN receipts \union {[uid |-> request.dst, rec |-> request.src]}
                 ELSE receipts
  /\ request' = IF pass.kind = "catchUp" THEN [request EXCEPT !.pc = "check"]
                ELSE IF pass.kind = "post" THEN NoRequest ELSE request
  /\ serving' = (serving \/ pass.kind = "start")

FinishPass ==
  /\ ~PassIdle /\ pass.at > pass.end
  /\ Answer
  /\ holds' = pass.held
  /\ cursor' = IF pass.held = {} THEN 0 ELSE MaxOf(pass.end, pass.at - 1)
  /\ retry' = (pass.held # {})
  /\ pass' = NoPass
  /\ UNCHANGED <<journal, catalogVars, bad, pinned, spent>>

\* An error that is not the account's: a catch-up fails its request, any
\* other pass goes on as after a hold; a starting daemon exits (Crash).
AbortPass ==
  /\ ~PassIdle /\ Happens("aborts")
  /\ IF pass.kind = "catchUp"
     THEN request' = NoRequest /\ UNCHANGED <<receipts, serving, retry>>
     ELSE Answer /\ pass.kind # "start" /\ retry' = TRUE
  /\ cursor' = 0 /\ pass' = NoPass
  /\ UNCHANGED <<journal, catalogVars, bad, pinned, holds>>

-----------------------------------------------------------------------------
(* Requests                                                                *)

Free == serving /\ request.pc = "idle" /\ Len(journal) < MaxRecords /\ Room
Uids == {rows[r].uid : r \in DOMAIN rows}
At(pc) == request.pc = pc
Goto(pc) == request' = [request EXCEPT !.pc = pc]

Deliver ==
  /\ Free /\ "delivered" \in Operations
  /\ journal' = Append(journal, [type |-> "delivered", src |-> 0, dst |-> 0, msg |-> 0,
                                 flag |-> FALSE])
  /\ Goto("materialize")
  /\ UNCHANGED <<catalogVars, bad, pinned, receipts, serving, passVars, spent>>

\* EXPUNGE and flag updates check that the UID is visible, without catching
\* up first; an EXPUNGE of a UID that is not visible is a no-op, a flag update
\* of one is not found.
CheckedUid(u) == VisibleRow(Catalog, u) # {}

BeginUpdate(type, u, f) ==
  /\ Free /\ type \in Operations
  /\ CheckedUid(u)
  /\ request' = [NoRequest EXCEPT !.pc = "append", !.type = type, !.src = u, !.flag = f]
  /\ UNCHANGED <<journal, catalogVars, bad, pinned, receipts, serving, passVars, spent>>

\* APPEND, COPY and MOVE catch up first.
BeginWrite(type, u) ==
  /\ Free /\ type \in Operations
  /\ request' = [NoRequest EXCEPT !.pc = "catch up", !.type = type, !.src = u]
  /\ UNCHANGED <<journal, catalogVars, bad, pinned, receipts, serving, passVars, spent>>

CatchUp ==
  /\ At("catch up") /\ StartPass("catchUp")
  /\ Goto("catching up")
  /\ UNCHANGED <<journal, catalogVars, bad, pinned, receipts, serving, holds, cursor,
                 retry, spent>>

\* resolve_copy_move_source: the message and flags of the source, which must
\* be visible.
CheckWrite ==
  /\ At("check")
  /\ \/ request.type = "appended" /\ Goto("read uidnext")
     \/ /\ request.type # "appended"
        /\ \E r \in VisibleRow(Catalog, request.src) :
             request' = [request EXCEPT !.pc = "read uidnext", !.msg = rows[r].msg,
                                        !.flag = rows[r].flag]
     \/ /\ request.type # "appended" /\ VisibleRow(Catalog, request.src) = {}
        /\ request' = NoRequest
  /\ UNCHANGED <<journal, catalogVars, bad, pinned, receipts, serving, passVars, spent>>

\* The reservation is a SELECT and an UPDATE, each a transaction of its own.
ReadUidnext ==
  /\ At("read uidnext")
  /\ request' = [request EXCEPT !.pc = "write uidnext", !.dst = uidnext]
  /\ UNCHANGED <<journal, catalogVars, bad, pinned, receipts, serving, passVars, spent>>

WriteUidnext ==
  /\ At("write uidnext")
  /\ uidnext' = request.dst + 1
  /\ Goto("append")
  /\ UNCHANGED <<journal, rows, checkpoint, applied, bad, pinned, receipts, serving,
                 passVars, spent>>

\* The record is durable; from here on src stands for it.
AppendWrite ==
  /\ At("append")
  /\ journal' = Append(journal, [f \in {"type", "src", "dst", "msg", "flag"} |-> request[f]])
  /\ request' = [request EXCEPT !.pc = "materialize", !.src = Len(journal')]
  /\ UNCHANGED <<catalogVars, bad, pinned, receipts, serving, passVars, spent>>

\* The object store or the journal fails: the request fails, the reserved UID
\* stays behind.
AppendFails ==
  /\ At("append") /\ Happens("faults")
  /\ request' = NoRequest
  /\ UNCHANGED <<journal, catalogVars, bad, pinned, receipts, serving, passVars>>

Materialize ==
  /\ At("materialize") /\ StartPass("post")
  /\ Goto("materializing")
  /\ UNCHANGED <<journal, catalogVars, bad, pinned, receipts, serving, holds, cursor,
                 retry, spent>>

-----------------------------------------------------------------------------
(* The main loop and the outside world                                     *)

RetryFires ==
  /\ serving /\ retry /\ StartPass("retry")
  /\ retry' = FALSE
  /\ UNCHANGED <<journal, catalogVars, bad, pinned, receipts, serving, request, holds,
                 cursor, spent>>

Break(n) ==
  /\ n \notin bad /\ journal[n].type \in {"delivered", "appended"}
  /\ Happens("breaks")
  /\ bad' = bad \union {n}
  /\ UNCHANGED <<journal, catalogVars, pinned, receipts, serving, request, passVars>>

Repair(n) ==
  /\ n \in bad /\ bad' = bad \ {n}
  /\ UNCHANGED <<journal, catalogVars, pinned, receipts, serving, request, passVars, spent>>

Pin ==
  /\ ~pinned /\ Happens("pins")
  /\ pinned' = TRUE
  /\ UNCHANGED <<journal, catalogVars, bad, receipts, serving, request, passVars>>

Unpin ==
  /\ pinned /\ pinned' = FALSE
  /\ UNCHANGED <<journal, catalogVars, bad, receipts, serving, request, passVars, spent>>

\* The daemon dies and starts again with a catch-up, on the catalog it had or
\* on a new one.
Restart ==
  /\ holds' = {} /\ cursor' = 0 /\ retry' = FALSE /\ request' = NoRequest
  /\ serving' = FALSE
  /\ pass' = [NoPass EXCEPT !.kind = "start", !.at = checkpoint' + 1, !.end = Len(journal),
                            !.held = IF pinned THEN {"other"} ELSE {}]
  /\ UNCHANGED <<journal, bad, pinned, receipts>>

Crash ==
  /\ Happens("crashes")
  /\ UNCHANGED catalogVars /\ Restart

Rebuild ==
  /\ Happens("rebuilds")
  /\ rows' = EmptyCatalog.rows /\ uidnext' = EmptyCatalog.uidnext
  /\ checkpoint' = 0 /\ applied' = {}
  /\ Restart

Init ==
  /\ journal = << >> /\ rows = EmptyCatalog.rows /\ uidnext = EmptyCatalog.uidnext
  /\ checkpoint = 0 /\ applied = {}
  /\ bad = {} /\ pinned = FALSE /\ receipts = {}
  /\ serving = TRUE /\ request = NoRequest
  /\ pass = NoPass /\ holds = {} /\ cursor = 0 /\ retry = FALSE
  /\ spent = [breaks |-> 0, pins |-> 0, faults |-> 0, aborts |-> 0, crashes |-> 0,
              rebuilds |-> 0]

PassStep == SkipRecord \/ HoldRecord \/ ApplyRecord \/ FinishPass \/ AbortPass
RequestStep ==
  \/ Deliver
  \/ \E u \in Uids, f \in BOOLEAN : BeginUpdate("flags", u, f)
  \/ \E u \in Uids : BeginUpdate("expunged", u, FALSE)
  \/ \E u \in Uids, t \in {"copied", "moved"} : BeginWrite(t, u)
  \/ BeginWrite("appended", 0)
  \/ CatchUp \/ CheckWrite \/ ReadUidnext \/ WriteUidnext
  \/ AppendWrite \/ AppendFails \/ Materialize

Next ==
  \/ PassStep \/ RequestStep \/ RetryFires
  \/ \E n \in Indices : Break(n) \/ Repair(n)
  \/ Pin \/ Unpin \/ Crash \/ Rebuild

Spec == Init /\ [][Next]_vars

-----------------------------------------------------------------------------
(* Properties                                                              *)

RowType == [msg : Nat, uid : Nat \ {0}, hidden : Nat, flag : BOOLEAN]

TypeOK ==
  /\ \A n \in Indices : journal[n] \in Record
  /\ DOMAIN rows \subseteq Indices /\ \A r \in DOMAIN rows : rows[r] \in RowType
  /\ uidnext \in Nat \ {0} /\ checkpoint \in Nat /\ applied \subseteq Indices
  /\ \A r \in DOMAIN rows : rows[r].hidden \in 0 .. Len(journal)
  /\ bad \subseteq Indices /\ holds \subseteq {"own", "other"}
  /\ pass.held \subseteq {"own", "other"} /\ cursor \in 0 .. Len(journal)

\* While no object breaks and no pass is aborted, a request meets a catalog
\* that contains every record before its own.
NothingHeld == spent.breaks = 0 /\ spent.aborts = 0

\* Every UID that was reserved is in a record.
NoneWasted == spent.faults = 0 /\ spent.crashes = 0

\* A message that a client only moved is still there: it has a visible
\* membership unless an applied EXPUNGE hid one.
MovesLoseNothing ==
  \A r \in DOMAIN rows :
    LET copies == {s \in DOMAIN rows : rows[s].msg = rows[r].msg}
    IN \/ \E s \in copies : rows[s].hidden = 0
       \/ \E s \in copies : journal[rows[s].hidden].type = "expunged"

\* No record is invalid for the catalog it meets: the oldest record that is
\* missing can be applied as soon as its object is readable, and every
\* applied one can be applied again.  "A fixed INBOX recovers automatically on
\* the next pass" rests on it: a record that breaks it holds its account for
\* ever.
RecordsApply ==
  \A n \in Indices :
    n \in applied \/ (1 .. (n - 1)) \subseteq applied => Effect(Catalog, n) # {}

\* Without a hold it is so, whatever else fails or dies, until a catalog with
\* wasted UIDs is rebuilt.
RecordsApplyUnlessHeld ==
  NothingHeld /\ (NoneWasted \/ spent.rebuilds = 0) => RecordsApply

\* The UID a client was told for its APPEND, COPY or MOVE is never another
\* message's.
ReceiptsHonoured ==
  \A t \in receipts : \A r \in DOMAIN rows : rows[r].uid = t.uid => r = t.rec

\* Without a hold the retry pass has nothing to apply while a UID is reserved.
ReceiptsHonouredUnlessHeld ==
  NothingHeld /\ (NoneWasted \/ spent.rebuilds = 0) => ReceiptsHonoured

\* Between passes a message carries the flags its newest applied record gave
\* it, however often older records were applied again.
FlagsFollowJournal ==
  NothingHeld /\ PassIdle =>
    \A r \in DOMAIN rows : \A n \in applied :
      /\ journal[n].type = "flags" /\ journal[n].src = rows[r].uid /\ n > r
      /\ \A m \in applied : journal[m].type = "flags" /\ journal[m].src = rows[r].uid => m <= n
      => rows[r].flag = journal[n].flag

\* A message that was removed is never seen again, and its UID is never given
\* to another one, while the catalog lasts.
TombstonesStay ==
  [][spent.rebuilds = spent'.rebuilds =>
       \A r \in DOMAIN rows :
         /\ r \in DOMAIN rows' /\ rows'[r].uid = rows[r].uid
         /\ rows[r].hidden # 0 => rows'[r].hidden = rows[r].hidden]_vars
=============================================================================
