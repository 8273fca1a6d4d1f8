# TLA+ models of wyrebox

Wyrebox stores mail as immutable objects and an append-only mutation journal, and
derives everything a mail client sees — mailboxes, UIDs, flags, facts, virtual
mailboxes — by replaying the journal into a DuckDB catalog. This directory holds
TLA+ modules of the parts whose correctness depends on order, failure, concurrency
or on two programs reading the same bytes, the TLC configurations that check them,
and machine-checked proofs of the properties of the core.

Every definition is translated from `src/wyrebox`; `PROJECT.json` gives the source
lines of each one ("map"), the runs, the mutated definitions each property is known
to detect, the finding, the hazards and the theorems.

## 1. The system

| Component | State | Operations | Hard behaviour |
|---|---|---|---|
| Journal (`journal/…writer.c`, `…reader.c`, `…event.c`) | one segment file, its fsynced part, an exclusive lock, the writer's next sequence and durable end | open, append (header, payload, fsync), read up to a limit, recover a torn suffix | power loss and kills between writes, failed writes, recovery racing a live writer |
| Delivery ingestion (`ingestion/…eml-ingestor.c`, `object-store/`) | objects, delivery identities in the journal | store object, look the identity up, append, answer | retries, object and record on different volumes, failing fsync |
| Delivery materialization (`daemon/…delivery-materialization.c`, `ingestion/…catchup.c`, `…materializer.c`) | checkpoint, catalog rows, held accounts, scan cursor, pending refreshes, retry timer | passes of three kinds, follow-up pass, extraction, refresh, backoff, stop | records that cannot be applied yet, aborts between two transactions, restarts, a timer racing client requests |
| Mailbox writes (`daemon/…append-journal.c`, `…copy-move-journal.c`, `…expunge-journal.c`, `…flag-keyword-update-journal.c`) | memberships, UIDNEXT, tombstones, flags | APPEND, COPY, MOVE, EXPUNGE, STORE | checks against a catalog that is behind the journal, UID reservation in two transactions, records applied again |
| Virtual mailboxes (`daemon/…wirelog-views.c`, `wirelog/…derived-view-materializer.c`, `facts/`) | facts, view rows and UIDs, refresh state | insert and retract facts, incremental refresh, rename, replay of view records | a batch commits its rows before it journals them; a configuration that changes halfway |
| Catalog schema (`schema/`, `recovery/`) | tables, version, checkpoint, manifests | migrate, decide on a rebuild | a crash between two of twelve steps |
| Storage markers (`daemon/…storage.c`) | two marker files with one storage ID | `--initialize-storage`, the check at startup | interruption between the markers, overlapping runs, volumes that are not mounted |
| Socket and sessions (`daemon/…socket-listener.c`, `…connection-server.c`, `…connection-session.c`, `wyreboxd-main.c`) | socket file, connections, their threads, route lock | recover a stale socket, bind, accept, serve, drain, stop | two daemons on one path, accept racing stop, a handler that does not return |
| Wire (`daemon/…capnp-codec.cc`, request and frame types) | none | encode and decode requests and answers | each end checks by rules of its own |
| Journal payloads (`journal/*-payload.c`) | none | encode, decode | a payload cut short, older layouts, what an encoder accepts and a decoder does not |
| Fact extraction (`facts/…extractor.c`, `…rules.c`) | none | address lists, message ids, domains, custom rules | texts that are no UTF-8, a message whose facts cannot be recorded |
| Postfix transports (`postfix/`) | one dialogue, one transaction | LMTP session, pipe helper, outcome mapping | lost answers, retries under reused identities |
| Dovecot plugin (`dovecot/`) | index, rows, SELECT state of one session | SELECT, sync, FETCH, STORE, EXPUNGE, APPEND, COPY, MOVE | every request may see another catalog, and its answer may be lost |
| Export, Maildir import, backup, admin tools | none | validate, plan, print | none: see section 6 |

How they interact: a client's request takes the *route lock*, reads the catalog,
appends to the journal and runs a *post-ingest pass*, which applies everything new to
the catalog under the *materialization lock*; COPY, MOVE and APPEND run a *catch-up
pass* before they read the catalog; the main loop runs *retry passes* while an account
is held or a pass failed. A pass resumes at the checkpoint the catalog persists, or at
an in-memory cursor. Extraction and refresh are called by a pass, and append records
of their own to the journal. Startup checks the storage markers, recovers and
validates the journal, migrates and opens the catalog, and catches up before it opens
its socket. Postfix and Dovecot reach the daemon over that socket, one connection per
request, and see a restart only as a connection that ends.

What makes the parts correct:

- *journal*: whole consecutive records, at most one partial behind them; what an append
  returned stays; a daemon always starts again after a crash;
- *ingestion*: one record per delivery identity, no acknowledged mail lost;
- *materialization*: the catalog of an account is its journal, replayed in order and
  without a gap; the checkpoint never leads a missing record; nothing missing is
  forgotten; facts are extracted once; OK means done;
- *mailbox writes*: a record that was appended can be applied; the UID a client was told
  is its message's; removed messages stay removed, moved ones are somewhere;
- *virtual mailboxes*: rows are what the rules derive from all facts; UIDs survive a
  rebuild;
- *schema*: a file that is used as it is, is complete;
- *storage markers*: an interrupted initialization is recognised, no marker is lost, the
  daemon never serves a journal whose objects are elsewhere;
- *sessions and transports*: a serving daemon is reachable, a stop ends and leaves nobody
  behind; what Postfix was told is delivered is recorded; what an IMAP client was told is
  what the daemon holds;
- *formats*: what one end writes the other reads, as what it was.

## 2. Plan

In order of importance; all of it is built.

1. `Materialization` implements `AccountReplay`; proofs in `MaterializationProofs`.
2. `Journal` implements `DurableLog`; `DeliveryIngest` extends `Journal` with objects,
   identities and retries; proofs in `DeliveryIngestProofs`.
3. `StorageMarkers`; its proofs, with those of 8, are in `StartupProofs`.
4. `MailboxWrites`: the record types and requests `Materialization` abstracts to "an
   update", with the UIDs it leaves out, on one account; proofs in `MailboxWritesProofs`.
5. `DerivedViews`: facts, and the two halves of a refresh; proofs in `DerivedViewsProofs`.
6. `DaemonServer`, which `PostfixDelivery` extends with the transports and Postfix's queue;
   the proofs of both are in `PostfixDeliveryProofs`.
7. `DovecotSession`: the plugin beside a mailbox that changes; proofs in
   `DovecotSessionProofs`.
8. `CatalogMigration`; proofs in `StartupProofs`.
9. `Formats`: `Texts`, `JournalPayloads`, `FactExtraction` and `DaemonWire` composed; proofs
   in `FormatsProofs`.

What could still be added: UID lists and COPY from a virtual mailbox as actions of
`MailboxWrites` (their records and requests are in `Formats`).

## 3. Modules

### Materialization, AccountReplay

State: the journal as a sequence of records (account, kind); the catalog as the
checkpoint, the set of applied records and the record each account's views were
refreshed to; the service as its fields `holds`, `cursor`
(`scan_offset` and `scan_sequence`), `refreshHolds`, `pending`
(`pending_refresh_accounts`), `retry` (`retry_source`), `interval`, `failing`
(`consecutive_failures > 0`); and the running pass with its local variables. Offsets
and sequence numbers are counted in records.

One action per step between two commits:

| Action | Code |
|---|---|
| `ClientAppend`, `PostIngest` | a mutating route appends and runs the post-ingest hook |
| `CatchUp` | the catch-up a write begins with |
| `RetryFires` | the one-shot timer, replaced only when none is armed |
| `SkipRun`, `HoldRun`, `ApplyRun` | the maximal runs of a scan; a run is one transaction, with the checkpoint when the scan started there and no account is held |
| `EndFirstScan`, `ExtractMessage`, `ExtractDone`, `ExtractFail`, `StartFollowUp` | the follow-up work of a pass, and the second scan that applies the facts |
| `StartRefresh`, `RefreshAccount`, `RefreshFail` | refreshes, which may journal changes |
| `FinishClean`, `FinishFailed`, `AbortPass` | the three outcomes: backoff, timer, cursor |
| `Boot`, `Stop`, `Exit`, `Crash`, `RebuildCatalog` | the life of the process and of the catalog |

`Break` and `Repair` stand for an object or INBOX row that is (temporarily) unusable.
An unreadable object store *root* aborts a pass (`AbortPass`); one missing or corrupted
object holds its account. A DuckDB transaction is atomic. Messages are delivered or
APPENDed; the facts of both are extracted. UIDs, which deliveries and client writes take
from one UIDNEXT, are left to `MailboxWrites`: here it matters which records are applied
and in what order, not what they say.

`AccountReplay` is the promise. Its steps are those a user of the service can rely on:
`Submit` (a client's record becomes durable), `Describe` (the facts of a message that is
in the catalog are journaled, once), `ChangeView` (only for an account the catalog has
something of), `Replay` (the next records of one account become visible, none left out,
whatever other accounts do) and `Rebuild` (the catalog is discarded, and nothing else).
Passes, holds, cursors, checkpoints, timers and retries appear in none of them.
`Materialization` implements it without a refinement mapping, its variables being those of
the same name.

### Journal, DurableLog

Processes on one segment, each at a step of the startup sequence or of an append: a
record is written header first, then payload, then fsync. `Kill` keeps the page cache;
`PowerLoss` keeps every synced record and some prefix, byte for byte, of the rest.
What a power loss leaves in the file is on stable storage afterwards, and a successful
fsync covers everything written before it. A failed write or fsync makes the writer
refuse further appends until it is reopened, as in the code. `DurableLog` is the
promise: the fsynced part only grows, and positions returned to callers lie in it.

### DeliveryIngest

Extends `Journal`: payloads are deliveries with an identity and a content. The steps of
a delivery are those of `append_delivery_if_absent_locked`, under the append mutex: look
the identity up, link and sync the object, append. A retry is answered from the record
that is found. A delivery always carries an identity, which Postfix transports supply.

### StorageMarkers

A root is a path that shows its volume when mounted and the mount point below when not;
both can carry a marker and data. `--initialize-storage` runs read four things and write
up to two, one step each, may be interrupted at each and may overlap.
`Operators` gives the operators' habits: how many runs they have under way at once
and when they make sure that both volumes are mounted before a run — the one precondition
the code cannot check; a behaviour has one operator, who never changes. Mounts change while
the daemon is down and no run is under way (the unit's `RequiresMountsFor` and a oneshot run).

### MailboxWrites

One account with one INBOX (the only ordinary mailbox the code creates) and every record
type in full: `Effect(cat, n)` is the transaction that applies record `n`, or none when
the code answers with invalid data. Requests name one UID. The passes are those of
`Materialization` seen from this account: another account appears as the hold that keeps
the checkpoint in place (`pinned`) and as the records between this account's, which make
each of them a run of its own. UIDNEXT is read in one transaction and written in another,
and the retry pass may run between any two steps of a request. COPY, MOVE and APPEND catch
up first and go on whatever that pass held.

### DerivedViews

One account whose configuration has up to one view of account scope and one of thread
scope. Facts come with messages (what extraction found is an input) and from clients who
insert and retract them. A pass applies the journal's new records (`ApplyRecord`), then
names each view, takes the messages changed since the refresh state with the threads they
belong to, and works through them in batches that never split a thread: `RefreshBatch` is
the transaction that writes rows, UIDs and the progress, `AppendChange` the records that
follow it one by one. Rule evaluation is `Derived`, a function from facts to members; the
module checks that evaluating only the changed threads comes to the same as evaluating
everything. A pass runs at startup, behind a client's record and when the retry timer
fires (`due`); behind a pass that ended well none is scheduled for the records it appended
itself, which then wait for the next event. Another account's request may begin one at
any time (`BeginPass`). `history` remembers what no state shows: rows that were committed and never
journaled, configurations withdrawn halfway, the last deleted catalog whose refresh was
through.

### CatalogMigration

One DuckDB file: the layout of each table, the header layout of each row, the saved
version and checkpoint. A file starts out new or as any earlier release left it, at any
of the versions, with a checkpoint anywhere. Each of the twelve steps commits by itself;
the version is saved after the last. `Decision` is the recovery decision of
`recovery/`, used, rebuilt or in error. Manifests, written only by callers of the
library, are two actions that never touch the rest.

### DaemonServer

The listener of one socket path step by step (`lstat`, probe, recheck, unlink, bind,
listen, two checks of the file made), for daemons that share the path but not their
storage; a connection from its accept to its close, with the thread that serves it; the
stop, in the order of `wyreboxd-main.c`:

| Steps of a stop (`pc`) | Code |
|---|---|
| `quitting` → `stopped` | `wyrebox_daemon_delivery_materialization_stop`, which waits for the lock of the pass that a handler runs (`materializing`) |
| → `unbound` | the listening socket is closed; connections not yet accepted are lost |
| → `matched` or `closed` | the inode at the path is compared with the one that was made |
| → `closed` | the path is unlinked, whatever is there by now |
| → `draining` → `released` | known connections are shut down; the sessions are awaited until the deadline; what the handlers use is released |

A handler runs a pass before its work, behind it, or both: a request catches up, appends,
and catches up with what it appended. An inode is a number never used twice. Main-loop
callbacks and the stop run on one thread; sessions interleave with it.

### PostfixDelivery

Extends `DaemonServer`: entries of Postfix's queue, tried by LMTP (a dialogue up to DATA,
then one request per recipient, then one reply each) or by the pipe helper (one request
for all). A delivery's identity is its place in the transaction, so a retry with fewer
recipients reuses an identity for another one: the daemon answers a conflict. Ingestion is
one step per request that succeeds or fails and leaves nothing, part of the record or all
of it. Answers become classes, classes replies and exit codes, replies the state of a
recipient in the queue. A helper may die and Postfix may stop reading at any time (`Leave`).
The pipe helper reads the message before it asks the daemon: one that is empty or too
large it refuses itself, as a temporary failure.

### DovecotSession

One session: the index, the rows it was loaded from, the command in progress, one daemon
request per step, each of which may find another catalog, be refused, or succeed with its
answer lost. Beside it: deliveries, other sessions, and a daemon (`box`) with a journal
and a catalog: a request appends its record, `ApplyRecord` applies the records in order,
`Hold` stops it before one that cannot be applied, `Rebuild` empties the catalog, which is
then applied anew. Appends and copies have their UIDs in their records; a delivery takes
UIDNEXT when it is applied, and gets another UID from a rebuild if one was wasted before
it. The UIDVALIDITY of an INBOX is the constant 1 in every catalog, so no check of it,
in the daemon or in the plugin, tells a session that this has happened; `given` remembers
every UID with each message that ever had it. `MailboxWrites` has the daemon's half of this
in detail.

### Texts, JournalPayloads, FactExtraction, DaemonWire, Formats

No state but that of `Formats`, which writes one thing and lets another read it.
`JournalPayloads` has every payload layout twice, as `encode` appends it and as `decode`
reads it, in sequences of *cells* (a number of any width, or one character). `DaemonWire`
has every request and answer as the client's encoder, the daemon's decoder and the
request's constructor check them. `FactExtraction` computes the facts of a message from
its headers and of an administrator's rules. `Formats` composes them: a record is written
and read back, or changed by one cell or cut (another writer's, or a file that was
damaged), a request is sent, decoded, executed and its answer decoded, and the record a
decoded request leads to is encoded and decoded as well. (A fact mutation also appends an
audit record, made of fields the authorization has checked: it is left out of
`RecordsOf`, its layout is among the payloads.)

## 4. Runs

Bounds are in the `.cfg` files; states are distinct states.

| Run | States | Shows |
|---|---|---|
| `materialization_safety` | 1,950,000 | every fault at once, with virtual mailboxes: nothing missing is forgotten, facts are extracted once, OK means fresh views, and `Materialization` implements `AccountReplay` |
| `materialization_recovery` | 505,000 | liveness: everything is applied, extracted and refreshed once nothing is broken |
| `ingest` | 433,000 | retries under kills, faults and power losses on two daemons: one record per identity, no acknowledged mail lost by one kind of trouble, refinement of `DurableLog`, and the daemon always starts again |
| `ingest_lost` | | the finding below |
| `markers` | 896,000 | interrupted, overlapping and careless initializations, and that they complete |
| `writes` | 1,420,000 | every operation of an INBOX with up to two troubles |
| `views` | 448,000 | virtual mailboxes over three configurations, with changes, crashes, failed appends and a deleted catalog |
| `catalog` | 42,000 | every earlier version migrated by starts that may die between two steps |
| `server` | 502,000 | two daemons on one path that start, die, lose their file and stop |
| `delivery` | 1,864,000 | a message to two recipients, tried twice by either transport while the daemon dies and appends fail |
| `dovecot` | 3,112,000 | an IMAP session beside everything that changes its mailbox |
| `formats` | 347,000 | every kind of record, request and answer around plain and full values |

Why the bounds are enough:

- `materialization_*`: two accounts are the least that tell holds from progress and runs
  from their neighbours. With virtual mailboxes two client records already bring facts
  and view records. One abort, failure, break and restart each give every pair of faults
  in every order; an aborted pass is one transaction that fails, so one suffices to
  break a pass at any place. `RetryMax = 3` makes doubling stop short of the cap and at it. Clients deliver, append
  and update in the safety run; the liveness run leaves out appends, which differ from
  deliveries in nothing the service does.
- `ingest`: two processes and three records contain a committed, an unsynced and a torn
  record and a second daemon that recovers, opens or appends at each step of the first;
  two kills and one power loss and one fault come in every order. Of three deliveries two
  have one content, and two one identity.
- `markers`: three runs are one that repairs what two overlapping ones left; four mounts
  take a volume away and bring it back twice.
- `writes`: records and troubles are bounded together (`MaxEvents = 5`): four records with
  one trouble and three with two contain a delivery, a write of it, a racing delivery and
  a write after the race.
- `views`: a batch holds one message, so two messages are two batches unless a key joins
  them; three events are a change, a crash and a rebuild in every order.
- `catalog`: two crashes, one of them behind the repair of the other; two records are a
  checkpoint with one behind it.
- `server`: two sockets and two upsets are a daemon that dies, one that takes its path
  over and one that is disturbed, or one that stops while the other starts. `delivery`: a daemon is killed once
  and stopped and started at will; two tries are what reuses an identity. Steps that neither a
  client nor a store can tell (a daemon's while it does not listen, a session's before its
  request and behind its handler) are taken at once (`MCSpec`); `server` interleaves them, and
  the proofs are of the full specification.
- `dovecot`: two messages and one copy; UIDs up to 3; one rebuild, one held account and one lost
  answer; one command that writes and three events beside it: a copy, the loss of its
  record and a delivery are what makes a rebuild give a UID to a second message. The
  records of a pass are applied with nothing in between, except where the account is held
  (`MCSpec`): a daemon answers a write, and serves after a start, behind its pass. The proofs
  do without this.
- `formats`: a value is *plain* or *full* (all that is optional present, lists of two,
  every character class). A changed cell takes the values that mean something anywhere:
  counts, bits and versions from 0 to 4, and the null word, which as `G_MAXUINT32` is longer
  than any string (`NullWord = 30`). An encoded word says something (`Spoken`).

Symmetry (accounts, connections, messages) is used where no liveness property is checked.
`CHECK_DEADLOCK FALSE` appears where the bounds let the system stop: every run of
`StorageMarkers` used up, every record of `MailboxWrites` written, the queue of
`PostfixDelivery` delivered, an exchange of `Formats` over.

### Fairness

- `Materialization!FairSpec`: a pass holds the service's lock and is a loop, so its steps
  go on (`WF`). A client's hook and the timer's callback wait for the same lock; it is
  contended by at most the holder of the route lock and the main loop, and is released at
  the end of each pass, so each waiter gets it if it is free again and again (`SF`).
  Clients, faults, repairs and restarts are not fair. `Recovers` assumes that from some
  time on the daemon serves and nothing is broken.
- `DeliveryIngest!IngestSpec`: the steps of a startup sequence go on, and the service
  manager starts a daemon that exited. Deliveries are not fair.
- `StorageMarkers!FairSpec`: a run goes on, and the operator repeats it.
- `DaemonServer!ServerSpec`: a process that stops runs on. Nothing is assumed of handlers,
  clients or sessions. `StopEndsUnlessPassHangs` rests on the drain's deadline and on one
  premise, that the lock of the passes is free again and again (`[]<>~InPass`): the stop
  waits for it before any deadline is set, so a handler that hangs in a pass blocks the
  stop for ever, and one that hangs anywhere else does not.
- `DerivedViews!Spec`: a pass goes on and one that is due begins (`PassStep`, with
  `DuePass`). A pass that is not due is not fair: what a refresh appended need never be
  applied, and `Settled` allows for it. Changes by clients, crashes and rebuilds are not fair
  and are bounded.

### The finding

`ingest_lost` checks what `docs/contracts/mutation-journal.md:126` says of durability and
violates it: a retry is acknowledged from a record whose fsync never happened, because its
writer was killed between the write and the fsync, and a power loss then takes the record.
`AckedSurvivesOneKind` shows that it takes a kill or fault *and* a power loss.

### What the conditions of properties say

Several properties say under which condition they hold. Without the condition they are
false of the code, by the sequence of steps given here.

| Property | The condition leaves out |
|---|---|
| `ViewsFreshUnlessAborted` | a pass that aborts forgets the refreshes of the accounts it materialized; the service reports OK over stale views |
| `RecordsApplyUnlessHeld` | two EXPUNGEs of one UID while the account is held: each is checked against a catalog without the other, and the second record can never be applied, so it holds the account for ever. A rebuild after a wasted UID does the same to records that name a UID the new catalog lacks |
| `ReceiptsHonouredUnlessHeld` | a retry pass between the two halves of a reservation gives the reserved UID to a delivery; a UID reserved for an append that failed is used in the catalog and reused by a rebuild |
| `FlagsFollowJournal` (`NothingHeld`) | while another account pins the checkpoint, a pass that applies an old flag change again and then holds the account shows the old flag until the account is released |
| `CheckedVolumesServe` | `--initialize-storage` repeated while the object volume is not mounted marks the mount point with the volume's own ID: no later start can tell the two apart |
| `IndexMatchesRowsUnlessLate` | a message whose record was applied after a later UID was seen is never shown: sync appends only UIDs at or above the index's next. `docs/adr/0005` has the index and the rows match. A rebuild that gives rows lower UIDs than before does the same |
| `ToldIsTrueUnlessReused` | a UID that a rebuild gave to a second message (`Reused`): a record was never written after its UID was taken, so a rebuild gives that UID to a later delivery. A session from before the rebuild that COPYs it passes every check, since COPY checks that the UID is visible and not whose it is, and the client pairs the new UID with the message it knew |
| `RemovedWereAskedUnlessReused` | the same UIDs: an EXPUNGE by such a session removes the message that has the UID now. (FETCH is safe: the plugin compares message ids) |
| `BouncedIsRefusedUnlessTorn` | a torn append makes every search of the journal fail as invalid data until the daemon restarts; Postfix is told 5xx and returns sound messages |
| `RefusedOnlyAfterInterruption` | a first start, or a migration, that dies between two steps can leave tables ahead of their version number: every later start refuses them, and only a rebuild helps |
| `ViewsMatchRulesUnlessReverted` | rules that were refreshed halfway and then withdrawn: the refresh state still names the old ones, so the rows the new ones made stay until some rules are refreshed over all messages; a refresh of what changed does not repair them |
| `UidsNameOneMessage` (`lost`) | rows committed whose records were never appended; a rebuild gives their UIDs to others |
| `CutIsRefusedUnlessIdentityLost` | a delivery's payload with header spans, cut right before its identity, reads as a delivery that has none |
| `RequestsUnderstoodUnlessAnonymous` | a LIST whose identity names no account is encoded and then dropped; an event stream's filters are not sent |
| `AnswersUnderstoodUnlessOdd` | a stream whose request has a control character in its identifiers is executed and answered as a failure |
| `FactsAreCanonicalUnlessListId` (`ExtractedUnlessSilent`) | an encoded word that is decoded to no character, as one that is only a shift sequence (`=?iso-2022-jp?B?GyhC?=`): a display name is checked for being empty before it is decoded and not after, so it becomes an empty argument, no fact record may have one, and the extraction of that message fails in every pass. `docs/contracts/linux-runtime.md:330` has facts extracted from every delivered message |
| `FactsAreCanonicalUnlessListId` (`CanonicalUnlessListId`) | `List-Id` is not made valid UTF-8 as the other headers are |
| `ServesItsPath` (`disturbed`) | two daemons that start at the same time may each take the other's new socket for the stale file; a daemon that starts while another is between closing its socket and removing the file finds it stale, and the other may then remove the new one; a file removed by hand |
| `StopEndsUnlessPassHangs` | a handler that never returns from a pass |

## 5. Proofs

`MaterializationProofs` proves `Spec => []TypeOK` and, for all accounts, retry intervals
and bounds:

| Theorem | Property |
|---|---|
| `CheckpointNeverLeads` | `CheckpointCovered` |
| `AccountsAreReplayedInOrder` | `AppliedInOrder` |
| `CursorLosesNothing` | `CursorSkipsOnlyHeld` |
| `MissingRecordsAreRetried` | `MissingIsRetried` |
| `OkIsCheckpointed` | `OkMeansCheckpointed` |
| `FactsAreExtractedOnce` | `ExtractedOnce` |
| `ViewsAreFreshUnlessAborted` | `ViewsFreshUnlessAborted` |
| `ReplayIsImplemented` | `ImplementsAccountReplay` (`AccountReplay` is implemented) |

They assume `RetryAssumption` (the first interval is positive and at most the cap, as
`wyrebox_daemon_delivery_materialization_new` enforces), `KindsAssumption` (clients write
messages and updates), `ViewsAssumption` and `BoundsAssumption`; nothing about the accounts.

None of the properties is inductive: whether a transaction may advance the checkpoint
depends on where its scan started and what it held on the way. The inductive invariant
`IInv` adds, to `TypeOK` and the properties themselves,

- `ScanInv`: a running scan stays inside the journal, every missing record behind its
  position belongs to an account it holds, a post-ingest scan holds what the service
  holds, and the scan is over when the later phases run;
- `CursorInv`: the cursor points into the journal, and a process that is down has
  neither a cursor nor a pass; with `CursorSkipsOnlyHeld` it lets a scan resume there;
- `CheckpointInv`: a scan that did not start at the checkpoint holds an account, and one
  that did and holds none has moved the checkpoint along with it — so the transaction
  that advances the checkpoint has nothing missing behind it;
- `OwedInv`: which passes run while a client waits or the daemon starts, and that the
  clients' records lie inside the range of the running pass unless a pass is still owed;
- `FailureInv`: with no failure, no request and no pass that will tell, all client
  records are below the checkpoint; with a failure a retry is armed or running.

Each action has a lemma that it preserves `IInv`, split by conjunct; the last step
combines them with `PTL`. `TypeOK` is proved first, and each of the others uses it.

The last three theorems rest on two more invariants. `FactsInv`: a scan has
every record of facts in its range, and an extraction has besides them only its own; so a
message that is to be extracted, in an account of which the scan held nothing, has its
facts in the catalog if it has any. `ViewsInv`: while no pass was aborted, stale views are
queued or of an account whose records the running scan applies, and the refresh at the end
of a pass takes what is queued and not held, so nothing is queued at a service that
reports success. For the refinement, every step is one of `AccountReplay` or stutters
(`StepIsPromised`): an extraction is a `Describe` because of `FactsInv`, a refresh journals
changes only of an account with something in the catalog, and a run that is applied leaves
no gap in its account because `AppliedInOrder` holds behind it: what is missing before the
scan's position is held (`ScanInv`), and a held account's runs are not applied.

`StartupProofs` proves first, for any set of runs, storage IDs, deliveries, operators
and mounts (`StorageAssumption`: the absent ID is no ID), `TypeCorrect` and

| Theorem | Property |
|---|---|
| `NeverLoneObjectCorrect` | `NeverLoneObject` |
| `VolumesMatchCorrect` | `VolumesMatch` |
| `MarkerIsForeverCorrect` | `MarkerIsForever` |
| `CheckedVolumesServeCorrect` | `CheckedVolumesServe` |

Its `IInv` says what a run may rely on between reading and writing. `OneAtATime`: an
operator who does not overlap runs has at most one under way, and the runs under way are
finitely many. `StillSees`: such a run's journal marker is the one it read, and past the
read of the object marker there is still none. `StillMounted`: the volumes a careful
operator checked stay mounted, since nothing is mounted under a run. `JournalMarked` and
`WritesOneId`: what is about to be written beside the journal marker is the ID in it.
The markers need all of them: a run decides on markers it read steps ago.

`CheckedVolumesServe` is about what is at the two places, the volume and the bare mount
point, when each of the roots may be at either: `CheckedInv` has it that both places were
written with both roots on them (`RecordsBelow`), that their markers are of different IDs
(`PlacesDiffer`), and that a bare mount point holds objects only under a marker. A run
starts with the volumes mounted or after both are in use (`KnowsMounts`); one that finds
the roots at different places then meets data, and stops before it writes (`MixedRefused`).

`PostfixDeliveryProofs` begins with the server by itself. For any number of daemons and
connections and every bound it proves
`ServesItsPathCorrect` (`ServesItsPath`) and `ReleasedIsQuietCorrect` (`ReleasedIsQuiet`).
The first needs `PathInv`. `SocketsDiffer`: inodes are never reused, so a daemon that took
another's socket for its own did so while both were starting, and is marked disturbed.
`StartsAlone`: beside an undisturbed daemon that starts, no other starts or is about to
remove its file; one that starts beside one that serves does not get beyond the probe, and
none that stops has matched the file of one that serves. `PathIsOwn`: from its bind until
it closes its socket, an undisturbed daemon's file is the one at the path. The second is inductive beside the types:
sessions begin only at daemons that serve, and leave the count last.

`DeliveryIngestProofs` proves, for any number of processes, deliveries, identities, kills,
power losses and faults (`ValuesAssumption`: there is a delivery; `DeliveryAssumption`: each
has an identity and a content), `TypeCorrect` and

| Theorem | Property |
|---|---|
| `DurableLogRefined` | `ImplementsDurableLog` (the journal, with its deliveries, refines `DurableLog`) |
| `OneRecordPerIdentityCorrect` | `OneRecordPerIdentity` |
| `AckedSurvivesCorrect` | `AckedSurvivesOneKind` |
| `CheckpointInJournalCorrect` | `CheckpointInJournal`, which no run checks |

Its `IInv` follows the file and its one writer. `LockInv`: the lock is held by the process
that has opened the segment, and by it alone. `SegmentInv`: sequence numbers are positions,
only the last record may be partial, and what is synced is whole. `WriterInv`: a writer
that has not failed knows where the segment ends, and one that is writing writes the last
record; after a failure it knows nothing, and the code appends nothing. `IdentityInv`: an
identity has one record, partial or not, and a delivery that holds the append mutex has
none, which stays true because nobody else can append. `CommitInv` and `AckInv` are about
what a power loss may take: with neither kills nor faults only the record being written is
whole and not synced, and the checkpoint, the ends readers know and the acknowledged
deliveries lie in what is synced; without power losses acknowledged deliveries need only be
whole. A step that leaves the segment alone preserves all of it by one lemma, `Moved`. For
the refinement, a step extends the log if it keeps the synced records (`Extends`): the
truncation and the power loss cut behind them, and `SyncRecord` reports the last of them.

`MailboxWritesProofs` proves, for any operations, troubles and bounds
(`OperationsAssumption`, `TroublesAssumption`, `WritesBoundsAssumption`), `TypeCorrect` and

| Theorem | Property |
|---|---|
| `TombstonesStayCorrect` | `TombstonesStay` |
| `MovesLoseNothingCorrect` | `MovesLoseNothing` |
| `FlagsFollowJournalCorrect` | `FlagsFollowJournal` |
| `RecordsApplyCorrect` | `RecordsApplyUnlessHeld` |
| `ReceiptsHonouredCorrect` | `ReceiptsHonouredUnlessHeld` |

`IInv` types the state and says where a pass may be. Besides, `SafeInv`, which holds
whatever is held, aborted or rebuilt: UIDs differ, a move that has its copy has hidden its
source, and every message is shown or expunged. A move that finds its copy may only have
to hide the source, so the second part is what the third needs. `ScanInv`: the records
before one a pass may apply are in the catalog. `AppliedInv`: an applied record is still
visible in the rows, and a tombstone names an applied record. `FlagsInv`: without holds, a
membership that lacks its newest flags has that record before the running pass — the
replay of an older flag change is followed by the newer ones in the same pass.

The last two properties are about what a request read and the journal it then appends to,
and need more (`QuietInv`, for as long as nothing was held and no rebuild met a wasted
UID). `WorkInv` and `CaughtUp`: which pass a request waits for, and that between requests
the catalog lacks nothing but the record being answered. `AskInv`: what a request read is
still so when its record is appended, since one request at a time is routed and nothing
else has a record to apply. `Promised` relates the catalog to the journal alone: some
assignment `U` of UIDs to the records that create memberships ascends, agrees with the
rows, the reserved UIDs and the receipts, gives every record that names a UID an earlier
one that created it, and has no record name a UID after the one that removed it. A record
that a rebuild meets finds what it names because `U` does not change when the rows are
thrown away. `NextInv` says where the UIDs of deliveries come from: as long as none was
wasted, `U` counts the records, and a rebuild does too.

Of the migration, `StartupProofs` proves, for any number of journal records, interrupted
starts and materialization runs (`RecordsAssumption`: the absent version is no number),
`MigrationTypeCorrect` and

| Theorem | Property |
|---|---|
| `RefusedOnlyAfterInterruptionCorrect` | `RefusedOnlyAfterInterruption` |
| `UsedAsIsIsCompleteCorrect` | `UsedAsIsIsComplete` |

by two invariants. `FitsInv`: as long as no start was interrupted the tables are those some
release made, or those the steps so far make of them, and each step accepts what the ones
before it leave; a migration that is refused for its preconditions leaves tables that
still fit the version the file has. `MadeInv` holds after
interruptions too: the file has at least the tables its version promises, and a checkpoint
is only kept over steps that leave the rows before it as they are.

`DovecotSessionProofs` proves, for any messages, flags, lost answers, rebuilds and events
beside the session (`FlagsAssumption`, `SessionBoundsAssumption`),

| Theorem | Property |
|---|---|
| `ToldIsTrueUnlessReusedCorrect` | `ToldIsTrueUnlessReused` |
| `IndexShowsAcceptedCorrect` | `IndexShowsAccepted` |
| `IndexMatchesRowsUnlessLateCorrect` | `IndexMatchesRowsUnlessLate` |
| `RemovedWereAskedUnlessReusedCorrect` | `RemovedWereAskedUnlessReused` |

`IInv` types the state and has a half for the daemon and one for the session. `Sound`: rows
have UIDs that were given to their messages (`given` only grows), what has a UID is in some
record, and each record tells the truth (`RecordOf`): the UIDs in it were given to its
messages, a MOVE removes only what it copies, an EXPUNGE names UIDs of messages a client
asked to remove. `Kept`, the last part of it: a message that was given a UID is visible, waits
in the journal, was asked to be expunged, or had a UID that another message had too
(`Astray`). It survives a rebuild because everything waits then, and the application of
any record because what a record hides is what it shows elsewhere or what its UID was
given to. `Later` says all that a session may count on when the mailbox changes: what was
given stays given, and a row that appears below the index's next UID is `late`. `StateOf`:
the rows of the session were the daemon's at some time. `IndexOf`: the index is of these
rows, and of what the daemon shows below its next UID it lacks only what is late; without
the second half the next sync could skip a message. `FlagsOf`: while a STORE is pushed a
message's flags in the index are those its row will have when the rest of its changes are
accepted (`Target`), or will be put back. The positions of UIDs in a batch (`Positions`,
`NthIs`, `Consecutive`) make the pairs of a COPYUID those of the record: the new UID is of
the message that had the source's UID then, which is the message the client names or
shared that UID with it.

The rest of `PostfixDeliveryProofs` composes the server with the transports. For any
daemons, connections, queue entries, recipients and tries it proves

| Theorem | Property |
|---|---|
| `SentIsRecordedCorrect` | `SentIsRecorded` |
| `BouncedIsRefusedCorrect` | `BouncedIsRefusedUnlessTorn` |

They assume `DeliveryAssumption`: recipients are sequences, and "no answer" is not one of
the answers. The properties speak of Postfix's queue and the journals, which never meet;
`IInv` follows the way between them. `AnswerInv`: an answer on a connection is true of the
request that connection carries, whoever is left to read it. `WaitInv`: who waits, waits
on a connection of its own that carries its request, so a connection that was given up
and used again cannot answer for the earlier one. `ReplyInv`: the reply in each place is
true of the recipient whose RCPT has that place; `AttemptInv` has the places agree, whatever
RSETs came before. What the server does by itself is one lemma, `ServerKeeps`: a client
stays on its connection, an answer stays or is lost, and only a connection that its daemon
has not dropped brings a request to a handler. `GrowthKeeps`: journals lose no record, so
what was concluded stays true.

`DerivedViewsProofs` proves, for any messages, keys, configurations, batch size and events,

| Theorem | Property |
|---|---|
| `UidsNameOneMessageCorrect` | `UidsNameOneMessage` |
| `ViewsMatchRulesCorrect` | `ViewsMatchRulesUnlessReverted` |
| `RebuildReproducesCorrect` | `RebuildReproduces` |

They assume `ViewsAssumption`: messages are positive numbers, and finitely many; a view is of
message, thread or account scope; each configuration has a view, and none twice, and names
them; what is extracted or claimed are facts. `IInv` consists of named parts, each about one difficulty.
`FactsInv`: a fact is active when the last record about it that was applied says so.
`UidInv`: every UID that was shown is in a record or waits to be (`NamedRecorded`), and the
records applied lie below UIDNEXT (`AppliedPast`), so a refresh, which starts with all of
them applied, gives none of them again (`NamedPast`).

`RowsInv` and `ShownInv` are about what is evaluated. Against `RightAt`, what a view shows of
one message, evaluated over all of them, `Shown` says that a view can only be wrong about
messages that are due; `Within` says the same in the middle of a refresh, of the views and
messages already done (`Behind`) and to be done. `TodoInv`: what remains to be done
contains the thread of each of its messages. Records of view rows still to be applied are
about what is done already, so that an abandoned refresh is not undone by its own records.
The reason it works is stated by lemmas without state: threads are classes of an
equivalence (`NearEquivalence`), what the rules say of a message depends on the facts of
its class (`DerivedIsLocal`), a batch of whole classes is evaluated as if over everything
(`BatchIsRight`), and a record changes what the rules say only of messages it makes due
(`ChangesMakeDue`), because retracted links still connect in `ThreadLinks`.

`RebuildInv` is about the catalog and the journal. `JournalInv`: until a batch is committed
the rows are the last ones that the applied records have of each membership (`Replayed`),
and from then on those of the whole journal with the rows whose records still wait laid
over them (`Overlaid`). So a deleted catalog was what its journal replays to (`CopyInv`).
`RepeatInv`: what the journal replays to shows what the journal's facts say under the rules
of the deleted catalog, so no batch of those rules has a change; other rules that commit
one end the comparison, and a refresh of theirs that commits none had no messages
(`FirstInv`).

`FormatsProofs` proves, for every value of every type — texts, lists and counts of any
length, whatever events, messages, requests and outcomes there are —

| Theorem | Property |
|---|---|
| `RequestsUnderstoodCorrect` | `RequestsUnderstoodUnlessAnonymous` |
| `AnswersUnderstoodCorrect` | `AnswersUnderstoodUnlessOdd` |
| `WrittenIsReadableCorrect` | `WrittenIsReadable` |
| `AcceptedIsRecordableCorrect` | `AcceptedIsRecordable` |
| `CutIsRefusedUnlessIdentityLostCorrect` | `CutIsRefusedUnlessIdentityLost` |

The assumptions say what C's types say. `NoneAssumption`: NULL is no text, list or record.
`RequestsAssumption`: requests are of their types, and the length that means NULL is
neither 0 nor 1 (it is `G_MAXUINT32`, and strings of a payload are shorter: `CStrings`).
`EventsAssumption`, `MessagesAssumption` and `StoredAssumption`: events, headers and the
facts found in a message are of their types, spans end after they start, and object keys
are keys. `OutcomesAssumption`: services answer with what an answer can be made of.

Requests and answers: blanking, which is what the wire does to a text that is not there,
does not change what a constructor decides, and what it decides is the same the second
time; this is one lemma for each kind of request and of answer. `RequestInv` and
`AnswerInv` carry it to the state where the property looks.

Records: a decoder reads a layout with a fold, and what a fold computes has no theorem
here by induction over data. So a fold is characterised by a *trace*, the function of its
intermediate results: the first is the start, each follows from the one before it
(`FieldTrace`), and an induction over positions, well-founded as a set of numbers, is all
that is needed of it. `FlattenSeq` has such a trace, too (`Leaves`): it tells where each part of
a payload begins. `Lays` relates both: the layout's fields, in order, have room for the
values, and the parts are what each of them is written as; then reading the layout from
the flattened parts gives the values and leaves what follows them (`ReadWhole`). Beyond
that, each format needs that its encoder's checks give the fields values they have room for, that
what its decoder checks is what the encoder checked, and that lists of items and of facts
are read item by item. The encoder of facts checks less than the decoder:
`WrittenIsReadable` holds because facts that reach it are fact records (`FactTypes`).
`RecordInv` keeps the cells those of the value until they are read, and what was read the
value. For `AcceptedIsRecordable` the checks of each request are shown to imply those of
each record it leads to.

Cuts: `Grows` relates two readings of which the second has more cells behind: the first is
refused, or got the same fields and has that much less left. Every reading step, every
layout and every list of items keeps it. So of two readings that both use up their cells
the shorter one is refused, with the one exception of the layout that may stop in the
middle, `FourthRest`. `ReadInv` has it that what is read is a reading of cells of some
value's type, cut, changed or whole.

The proofs corrected the models four times: a full refresh that completes repairs what
withdrawn rules left; a catalog that is deleted in the middle of a refresh is none that a
rebuild could be compared with; the length that means NULL has to differ from every length
and count that is written, which an instance with `NullWord = 9` did not have; and a
message in which a name is decoded to nothing is not extracted.

Only model-checked: liveness (`Recovers`, `Restarts`, `InitializationCompletes`,
`StopEndsUnlessPassHangs`, `ViewsCatchUp`, which are temporal and need `ENABLED`), and
`FactsAreCanonicalUnlessListId`, both of whose halves follow a lexer, an address grammar and
the rules of an administrator through a dozen nested folds, whose results depend on every
character before, not on one field after another.

## 6. Not modelled

- Export, Maildir import, backup and the admin tools: they check arguments, plan or print.
  No export job is executed, an import plan writes nothing, `backup/` describes and checks
  sets that other means copy. Nothing of them has a state that could go wrong over time.
- Message search, query templates and predicate queries: they read, and run DuckDB or the
  rule engine. Their requests and answers are in `DaemonWire`.
- Rule evaluation (`wirelog/`) is an external engine, a function from facts to members in
  `DerivedViews`; the packages that configure it are read once, at startup.
- Encoded words, base64, MIME structure, dates, regular expressions and hostname
  conversion: pure functions over bytes, external to `FactExtraction`.
- The checksum in a record's header, and Cap'n Proto's own encoding: a payload reaches
  `JournalPayloads`, and a message `DaemonWire`, as it was written or as another writer's.
- The in-memory metadata store, which only tests use.
- UID lists and COPY from a virtual mailbox as operations on the catalog (`MailboxWrites`
  has one UID per request), and peer credentials beyond a connection that is dropped.
