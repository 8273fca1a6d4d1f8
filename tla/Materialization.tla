-------------------------- MODULE Materialization --------------------------
(***************************************************************************)
(* Delivery materialization: the daemon replays the mutation journal into  *)
(* the DuckDB catalog.  A pass scans the journal from the persisted        *)
(* checkpoint (or from the in-memory cursor), applies maximal runs of one  *)
(* account in one transaction each, holds the accounts whose records       *)
(* cannot be applied, extracts facts from new messages, applies those with *)
(* a follow-up pass, and refreshes the accounts' virtual mailboxes.  A     *)
(* failed pass arms a retry timer.                                         *)
(*   src/wyrebox/daemon/wyrebox-daemon-delivery-materialization.c          *)
(*   src/wyrebox/ingestion/wyrebox-delivery-catchup.c                      *)
(*   src/wyrebox/ingestion/wyrebox-delivery-materializer.c (transactions)  *)
(* Every step between two commits is an action of its own, so records      *)
(* arrive, objects break and the process dies between any two of them.     *)
(***************************************************************************)
EXTENDS Integers, Sequences, FiniteSets

CONSTANTS
  Accounts,       \* account identities
  WirelogViews,   \* whether extraction and refresh functions are installed
  RetryInitial,   \* first retry interval
  RetryMax,       \* cap of the retry interval
  ClientKinds,    \* bound: kinds of records that clients write, ...
  MaxRecords,     \* bound: ... and how many
  MaxJournal,     \* bound: records in all, for the optional "view" records
  MaxAborts,      \* bound: errors that abort a pass
  MaxFailures,    \* bound: failed extractions and refreshes
  MaxBreaks,      \* bound: times a record becomes unappliable
  MaxRestarts     \* bound: crashes and shutdowns

ASSUME ViewsAssumption == WirelogViews \in BOOLEAN
ASSUME KindsAssumption == ClientKinds \subseteq {"delivery", "append", "update"}
ASSUME RetryAssumption ==
  /\ RetryInitial \in Nat \ {0}
  /\ RetryMax \in Nat
  /\ RetryInitial <= RetryMax
ASSUME BoundsAssumption ==
  /\ MaxRecords \in Nat /\ MaxJournal \in Nat /\ MaxAborts \in Nat
  /\ MaxFailures \in Nat /\ MaxBreaks \in Nat /\ MaxRestarts \in Nat

VARIABLES
  \* durable
  journal,       \* sequence of records [account, kind, of]
  checkpoint,    \* index of the persisted checkpoint, 0 when there is none
  applied,       \* indices of the records the catalog contains
  refreshed,     \* newest record each account's views were refreshed to
  \* the outside world
  bad,           \* records that cannot be applied now (object or INBOX broken)
  owed,          \* a client's record is durable, its pass has not finished
  mode,          \* "down", "starting", "serving" or "stopped"
  \* in memory
  holds,         \* held accounts
  cursor,        \* scan cursor, 0 when not present
  refreshHolds,  \* accounts held by extraction or refresh
  pending,       \* accounts whose views are to be refreshed
  retry,         \* the one-shot retry timer is armed
  interval,      \* current retry interval
  failing,       \* consecutive_failures > 0
  pass,          \* the running pass
  spent          \* bounds already used

catalogVars == <<checkpoint, applied, refreshed>>
serviceVars == <<holds, cursor, refreshHolds, pending, retry, interval, failing>>
vars == <<journal, checkpoint, applied, refreshed, bad, owed, mode,
          holds, cursor, refreshHolds, pending, retry, interval, failing, pass,
          spent>>

MessageKinds == {"delivery", "append"}
Kinds == MessageKinds \cup {"update", "facts", "view"}
PassKinds == {"postIngest", "catchUp", "retry"}
Indices == 1 .. Len(journal)
Records(kinds) == {i \in Indices : journal[i].kind \in kinds}
AccountRecords(a) == {i \in Indices : journal[i].account = a}

IdlePass ==
  [kind |-> "none", phase |-> "idle", followUp |-> FALSE, start |-> 0, at |-> 1,
   end |-> 0, fromCheckpoint |-> FALSE, held |-> {}, done |-> {}, todo |-> {},
   extracted |-> {}]

Idle == pass.phase = "idle"

(* The route lock is held from a client's append to the end of its pass,   *)
(* and around the catch-up a client's request starts with.                 *)
RouteFree == ~owed /\ pass.kind # "catchUp"

MaxOf(m, n) == IF m >= n THEN m ELSE n

Init ==
  /\ journal = << >> /\ checkpoint = 0 /\ applied = {}
  /\ refreshed = [a \in Accounts |-> 0]
  /\ bad = {} /\ owed = FALSE /\ mode = "down"
  /\ holds = {} /\ cursor = 0 /\ refreshHolds = {} /\ pending = {}
  /\ retry = FALSE /\ interval = RetryInitial /\ failing = FALSE
  /\ pass = IdlePass
  /\ spent = [aborts |-> 0, failures |-> 0, breaks |-> 0, restarts |-> 0]

(* What a dying process loses, and a new one starts with. *)
ProcessEnds ==
  /\ mode' = "down" /\ owed' = FALSE /\ pass' = IdlePass
  /\ holds' = {} /\ cursor' = 0 /\ refreshHolds' = {} /\ pending' = {}
  /\ retry' = FALSE /\ interval' = RetryInitial /\ failing' = FALSE

-----------------------------------------------------------------------------
(* The rest of the daemon and its environment                              *)

AppendRecord(rec) == journal' = Append(journal, rec)

(* A delivery or another mutation becomes durable.  A retry pass may be    *)
(* running: the append does not take the materialization lock.             *)
ClientAppend(a, k) ==
  /\ mode \in {"serving", "stopped"}
  /\ RouteFree
  /\ Cardinality(Records(ClientKinds)) < MaxRecords
  /\ AppendRecord([account |-> a, kind |-> k, of |-> 0])
  /\ owed' = TRUE
  /\ UNCHANGED <<catalogVars, bad, mode, serviceVars, pass, spent>>

(* An object is lost or corrupted, or an INBOX row or a UID no longer      *)
(* matches the record.                                                     *)
Break(i) ==
  /\ i \notin bad /\ spent.breaks < MaxBreaks
  /\ bad' = bad \cup {i}
  /\ spent' = [spent EXCEPT !.breaks = @ + 1]
  /\ UNCHANGED <<journal, catalogVars, owed, mode, serviceVars, pass>>

(* The operator restores it. *)
Repair(i) ==
  /\ i \in bad
  /\ bad' = bad \ {i}
  /\ UNCHANGED <<journal, catalogVars, owed, mode, serviceVars, pass, spent>>

-----------------------------------------------------------------------------
(* Scanning                                                                *)

(* The first scan of a pass of kind k, or its follow-up: a post-ingest     *)
(* scan resumes from the cursor with the current holds, any other one      *)
(* starts at the checkpoint with none.                                     *)
Resumes(k) == k = "postIngest" /\ cursor > 0

HoldsForgotten(k) == {}  \* variant
CarriedHolds(k) == IF k = "postIngest" THEN holds ELSE {}

FromCheckpoint(k) == Resumes(k) => cursor = checkpoint

StartScan(k, followUp) ==
  LET start == IF Resumes(k) THEN cursor ELSE checkpoint
  IN [kind |-> k, phase |-> "scan", followUp |-> followUp,
      start |-> start, at |-> start + 1, end |-> Len(journal),
      fromCheckpoint |-> FromCheckpoint(k), held |-> CarriedHolds(k),
      done |-> {}, todo |-> {}, extracted |-> {}]

(* The last record of the run that starts at i: consecutive deliveries of  *)
(* one account form a run, every other record is a run of its own.         *)
IsRun(i, j) ==
  \A n \in i .. j : /\ journal[n].account = journal[i].account
                    /\ i = j \/ journal[n].kind = "delivery"
IsMaximalRun(i, j) ==
  /\ j \in i .. pass.end /\ IsRun(i, j)
  /\ j < pass.end => ~IsRun(i, j + 1)

(* One transaction: the rows of the run and the checkpoint, unless an      *)
(* account is held or the scan did not start there.  The UIDs the rows get *)
(* are MailboxWrites' subject.                                             *)
AdvanceDespiteHolds(j) == IF pass.fromCheckpoint THEN j ELSE checkpoint  \* variant
Advance(j) ==
  IF pass.fromCheckpoint /\ pass.held = {} THEN MaxOf(checkpoint, j)
                                           ELSE checkpoint

Apply(i, j) == applied' = applied \cup (i .. j) /\ checkpoint' = Advance(j)

Scanning == pass.phase = "scan" /\ pass.at <= pass.end

SkipRun(j) ==
  /\ Scanning /\ IsMaximalRun(pass.at, j)
  /\ journal[pass.at].account \in pass.held
  /\ pass' = [pass EXCEPT !.at = j + 1]
  /\ UNCHANGED <<journal, catalogVars, bad, owed, mode, serviceVars, spent>>

HoldRun(j) ==
  /\ Scanning /\ IsMaximalRun(pass.at, j)
  /\ journal[pass.at].account \notin pass.held
  /\ bad \cap (pass.at .. j) # {}
  /\ pass' = [pass EXCEPT !.at = j + 1, !.held = @ \cup {journal[pass.at].account}]
  /\ UNCHANGED <<journal, catalogVars, bad, owed, mode, serviceVars, spent>>

ApplyRun(j) ==
  /\ Scanning /\ IsMaximalRun(pass.at, j)
  /\ journal[pass.at].account \notin pass.held
  /\ bad \cap (pass.at .. j) = {}
  /\ Apply(pass.at, j)
  /\ pass' = [pass EXCEPT
                !.at = j + 1,
                !.done = IF journal[pass.at].kind = "view" THEN @
                         ELSE @ \cup {journal[pass.at].account}]
  /\ UNCHANGED <<journal, refreshed, bad, owed, mode, serviceVars, spent>>

-----------------------------------------------------------------------------
(* Extraction and refresh                                                  *)

(* The first scan forgets the refresh holds of earlier passes; every       *)
(* pending account that is not held is extracted next.                     *)
EndFirstScan ==
  /\ pass.phase = "scan" /\ pass.at > pass.end /\ ~pass.followUp
  /\ pending' = pending \cup pass.done
  /\ refreshHolds' = {}
  /\ pass' = [pass EXCEPT !.phase = "extract",
                          !.todo = IF WirelogViews THEN pending' \ pass.held ELSE {}]
  /\ UNCHANGED <<journal, catalogVars, bad, owed, mode, holds, cursor, retry,
                 interval, failing, spent>>

(* Messages of a without an extraction row, not extracted in this pass. *)
UnextractedAgain(a) ==  \* variant
  (applied \cap Records(MessageKinds) \cap AccountRecords(a))
    \ {journal[f].of : f \in applied \cap Records({"facts"})}
Unextracted(a) ==
  LET rows == {journal[f].of : f \in applied \cap Records({"facts"})}
  IN (applied \cap Records(MessageKinds) \cap AccountRecords(a))
       \ (rows \cup pass.extracted)

(* Messages are read in journal order; the facts of each become one record. *)
ExtractMessage(a, i) ==
  /\ pass.phase = "extract" /\ a \in pass.todo
  /\ i \in Unextracted(a) /\ \A n \in Unextracted(a) : i <= n
  /\ i \notin bad
  /\ AppendRecord([account |-> a, kind |-> "facts", of |-> i])
  /\ pass' = [pass EXCEPT !.extracted = @ \cup {i}]
  /\ UNCHANGED <<catalogVars, bad, owed, mode, serviceVars, spent>>

ExtractDone(a) ==
  /\ pass.phase = "extract" /\ a \in pass.todo /\ Unextracted(a) = {}
  /\ pass' = [pass EXCEPT !.todo = @ \ {a}]
  /\ UNCHANGED <<journal, catalogVars, bad, owed, mode, serviceVars, spent>>

(* The object of the next message is unreadable, or the account's           *)
(* extraction fails otherwise: the account is held and stays pending.       *)
ExtractFail(a) ==
  /\ pass.phase = "extract" /\ a \in pass.todo
  /\ \/ /\ \E i \in Unextracted(a) \cap bad : \A n \in Unextracted(a) : i <= n
        /\ UNCHANGED spent
     \/ /\ spent.failures < MaxFailures
        /\ spent' = [spent EXCEPT !.failures = @ + 1]
  /\ refreshHolds' = refreshHolds \cup {a}
  /\ pass' = [pass EXCEPT !.todo = @ \ {a}]
  /\ UNCHANGED <<journal, catalogVars, bad, owed, mode, holds, cursor, pending,
                 retry, interval, failing>>

(* Extracted records are applied by a second scan of the same kind, which  *)
(* starts where the first one started.                                     *)
StartFollowUp ==
  /\ pass.phase = "extract" /\ pass.todo = {} /\ pass.extracted # {}
  /\ pass' = StartScan(pass.kind, TRUE)
  /\ UNCHANGED <<journal, catalogVars, bad, owed, mode, serviceVars, spent>>

(* After the last scan: refresh the pending accounts that are not held;    *)
(* without views, only accounts with a failed extraction stay pending.     *)
RefreshDoneOnly(queued) == pass.done \ (pass.held \cup refreshHolds)  \* variant
RefreshTodo(queued) ==
  IF WirelogViews THEN queued \ (pass.held \cup refreshHolds) ELSE {}

StartRefresh ==
  /\ \/ pass.phase = "extract" /\ pass.todo = {} /\ pass.extracted = {}
     \/ pass.phase = "scan" /\ pass.at > pass.end /\ pass.followUp
  /\ LET queued == pending \cup pass.done IN
       /\ pending' = IF WirelogViews THEN queued ELSE queued \cap refreshHolds
       /\ pass' = [pass EXCEPT !.phase = "refresh", !.todo = RefreshTodo(queued)]
  /\ UNCHANGED <<journal, catalogVars, bad, owed, mode, holds, cursor,
                 refreshHolds, retry, interval, failing, spent>>

(* m is the newest record the account's messages, facts and memberships    *)
(* carry, 0 when they carry none.                                          *)
IsLatest(a, m) ==
  LET seen == applied \cap AccountRecords(a) \cap Records(Kinds \ {"view"})
  IN m \in seen \cup {0} /\ \A n \in seen : n <= m

(* A refresh may change the members of a view, which it journals; it may   *)
(* fail before it did, or after.                                           *)
JournalChanges(a, m) ==
  \/ UNCHANGED journal
  \/ /\ refreshed[a] < m /\ Len(journal) < MaxJournal
     /\ AppendRecord([account |-> a, kind |-> "view", of |-> 0])

RefreshAccount(a, m) ==
  /\ pass.phase = "refresh" /\ a \in pass.todo /\ IsLatest(a, m)
  /\ JournalChanges(a, m)
  /\ refreshed' = [refreshed EXCEPT ![a] = m]
  /\ pending' = pending \ {a}
  /\ pass' = [pass EXCEPT !.todo = @ \ {a}]
  /\ UNCHANGED <<checkpoint, applied, bad, owed, mode, holds, cursor,
                 refreshHolds, retry, interval, failing, spent>>

RefreshFail(a, m) ==
  /\ pass.phase = "refresh" /\ a \in pass.todo /\ IsLatest(a, m)
  /\ JournalChanges(a, m)
  /\ spent.failures < MaxFailures
  /\ spent' = [spent EXCEPT !.failures = @ + 1]
  /\ refreshHolds' = refreshHolds \cup {a}
  /\ pass' = [pass EXCEPT !.todo = @ \ {a}]
  /\ UNCHANGED <<catalogVars, bad, owed, mode, holds, cursor, pending, retry,
                 interval, failing>>

-----------------------------------------------------------------------------
(* Ends of a pass                                                          *)

NextInterval == IF interval > RetryMax \div 2 THEN RetryMax ELSE interval * 2

(* A pass that ends lets its caller go on: the client's request is         *)
(* answered, a startup catch-up leads to the open socket.                  *)
Released ==
  /\ owed' = (owed /\ pass.kind # "postIngest")
  /\ mode' = IF mode = "starting" THEN "serving" ELSE mode

FinishClean ==
  /\ pass.phase = "refresh" /\ pass.todo = {}
  /\ pass.held = {} /\ refreshHolds = {}
  /\ failing' = FALSE /\ interval' = RetryInitial
  /\ holds' = {} /\ cursor' = 0 /\ retry' = FALSE
  /\ pass' = IdlePass /\ Released
  /\ UNCHANGED <<journal, catalogVars, bad, refreshHolds, pending, spent>>

(* What every failed pass leaves behind, aborted or not: unless the service *)
(* is stopped, a retry is armed, the one already armed or a new one.        *)
RearmFirstFailureOnly == retry \/ (mode # "stopped" /\ ~failing)  \* variant
Rearm == retry \/ mode # "stopped"

Backoff == IF pass.kind = "retry" THEN NextInterval ELSE interval

Failed ==
  /\ failing' = TRUE /\ interval' = Backoff /\ retry' = Rearm
  /\ pass' = IdlePass

(* The end of the scan: its last record or, when it had none, the place it *)
(* resumed from.  A cursor is kept only with holds.                        *)
ScannedThrough ==
  IF pass.start < pass.end THEN pass.end
  ELSE IF pass.kind = "postIngest" THEN cursor ELSE 0
NextCursor == IF pass.held # {} THEN ScannedThrough ELSE 0

FinishFailed ==
  /\ pass.phase = "refresh" /\ pass.todo = {}
  /\ pass.held # {} \/ refreshHolds # {}
  /\ holds' = pass.held /\ cursor' = NextCursor
  /\ Failed /\ Released
  /\ UNCHANGED <<journal, catalogVars, bad, refreshHolds, pending, spent>>

(* An error other than invalid data aborts a scan, before its first record *)
(* (unsafe journal suffix, object store root missing) or at a transaction  *)
(* (disk full); what it committed stays.  A catch-up returns the error to  *)
(* its caller, which at startup exits.                                     *)
AbortPass ==
  /\ pass.phase = "scan"
  /\ \/ pass.at = pass.start + 1
     \/ /\ Scanning /\ journal[pass.at].account \notin pass.held
        /\ \E j \in Indices : IsMaximalRun(pass.at, j) /\ bad \cap (pass.at .. j) = {}
  /\ spent.aborts < MaxAborts
  /\ spent' = [spent EXCEPT !.aborts = @ + 1]
  /\ \/ /\ pass.kind # "catchUp" /\ cursor' = 0 /\ Failed /\ Released
        /\ UNCHANGED <<holds, refreshHolds, pending>>
     \/ /\ pass.kind = "catchUp" /\ mode # "starting"
        /\ cursor' = 0 /\ pass' = IdlePass
        /\ UNCHANGED <<owed, mode, holds, refreshHolds, pending, retry, interval,
                       failing>>
     \/ mode = "starting" /\ ProcessEnds
  /\ UNCHANGED <<journal, catalogVars, bad>>

-----------------------------------------------------------------------------
(* Starting passes, starting and stopping the daemon                       *)

BeginPass(k) == Idle /\ pass' = StartScan(k, FALSE)

(* The hook that runs after a client's record is durable. *)
PostIngest ==
  /\ mode \in {"serving", "stopped"} /\ owed
  /\ BeginPass("postIngest")
  /\ UNCHANGED <<journal, catalogVars, bad, owed, mode, serviceVars, spent>>

(* COPY, MOVE and APPEND requests catch up before they look at the catalog. *)
CatchUp ==
  /\ mode \in {"serving", "stopped"} /\ RouteFree
  /\ BeginPass("catchUp")
  /\ UNCHANGED <<journal, catalogVars, bad, owed, mode, serviceVars, spent>>

RetryFires ==
  /\ mode = "serving" /\ retry
  /\ BeginPass("retry")
  /\ retry' = FALSE
  /\ UNCHANGED <<journal, catalogVars, bad, owed, mode, holds, cursor,
                 refreshHolds, pending, interval, failing, spent>>

(* Startup queues a refresh of every account of the catalog and catches up. *)
Boot ==
  /\ mode = "down"
  /\ mode' = "starting"
  /\ pending' = IF WirelogViews THEN {journal[i].account : i \in applied} ELSE {}
  /\ BeginPass("catchUp")
  /\ UNCHANGED <<journal, catalogVars, bad, owed, holds, cursor, refreshHolds, retry,
                 interval, failing, spent>>

(* SIGTERM: the retry timer is destroyed, then requests drain. *)
Stop ==
  /\ mode = "serving" /\ Idle
  /\ spent.restarts < MaxRestarts
  /\ spent' = [spent EXCEPT !.restarts = @ + 1]
  /\ mode' = "stopped" /\ retry' = FALSE
  /\ UNCHANGED <<journal, catalogVars, bad, owed, holds, cursor, refreshHolds,
                 pending, interval, failing, pass>>

Exit ==
  /\ mode = "stopped" /\ Idle /\ ~owed
  /\ ProcessEnds
  /\ UNCHANGED <<journal, catalogVars, bad, spent>>

(* The process dies between two commits. *)
Crash ==
  /\ mode # "down"
  /\ spent.restarts < MaxRestarts
  /\ spent' = [spent EXCEPT !.restarts = @ + 1]
  /\ ProcessEnds
  /\ UNCHANGED <<journal, catalogVars, bad>>

(* The operator moves the catalog aside; the next start replays everything. *)
RebuildCatalog ==
  /\ mode = "down"
  /\ spent.restarts < MaxRestarts
  /\ spent' = [spent EXCEPT !.restarts = @ + 1]
  /\ checkpoint' = 0 /\ applied' = {} /\ refreshed' = [a \in Accounts |-> 0]
  /\ UNCHANGED <<journal, bad, owed, mode, serviceVars, pass>>

-----------------------------------------------------------------------------
ScanStep == \E j \in Indices : SkipRun(j) \/ HoldRun(j) \/ ApplyRun(j)
ExtractStep ==
  \E a \in Accounts : \/ \E i \in Indices : ExtractMessage(a, i)
                      \/ ExtractDone(a) \/ ExtractFail(a)
RefreshStep ==
  \E a \in Accounts, m \in Indices \cup {0} : RefreshAccount(a, m) \/ RefreshFail(a, m)
PassStep ==
  \/ ScanStep \/ EndFirstScan \/ ExtractStep \/ StartFollowUp
  \/ StartRefresh \/ RefreshStep \/ FinishClean \/ FinishFailed \/ AbortPass

Next ==
  \/ PassStep
  \/ PostIngest \/ CatchUp \/ RetryFires
  \/ \E a \in Accounts, k \in ClientKinds : ClientAppend(a, k)
  \/ \E i \in Indices : Break(i) \/ Repair(i)
  \/ Boot \/ Stop \/ Exit \/ Crash \/ RebuildCatalog

(* Nothing outside the daemon is fair.  Inside it, a pass that holds the   *)
(* lock goes on, a client's thread gets the lock for its hook, and the     *)
(* main loop runs an armed timer; the lock is handed over repeatedly, so   *)
(* the timer's fairness is strong.                                         *)
Fairness == WF_vars(PassStep) /\ SF_vars(PostIngest) /\ SF_vars(RetryFires)

Spec == Init /\ [][Next]_vars
FairSpec == Spec /\ Fairness

-----------------------------------------------------------------------------
(* Properties                                                              *)

PassType ==
  [kind : PassKinds \cup {"none"},
   phase : {"idle", "scan", "extract", "refresh"}, followUp : BOOLEAN,
   start : Nat, at : Nat \ {0}, end : Nat, fromCheckpoint : BOOLEAN,
   held : SUBSET Accounts, done : SUBSET Accounts, todo : SUBSET Accounts,
   extracted : SUBSET Nat]

Budgets == [aborts : Nat, failures : Nat, breaks : Nat, restarts : Nat]

TypeOK ==
  /\ journal \in Seq([account : Accounts, kind : Kinds, of : Nat])
  /\ checkpoint \in Nat /\ applied \in SUBSET Indices
  /\ refreshed \in [Accounts -> Nat]
  /\ bad \in SUBSET Indices /\ owed \in BOOLEAN
  /\ mode \in {"down", "starting", "serving", "stopped"}
  /\ holds \in SUBSET Accounts /\ cursor \in Nat
  /\ refreshHolds \in SUBSET Accounts /\ pending \in SUBSET Accounts
  /\ retry \in BOOLEAN /\ interval \in RetryInitial .. RetryMax
  /\ failing \in BOOLEAN /\ pass \in PassType
  /\ spent \in Budgets

(* The checkpoint never leads a record the catalog lacks, whatever was     *)
(* held, aborted or lost on the way: a restart replays from it.            *)
CheckpointCovered == 1 .. checkpoint \subseteq applied

(* An account receives its records in journal order, without a gap, even   *)
(* when it was held while other accounts went on.                          *)
AppliedInOrder ==
  \A i \in applied, j \in Indices :
    j < i /\ journal[j].account = journal[i].account => j \in applied

(* The scan cursor is present only while an account is held, and skips     *)
(* only records of held accounts.                                          *)
CursorSkipsOnlyHeld ==
  /\ cursor > 0 => holds # {}
  /\ \A i \in Indices : i <= cursor /\ i \notin applied
                         => journal[i].account \in holds

(* A client's record that is still missing when its request was answered   *)
(* is not forgotten: a retry is armed or running.                          *)
MissingIsRetried ==
  mode = "serving" /\ ~owed /\ Records(ClientKinds) \ applied # {}
    => retry \/ pass.kind \in {"retry", "postIngest"}

(* When materialization reports no failure and no request is under way,    *)
(* the checkpoint has passed every client's record: a restart re-reads     *)
(* none of them.                                                           *)
OkMeansCheckpointed ==
  mode = "serving" /\ Idle /\ ~owed /\ ~failing
    => Records(ClientKinds) \subseteq 1 .. checkpoint

(* Facts of a message are journaled at most once, though extraction works  *)
(* from the catalog and the records are applied by a later scan.           *)
ExtractedOnce ==
  \A f, g \in Records({"facts"}) : journal[f].of = journal[g].of => f = g

(* When materialization reports no failure and no request is under way,    *)
(* every account's views cover all its materialized records.               *)
ViewsFresh ==
  WirelogViews /\ mode = "serving" /\ Idle /\ ~owed /\ ~failing
    => \A a \in Accounts : IsLatest(a, refreshed[a])

(* Without aborted passes, no hold, failed extraction or failed refresh    *)
(* leaves stale views behind a service that reports success.               *)
ViewsFreshUnlessAborted == spent.aborts = 0 => ViewsFresh

(* Once nothing is broken any more, every account catches up and the       *)
(* service reports success.                                                *)
Recovers ==
  <>[](mode = "serving" /\ bad = {})
    => <>[](Records(ClientKinds) \subseteq applied /\ ~failing)

Promise == INSTANCE AccountReplay
ImplementsAccountReplay == Promise!Spec
=============================================================================
