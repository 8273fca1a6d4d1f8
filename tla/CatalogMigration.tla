-------------------------- MODULE CatalogMigration --------------------------
(***************************************************************************)
(* The catalog's schema: the metadata store of one DuckDB file (schema     *)
(* version, materialization checkpoint, manifests) and the migration that  *)
(* every start of wyreboxd runs before it opens the catalog.  The file is  *)
(* created by this release, or was left by an earlier one at any version;  *)
(* each migration step commits a transaction of its own, and the version   *)
(* and the checkpoint are saved only after the last one, so a crash leaves *)
(* the tables of one version under the number of another.                  *)
(*                                                                         *)
(* wyrebox/schema/*, the recovery decision and the admin's lag report.     *)
(***************************************************************************)
EXTENDS Naturals, FiniteSets

CONSTANTS MaxRecords,  \* journal records (bound)
          MaxCrashes,  \* interrupted starts (bound)
          RunIds,      \* ids of materialization runs with a manifest
          Absent       \* a version or a checkpoint that the store does not hold

ASSUME RecordsAssumption == MaxRecords \in Nat /\ Absent \notin Nat

Current == 12

VARIABLES
  tables,     \* the layout of every table in the file
  rows,       \* journal record -> the header layout its row was written for
  meta,       \* the saved schema version and checkpoint
  manifests,  \* run -> its manifest, for the runs that have one
  checksums,  \* the runs with an artifact checksum
  journal,    \* records, those that carry header spans, unsafe suffix
  startup,    \* the starting daemon: where it is and what it has in memory
  crashes,    \* bound
  interrupted \* history: a start died between two steps of this file
catalogVars == <<tables, rows, meta, manifests, checksums, journal, startup, crashes, interrupted>>

-----------------------------------------------------------------------------
(* Tables.  "headers" is the layout of message_headers, 0 for none;        *)
(* "items" says that mailbox_memberships has its tombstone columns.        *)

NoTables == [base |-> FALSE, attributes |-> FALSE, headers |-> 0, views |-> FALSE,
             reachability |-> FALSE, extractions |-> FALSE, refreshState |-> FALSE,
             items |-> FALSE]

HeadersAt(v) == CASE v < 3 -> 0 [] v \in 3 .. 5 -> 3 [] v = 6 -> 6
                  [] v \in 7 .. 8 -> 7 [] v >= 9 -> 9

(* What a release whose current version was v left behind.                 *)
TablesOf(v) ==
  [base |-> v >= 1, attributes |-> v >= 2, headers |-> HeadersAt(v),
   views |-> v >= 4, reachability |-> v >= 8, extractions |-> v >= 10,
   refreshState |-> v >= 11, items |-> v >= 12]

(* CREATE TABLE IF NOT EXISTS: a table that exists keeps its columns.      *)
Bootstrapped(t) == [t EXCEPT !.base = TRUE, !.views = TRUE,
                             !.items = IF t.base THEN t.items ELSE TRUE]

WithHeadersV3(t) == [t EXCEPT !.headers = IF t.headers = 0 THEN 3 ELSE t.headers]

(* Each step: the tables after it, and whether the columns it checks are   *)
(* the ones it expects.                                                    *)
StepTables(s, t) ==
  CASE s = 0  -> Bootstrapped(t)
    [] s = 1  -> [t EXCEPT !.attributes = TRUE]
    [] s = 2  -> WithHeadersV3(t)
    [] s = 3  -> [t EXCEPT !.views = TRUE]
    [] s = 4  -> t
    [] s = 5  -> [t EXCEPT !.headers = IF @ = 3 THEN 6 ELSE @]
    [] s = 6  -> [t EXCEPT !.headers = 7]
    [] s = 7  -> [t EXCEPT !.reachability = TRUE]
    [] s = 8  -> [t EXCEPT !.headers = 9]
    [] s = 9  -> [t EXCEPT !.extractions = TRUE]
    [] s = 10 -> [t EXCEPT !.refreshState = TRUE]
    [] s = 11 -> [t EXCEPT !.items = TRUE, !.reachability = TRUE]

SenderDomainFits(t) == t.headers \in {3, 6, 7}
DateFits(t)         == t.headers \in {6, 7}
SpansFitOld(t)      == t.headers = 9
SpansFit(t)         == t.headers \in {7, 9}

StepFits(s, t) ==
  CASE s = 2  -> WithHeadersV3(t).headers = 3
    [] s = 4  -> t.views
    [] s = 5  -> SenderDomainFits(t)
    [] s = 6  -> DateFits(t)
    [] s = 8  -> SpansFit(t)
    [] OTHER  -> TRUE

(* The table of steps: the ones that rewrite what the journal produced     *)
(* need a checkpoint and forget it; the last ones only add tables.         *)
RequiresCheckpoint(s) == s \in {0, 4, 5, 6, 8}
Preserves(s) == s \in {7, 9, 10, 11}

-----------------------------------------------------------------------------
(* The store.                                                              *)

NoMeta == [version |-> Absent, cp |-> Absent]

Records == 1 .. journal.n

(* seek_after_checkpoint: a checkpoint names a record of the journal.      *)
CheckpointInJournal(cp) == cp = Absent \/ cp \in Records

(* A row is written once: replaying its record over a row that a migration *)
(* widened does not fill it, and does not match if the record has spans.   *)
RowMatches(r) == rows[r] \in {0, 9} \/ r \notin journal.spanned

Down == [at |-> "down"]

InitialRows(v, k) == [r \in 1 .. MaxRecords |-> IF r <= k THEN HeadersAt(v) ELSE 0]

CatalogInit ==
  /\ \E v \in 1 .. Current, k \in 0 .. MaxRecords - 1 :
       \/ /\ tables = NoTables /\ meta = NoMeta
          /\ rows = InitialRows(0, 0)
       \/ \E cp \in {Absent} \cup 1 .. k :
            /\ tables = TablesOf(v)
            /\ rows = InitialRows(v, IF cp = Absent THEN 0 ELSE cp)
            /\ meta = [version |-> v, cp |-> cp]
  /\ journal \in [n : 0 .. MaxRecords - 1, torn : BOOLEAN,
                  spanned : SUBSET (1 .. MaxRecords)]
  /\ CheckpointInJournal(meta.cp)
  /\ manifests = [r \in {} |-> "none"] /\ checksums = {}
  /\ startup = Down /\ crashes = 0 /\ interrupted = FALSE

-----------------------------------------------------------------------------
(* A start.  The checkpoint that a step needs is looked up once, before    *)
(* the first step; a file without a version counts as legacy version 0,    *)
(* with the precondition and the checkpoint taken as present.              *)

Refused(why) == [at |-> "refused", why |-> why]

Source == IF meta.version = Absent THEN 0 ELSE meta.version

Prepared(asserted) ==
  [at |-> "migrating", cursor |-> Source, cp |-> meta.cp,
   asserted |-> asserted \/ meta.version = Absent,
   available |-> meta.cp # Absent \/ meta.version = Absent]

(* checkpoint_precondition_satisfied is FALSE for wyreboxd and TRUE for an *)
(* offline caller; either may find a journal it cannot trust.              *)
Start(asserted) ==
  /\ startup.at = "down"
  /\ startup' = IF journal.torn THEN Refused("journal")
               ELSE IF ~CheckpointInJournal(meta.cp) THEN Refused("checkpoint")
               ELSE Prepared(asserted)
  /\ UNCHANGED <<tables, rows, meta, manifests, checksums, journal, crashes, interrupted>>

MigrationStep ==
  /\ startup.at = "migrating" /\ startup.cursor < Current
  /\ LET s == startup.cursor IN
       IF RequiresCheckpoint(s) /\ ~startup.asserted
       THEN startup' = Refused("precondition") /\ UNCHANGED tables
       ELSE IF RequiresCheckpoint(s) /\ ~startup.available
       THEN startup' = Refused("no checkpoint") /\ UNCHANGED tables
       ELSE IF ~StepFits(s, tables)
       THEN startup' = Refused("incompatible") /\ UNCHANGED tables
       ELSE /\ tables' = StepTables(s, tables)
            /\ startup' = [startup EXCEPT !.cursor = s + 1,
                                        !.cp = IF Preserves(s) THEN @ ELSE Absent]
  /\ UNCHANGED <<rows, meta, manifests, checksums, journal, crashes, interrupted>>

(* One transaction replaces version and checkpoint, or, when nothing       *)
(* differs, the store is not written.                                      *)
SavedMeta == [version |-> Current, cp |-> startup.cp]

Save ==
  /\ startup.at = "migrating" /\ startup.cursor = Current
  /\ meta' = SavedMeta
  /\ startup' = [at |-> "open"]
  /\ UNCHANGED <<tables, rows, manifests, checksums, journal, crashes, interrupted>>

(* Delivery: a record, then the catch-up that materializes every record    *)
(* after the checkpoint and stops before the first it cannot apply.        *)
Deliver ==
  /\ startup.at = "open" /\ journal.n < MaxRecords
  /\ journal' = [journal EXCEPT !.n = @ + 1]
  /\ UNCHANGED <<tables, rows, meta, manifests, checksums, startup, crashes, interrupted>>

After(cp) == IF cp = Absent THEN 0 ELSE cp

CatchUp ==
  /\ startup.at = "open"
  /\ LET r == After(meta.cp) + 1 IN
       /\ r \in Records /\ RowMatches(r)
       /\ rows' = [rows EXCEPT ![r] = tables.headers]
       /\ meta' = [meta EXCEPT !.cp = r]
  /\ UNCHANGED <<tables, manifests, checksums, journal, startup, crashes, interrupted>>

Stop ==
  /\ startup.at \in {"open", "refused"}
  /\ startup' = Down
  /\ UNCHANGED <<tables, rows, meta, manifests, checksums, journal, crashes, interrupted>>

Crash ==
  /\ startup.at \in {"migrating", "open"} /\ crashes < MaxCrashes
  /\ startup' = Down
  /\ crashes' = crashes + 1
  /\ interrupted' = (interrupted \/ (startup.at = "migrating" /\ startup.cursor > Source))
  /\ UNCHANGED <<tables, rows, meta, manifests, checksums, journal>>

-----------------------------------------------------------------------------
(* Recovery.  The decider keeps a catalog whose checkpoint and version are *)
(* current and whose journal can be read; a caller removes any other.      *)
DecisionByCheckpoint ==
  IF meta.cp = Absent THEN "rebuild"
  ELSE IF journal.torn \/ ~CheckpointInJournal(meta.cp) THEN "error" ELSE "use"

Decision ==
  IF meta.cp = Absent THEN "rebuild"
  ELSE IF journal.torn \/ ~CheckpointInJournal(meta.cp) THEN "error"
  ELSE IF meta.version = Current THEN "use" ELSE "rebuild"

Rebuild ==
  /\ startup.at = "down" /\ Decision = "rebuild"
  /\ tables' = NoTables /\ meta' = NoMeta
  /\ rows' = InitialRows(0, 0)
  /\ manifests' = [r \in {} |-> "none"] /\ checksums' = {}
  /\ interrupted' = FALSE
  /\ UNCHANGED <<journal, startup, crashes>>

-----------------------------------------------------------------------------
(* Manifests: written once per run; a checksum belongs to a completed one. *)

Manifest(id) == id \in DOMAIN manifests

ManifestFits(m) ==
  /\ m.from <= m.to
  /\ m.status \in {"completed", "failed"}

SaveManifest(id) ==
  /\ ~Manifest(id)
  /\ \E m \in [from : {1}, to : Records, status : {"completed", "failed"}] :
       /\ ManifestFits(m)
       /\ manifests' = [x \in DOMAIN manifests \cup {id} |->
                          IF x = id THEN m ELSE manifests[x]]
  /\ UNCHANGED <<tables, rows, meta, checksums, journal, startup, crashes, interrupted>>

SaveChecksum(id) ==
  /\ Manifest(id) /\ manifests[id].status = "completed" /\ id \notin checksums
  /\ checksums' = checksums \cup {id}
  /\ UNCHANGED <<tables, rows, meta, manifests, journal, startup, crashes, interrupted>>

-----------------------------------------------------------------------------
CatalogNext ==
  \/ \E asserted \in BOOLEAN : Start(asserted)
  \/ MigrationStep \/ Save \/ Deliver \/ CatchUp \/ Stop \/ Crash \/ Rebuild
  \/ \E id \in RunIds : SaveManifest(id) \/ SaveChecksum(id)

CatalogSpec == CatalogInit /\ [][CatalogNext]_catalogVars

-----------------------------------------------------------------------------

(* A start that is refused because tables do not fit meets a file that an  *)
(* interrupted start had left ahead of its version: no catalog is refused  *)
(* for what an earlier release made of it.                                 *)
RefusedOnlyAfterInterruption ==
  (startup.at = "refused" /\ startup.why = "incompatible") => interrupted

(* A decision to use the catalog as it is meets tables that are complete   *)
(* and rows that need no replay below the checkpoint.                      *)
UsedAsIsIsComplete ==
  Decision = "use" =>
     /\ tables = TablesOf(Current)
     /\ \A r \in 1 .. meta.cp : rows[r] = tables.headers

=============================================================================
