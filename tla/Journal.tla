------------------------------ MODULE Journal ------------------------------
(***************************************************************************)
(* The mutation journal: one append-only segment file, one writer process  *)
(* at a time (flock), a three-write append ended by fsync, a reader that   *)
(* stops at the first record that is not valid, and the startup sequence   *)
(* of wyreboxd that truncates a torn suffix before it opens the writer.    *)
(*   src/wyrebox/journal/wyrebox-journal-writer.c, wyrebox-journal-reader.c*)
(*   src/wyrebox/daemon/wyrebox-daemon-runtime.c, wyreboxd-main.c          *)
(* Two processes may be started on the same storage.  A process may be     *)
(* killed between any two system calls, which keeps the page cache, or the *)
(* machine may lose power, which loses what no fsync covered.  Offsets are *)
(* counted in records; record n starts where record n - 1 ends.            *)
(***************************************************************************)
EXTENDS Integers, Sequences, FiniteSets

CONSTANTS
  Processes,       \* wyreboxd processes
  Values,          \* payloads
  MaxRecords,      \* bound: records in the segment
  MaxKills,        \* bound: processes killed
  MaxPowerLosses,  \* bound: power losses
  MaxFaults        \* bound: failed writes and fsyncs

ASSUME JournalBounds ==
  /\ MaxRecords \in Nat /\ MaxKills \in Nat
  /\ MaxPowerLosses \in Nat /\ MaxFaults \in Nat

ASSUME ValuesAssumption == Values # {}

VARIABLES
  segment,     \* the file: records, the last one possibly partial
  synced,      \* how many records fsync covered
  lock,        \* holders of the exclusive flock on the segment
  proc,        \* processes
  checkpoint,  \* last record a consumer has durably applied
  returned,    \* sequence numbers append returned to callers
  spent        \* bounds already used

journalVars == <<segment, synced, lock, proc, checkpoint, returned, spent>>

Sizes == {"header", "body", "whole"}
Entries == [sequence : Nat, value : Values, size : Sizes]

StartupPcs == {"validate", "recover", "truncate", "revalidate", "open", "prepare"}
AppendPcs == {"locked", "header", "body", "written"}
Running(p) == proc[p].pc \in AppendPcs \cup {"ready"}

Down ==
  [pc |-> "down", next |-> 1, durableEnd |-> 0, failed |-> FALSE,
   value |-> CHOOSE v \in Values : TRUE, prefix |-> << >>]

Init ==
  /\ segment = << >> /\ synced = 0 /\ lock = {}
  /\ proc = [p \in Processes |-> Down]
  /\ checkpoint = 0 /\ returned = {}
  /\ spent = [kills |-> 0, losses |-> 0, faults |-> 0]

-----------------------------------------------------------------------------
(* The reader                                                              *)

Whole(n) == segment[n].size = "whole"
Valid(n) == Whole(n) /\ segment[n].sequence = n

(* The records a reader returns before it stops. *)
SafeEnd ==
  CHOOSE n \in 0 .. Len(segment) :
    /\ \A i \in 1 .. n : Valid(i)
    /\ n < Len(segment) => ~Valid(n + 1)

UnsafeSuffix == SafeEnd < Len(segment)

(* The reason is "partial header" or "partial record": what follows the    *)
(* safe prefix is the beginning of the record with the next sequence       *)
(* number, and the file ends in it.                                        *)
PartialRecordOnly ==  \* variant
  /\ Len(segment) = SafeEnd + 1
  /\ segment[Len(segment)].size = "body"
  /\ segment[Len(segment)].sequence = Len(segment)
PartialSuffix ==
  /\ Len(segment) = SafeEnd + 1
  /\ segment[Len(segment)].size # "whole"
  /\ segment[Len(segment)].sequence = Len(segment)

(* Only a partial suffix after a committed record may be truncated. *)
Recoverable == PartialSuffix /\ SafeEnd > 0

-----------------------------------------------------------------------------
(* Startup                                                                 *)

Goto(p, pc) == proc' = [proc EXCEPT ![p].pc = pc]
Exits(p) == proc' = [proc EXCEPT ![p] = Down] /\ lock' = lock \ {p}

Start(p) ==
  /\ proc[p].pc = "down"
  /\ Goto(p, "validate")
  /\ UNCHANGED <<segment, synced, lock, checkpoint, returned, spent>>

(* Storage is validated before and after recovery. *)
Validate(p) ==
  /\ proc[p].pc \in {"validate", "revalidate"}
  /\ \/ ~UnsafeSuffix /\ Goto(p, "open") /\ UNCHANGED lock
     \/ UnsafeSuffix /\ proc[p].pc = "validate" /\ Goto(p, "recover") /\ UNCHANGED lock
     \/ UnsafeSuffix /\ proc[p].pc = "revalidate" /\ Exits(p)
  /\ UNCHANGED <<segment, synced, checkpoint, returned, spent>>

(* The recovery scan that runs before the lock is taken. *)
ScanSuffix(p) ==
  /\ proc[p].pc = "recover"
  /\ \/ /\ Recoverable
        /\ proc' = [proc EXCEPT ![p].pc = "truncate", ![p].prefix = segment]
        /\ UNCHANGED lock
     \/ ~Recoverable /\ Exits(p)
  /\ UNCHANGED <<segment, synced, checkpoint, returned, spent>>

(* Under the lock the segment must still be what the scan saw. *)
StillSameUnchecked(p) == lock = {}  \* variant
StillSame(p) == lock = {} /\ proc[p].prefix = segment /\ Recoverable

(* ftruncate to the safe end, fsync. *)
TruncateSuffix(p) ==
  /\ proc[p].pc = "truncate"
  /\ \/ /\ StillSame(p)
        /\ segment' = SubSeq(segment, 1, Len(proc[p].prefix) - 1)
        /\ synced' = Len(proc[p].prefix) - 1
        /\ proc' = [proc EXCEPT ![p].pc = "revalidate", ![p].prefix = << >>]
        /\ UNCHANGED lock
     \/ ~StillSame(p) /\ Exits(p) /\ UNCHANGED <<segment, synced>>
  /\ UNCHANGED <<checkpoint, returned, spent>>

OpenSequence == SafeEnd + 1

OpenWriter(p) ==
  /\ proc[p].pc = "open"
  /\ \/ /\ lock = {} /\ ~UnsafeSuffix
        /\ lock' = {p}
        /\ proc' = [proc EXCEPT ![p].pc = "prepare", ![p].next = OpenSequence,
                                ![p].durableEnd = Len(segment)]
     \/ (lock # {} \/ UnsafeSuffix) /\ Exits(p)
  /\ UNCHANGED <<segment, synced, checkpoint, returned, spent>>

(* The catalog is opened only when its checkpoint names a record. *)
PrepareCatalog(p) ==
  /\ proc[p].pc = "prepare"
  /\ \/ checkpoint <= SafeEnd /\ ~UnsafeSuffix /\ Goto(p, "ready") /\ UNCHANGED lock
     \/ (checkpoint > SafeEnd \/ UnsafeSuffix) /\ Exits(p)
  /\ UNCHANGED <<segment, synced, checkpoint, returned, spent>>

-----------------------------------------------------------------------------
(* Appending, under the process's append mutex                             *)

(* A guarded append holds the mutex while its callback looks at the        *)
(* journal and prepares the payload.                                       *)
LockAppend(p, v) ==
  /\ proc[p].pc = "ready"
  /\ proc' = [proc EXCEPT ![p].pc = "locked", ![p].value = v]
  /\ UNCHANGED <<segment, synced, lock, checkpoint, returned, spent>>

(* The callback failed, or the writer has failed before. *)
Release(p) ==
  /\ proc[p].pc = "locked"
  /\ Goto(p, "ready")
  /\ UNCHANGED <<segment, synced, lock, checkpoint, returned, spent>>

MayAppend(p) == ~proc[p].failed

BeginRecord(p) ==
  /\ proc[p].pc = "locked" /\ MayAppend(p)
  /\ Len(segment) < MaxRecords
  /\ segment' = Append(segment, [sequence |-> proc[p].next, value |-> proc[p].value,
                                 size |-> "header"])
  /\ Goto(p, "header")
  /\ UNCHANGED <<synced, lock, checkpoint, returned, spent>>

WriteOn(p) ==
  /\ \/ proc[p].pc = "header" /\ Goto(p, "body")
        /\ segment' = [segment EXCEPT ![Len(segment)].size = "body"]
     \/ proc[p].pc = "body" /\ Goto(p, "written")
        /\ segment' = [segment EXCEPT ![Len(segment)].size = "whole"]
  /\ UNCHANGED <<synced, lock, checkpoint, returned, spent>>

(* fsync succeeded: the append returns. *)
ReturnBeforeSync(p) ==  \* variant
  /\ proc[p].pc = "written"
  /\ UNCHANGED synced
  /\ returned' = returned \cup {proc[p].next}
  /\ proc' = [proc EXCEPT ![p].pc = "ready", ![p].next = @ + 1,
                          ![p].durableEnd = Len(segment)]
  /\ UNCHANGED <<segment, lock, checkpoint, spent>>
SyncRecord(p) ==
  /\ proc[p].pc = "written"
  /\ synced' = Len(segment)
  /\ returned' = returned \cup {proc[p].next}
  /\ proc' = [proc EXCEPT ![p].pc = "ready", ![p].next = @ + 1,
                          ![p].durableEnd = Len(segment)]
  /\ UNCHANGED <<segment, lock, checkpoint, spent>>

(* A write or fsync failed: the writer refuses appends from now on. *)
AppendFails(p) ==
  /\ proc[p].pc \in {"header", "body", "written"}
  /\ spent.faults < MaxFaults
  /\ spent' = [spent EXCEPT !.faults = @ + 1]
  /\ proc' = [proc EXCEPT ![p].pc = "ready", ![p].failed = TRUE]
  /\ UNCHANGED <<segment, synced, lock, checkpoint, returned>>

ReadLimit(p) == proc[p].durableEnd

SaveCheckpoint(p, n) ==
  /\ Running(p)
  /\ n \in (checkpoint + 1) .. ReadLimit(p)
  /\ checkpoint' = n
  /\ UNCHANGED <<segment, synced, lock, proc, returned, spent>>

-----------------------------------------------------------------------------
(* Ends of a process                                                       *)

Close(p) ==
  /\ proc[p].pc = "ready"
  /\ Exits(p)
  /\ UNCHANGED <<segment, synced, checkpoint, returned, spent>>

Kill(p) ==
  /\ proc[p].pc # "down"
  /\ spent.kills < MaxKills
  /\ spent' = [spent EXCEPT !.kills = @ + 1]
  /\ Exits(p)
  /\ UNCHANGED <<segment, synced, checkpoint, returned>>

(* Of the records no fsync covered a prefix survives, the last of them     *)
(* possibly cut short; what is left in the file is on stable storage.      *)
Cuts(size) ==
  {"header"} \cup (IF size = "header" THEN {} ELSE {"body"})

PowerLoss ==
  /\ spent.losses < MaxPowerLosses
  /\ spent' = [spent EXCEPT !.losses = @ + 1]
  /\ \E n \in 0 .. Len(segment) :
       \/ /\ n >= synced /\ synced' = n
          /\ segment' = SubSeq(segment, 1, n) /\ (n > 0 => Whole(n))
       \/ /\ n > synced /\ synced' = n - 1
          /\ \E size \in Cuts(segment[n].size) :
               segment' = [SubSeq(segment, 1, n) EXCEPT ![n].size = size]
  /\ proc' = [p \in Processes |-> Down] /\ lock' = {}
  /\ UNCHANGED <<checkpoint, returned>>

-----------------------------------------------------------------------------
StartupStep(p) ==
  \/ Start(p) \/ Validate(p) \/ ScanSuffix(p) \/ TruncateSuffix(p)
  \/ OpenWriter(p) \/ PrepareCatalog(p)

-----------------------------------------------------------------------------
(* Properties                                                              *)

ProcType ==
  [pc : StartupPcs \cup AppendPcs \cup {"down", "ready"}, next : Nat \ {0},
   durableEnd : Nat, failed : BOOLEAN, value : Values, prefix : Seq(Entries)]

TypeOK ==
  /\ segment \in Seq(Entries) /\ synced \in 0 .. Len(segment)
  /\ lock \in SUBSET Processes /\ proc \in [Processes -> ProcType]
  /\ checkpoint \in Nat /\ returned \in SUBSET (Nat \ {0})
  /\ spent \in [kills : Nat, losses : Nat, faults : Nat]

(* What append returned is on stable storage, at the position returned,    *)
(* and nothing takes it away: not a crash, not a recovery that races a     *)
(* live writer, not a writer that reopens the segment.                     *)
Log == INSTANCE DurableLog WITH committed <- SubSeq(segment, 1, synced)
ImplementsDurableLog == Log!Spec

(* Power losses alone never take a record from the journal that the        *)
(* catalog holds: what is applied was fsynced by the process that wrote it.*)
(* (A record left unsynced by a killed process is applied by the next one.) *)
Ahead == checkpoint > SafeEnd
CheckpointInJournal == spent.kills = 0 /\ spent.faults = 0 => ~Ahead

(* Once a record is committed, no crash keeps the daemon from starting:    *)
(* torn suffixes are recovered without an operator.  Only a catalog that   *)
(* is ahead of the journal, and has to be rebuilt, does.                   *)
Restarts == []<>(SafeEnd = 0 \/ Ahead \/ \E p \in Processes : Running(p))
=============================================================================
