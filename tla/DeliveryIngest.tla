--------------------------- MODULE DeliveryIngest ---------------------------
(***************************************************************************)
(* Ingesting deliveries: a request names a delivery identity and carries   *)
(* a message.  Under the journal's append mutex the daemon searches the    *)
(* journal for the identity, makes the message's object durable, and       *)
(* appends a MessageDelivered record; the MTA retries until it sees a      *)
(* success.                                                                *)
(*   src/wyrebox/ingestion/wyrebox-eml-ingestor.c                          *)
(*   src/wyrebox/object-store/wyrebox-local-object-store.c                 *)
(*   src/wyrebox/daemon/wyrebox-daemon-delivery-ingestion-service.c        *)
(* The payloads of the journal are the deliveries.                         *)
(***************************************************************************)
EXTENDS Journal

CONSTANTS
  Identities,  \* delivery and queue identifiers
  Objects,     \* message contents
  IdentityOf,  \* identity of each delivery
  ContentOf    \* content of each delivery

ASSUME DeliveryAssumption ==
  /\ IdentityOf \in [Values -> Identities]
  /\ ContentOf \in [Values -> Objects]

VARIABLES
  objects,  \* objects in the store
  acked     \* deliveries whose success was reported

ingestVars == <<objects, acked>>
vars == <<journalVars, objects, acked>>

ObjectStates == {"absent", "linked", "durable"}

IngestInit ==
  /\ Init
  /\ objects = [o \in Objects |-> "absent"] /\ acked = {}

-----------------------------------------------------------------------------
(* The search reads the journal from its start and stops at the first      *)
(* record of the identity; it fails if it has to read past the safe end.   *)
SameDelivery(d, e) == d = e  \* variant
SameIdentity(d, e) == IdentityOf[d] = IdentityOf[e]

IsFirstRecord(d, i) ==
  /\ i \in 1 .. SafeEnd /\ SameIdentity(segment[i].value, d)
  /\ \A n \in 1 .. (i - 1) : ~SameIdentity(segment[n].value, d)

(* A retry of a recorded delivery succeeds at once; the same identity with *)
(* another message is refused, which changes nothing.                      *)
AnswerRetry(p, d) ==
  /\ proc[p].pc = "ready"
  /\ \E i \in 1 .. Len(segment) : IsFirstRecord(d, i) /\ segment[i].value = d
  /\ acked' = acked \cup {d}
  /\ UNCHANGED <<journalVars, objects>>

Absent(d) ==
  /\ ~UnsafeSuffix
  /\ \A i \in 1 .. SafeEnd : ~SameIdentity(segment[i].value, d)

BeginDelivery(p, d) ==
  /\ Absent(d)
  /\ LockAppend(p, d)
  /\ UNCHANGED ingestVars

(* put_bytes: the object is linked from a synced temporary file, then its  *)
(* directory is synced; an object that is there is verified and its        *)
(* directory synced again.                                                 *)
Content(p) == ContentOf[proc[p].value]

LinkObject(p) ==
  /\ proc[p].pc = "locked" /\ objects[Content(p)] = "absent"
  /\ objects' = [objects EXCEPT ![Content(p)] = "linked"]
  /\ UNCHANGED <<journalVars, acked>>

SyncObject(p) ==
  /\ proc[p].pc = "locked" /\ objects[Content(p)] = "linked"
  /\ objects' = [objects EXCEPT ![Content(p)] = "durable"]
  /\ UNCHANGED <<journalVars, acked>>

Stored(p) == objects[Content(p)] = "durable"

RecordDelivery(p) ==
  /\ Stored(p)
  /\ BeginRecord(p)
  /\ UNCHANGED ingestVars

FinishDelivery(p) ==
  /\ SyncRecord(p)
  /\ acked' = acked \cup {proc[p].value}
  /\ UNCHANGED objects

(* A link whose directory was not synced may be gone. *)
LosePower ==
  /\ PowerLoss
  /\ objects' \in [Objects -> ObjectStates]
  /\ \A o \in Objects :
       IF objects[o] = "linked" THEN objects'[o] # "linked"
       ELSE objects'[o] = objects[o]
  /\ UNCHANGED acked

-----------------------------------------------------------------------------
IngestNext ==
  \/ \E p \in Processes :
       \/ \E d \in Values : AnswerRetry(p, d) \/ BeginDelivery(p, d)
       \/ LinkObject(p) \/ SyncObject(p) \/ RecordDelivery(p) \/ FinishDelivery(p)
       \/ /\ \/ StartupStep(p) \/ Release(p) \/ WriteOn(p) \/ AppendFails(p)
             \/ Close(p) \/ Kill(p)
             \/ \E n \in 1 .. Len(segment) : SaveCheckpoint(p, n)
          /\ UNCHANGED ingestVars
  \/ LosePower

(* As for the journal, only startup is assumed to go on.                   *)
IngestSpec ==
  /\ IngestInit /\ [][IngestNext]_vars
  /\ \A p \in Processes : WF_vars(StartupStep(p) /\ UNCHANGED ingestVars)

-----------------------------------------------------------------------------
(* Properties                                                              *)

(* However often the MTA retries and whenever the daemon dies, a delivery  *)
(* identity has one record.                                                *)
OneRecordPerIdentity ==
  \A i, j \in 1 .. SafeEnd :
    IdentityOf[segment[i].value] = IdentityOf[segment[j].value] => i = j

(* A delivery the MTA was told succeeded is in the journal. *)
AckedIsRecorded ==
  \A d \in acked : \E i \in 1 .. SafeEnd : segment[i].value = d

(* Neither crashes of the daemon and failing disks, nor power losses, take *)
(* it away: it needs both.                                                 *)
AckedSurvivesOneKind ==
  spent.losses = 0 \/ (spent.kills = 0 /\ spent.faults = 0) => AckedIsRecorded
=============================================================================
