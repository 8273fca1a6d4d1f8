--------------------------- MODULE StorageMarkers ---------------------------
(***************************************************************************)
(* The paired storage markers (daemon/wyrebox-daemon-storage.c): the       *)
(* marker of the journal root and the marker of the object store root      *)
(* carry one storage ID, so that a volume that is not mounted, or comes    *)
(* from another installation, is noticed before anything is written.       *)
(*                                                                         *)
(* A root is a path: what it shows is the volume when that is mounted and  *)
(* the mount point below it when not.  wyreboxd --initialize-storage reads *)
(* the markers and the data of both roots, then writes the missing         *)
(* markers, the journal's first; it may be killed between two steps, and   *)
(* runs of it may overlap.  wyreboxd itself compares the markers once, at  *)
(* startup, and then stores objects and appends records.                   *)
(***************************************************************************)
EXTENDS Naturals, FiniteSets

CONSTANTS Runs,        \* invocations of wyreboxd --initialize-storage
          Ids,         \* storage IDs the UUIDv7 generator draws from
          Deliveries,  \* deliveries the daemon accepts
          Upgraded,    \* deliveries that may have been stored before markers existed
          Operators,   \* habits of operators: how many runs they have under
                       \* way at once, when they check the mounts before a run
          MaxMounts    \* bound on mounts and unmounts

NoId == "no id"
Roles == {"journal", "object"}
Places == {"volume", "mountpoint"}
Cares == {"always", "until used", "never"}

ASSUME StorageAssumption ==
    /\ NoId \notin Ids
    /\ Upgraded \subseteq Deliveries
    /\ Operators \subseteq [overlap : Nat, care : Cares] /\ MaxMounts \in Nat

VARIABLES
    mounted,  \* role -> the place its root shows
    marker,   \* role -> place -> the storage ID of the marker there
    held,     \* role -> place -> the deliveries whose record or object is there
    run,      \* --initialize-storage run -> its step, what it read, its ID
    daemon,   \* wyreboxd: its state and the journal marker it read
    mounts,   \* mounts and unmounts so far, bounded by MaxMounts
    used,     \* storage IDs generated so far
    operator  \* the operator, who never changes

vars == <<mounted, marker, held, run, daemon, mounts, used, operator>>

Steps == {"idle", "object marker", "journal data", "object data", "write journal",
          "write object", "done", "refused"}
Idle == [pc |-> "idle", journal |-> NoId, data |-> FALSE, id |-> NoId]

TypeOK ==
    /\ mounted \in [Roles -> Places]
    /\ marker \in [Roles -> [Places -> Ids \union {NoId}]]
    /\ held \in [Roles -> [Places -> SUBSET Deliveries]]
    /\ run \in [Runs -> [pc : Steps, journal : Ids \union {NoId}, data : BOOLEAN,
                         id : Ids \union {NoId}]]
    /\ daemon \in [state : {"down", "checking", "up"}, journal : Ids \union {NoId}]
    /\ mounts \in 0..MaxMounts /\ used \subseteq Ids
    /\ operator \in Operators
    /\ \A i \in Runs : run[i].pc \in {"write journal", "write object"} => run[i].id \in used
    /\ \A r \in Roles, p \in Places : marker[r][p] \in used \union {NoId}

Init ==
    /\ mounted = [r \in Roles |-> "volume"]
    /\ marker = [r \in Roles |-> [p \in Places |-> NoId]]
    /\ \E mail \in {{}, Upgraded} :
          held = [r \in Roles |-> [p \in Places |-> IF p = "volume" THEN mail ELSE {}]]
    /\ run = [i \in Runs |-> Idle]
    /\ daemon = [state |-> "down", journal |-> NoId]
    /\ mounts = 0 /\ used = {}
    /\ operator \in Operators

Marker(r) == marker[r][mounted[r]]
HoldsData(r) == held[r][mounted[r]] # {}

-----------------------------------------------------------------------------
(* wyreboxd --initialize-storage *)

Working == {i \in Runs : run[i].pc \notin {"idle", "done", "refused"}}
Step(i, from, to) == run[i].pc = from /\ run' = [run EXCEPT ![i].pc = to]

\* The operator's check of the mounts, the only guard of an initialization.
Checked ==
    \/ operator.care = "never"
    \/ \A r \in Roles : mounted[r] = "volume"
    \/ /\ operator.care = "until used"
       /\ \A r \in Roles : marker[r]["volume"] # NoId /\ held[r]["volume"] # {}

\* Reads the journal marker.
BeginRun(i) ==
    /\ run[i].pc = "idle" /\ Cardinality(Working) < operator.overlap /\ Checked
    /\ run' = [run EXCEPT ![i].pc = "object marker", ![i].journal = Marker("journal")]
    /\ UNCHANGED <<mounted, marker, held, daemon, mounts, used, operator>>

FoundBeside(i) == IF run[i].journal = NoId THEN NoId ELSE Marker("object") \* variant
Found(i) == Marker("object")

\* Reads the object marker: two markers are compared and left alone, a lone
\* object marker is refused.
ReadObjectMarker(i) ==
    /\ \/ Found(i) # NoId /\ Step(i, "object marker",
             IF Found(i) = run[i].journal THEN "done" ELSE "refused")
       \/ Found(i) = NoId /\ Step(i, "object marker", "journal data")
    /\ UNCHANGED <<mounted, marker, held, daemon, mounts, used, operator>>

ReadJournalData(i) ==
    /\ run[i].pc = "journal data"
    /\ run' = [run EXCEPT ![i].pc = "object data", ![i].data = HoldsData("journal")]
    /\ UNCHANGED <<mounted, marker, held, daemon, mounts, used, operator>>

\* One empty root beside one with data: that volume is probably not mounted.
LooksComplete(i) == run[i].data = HoldsData("object")

NewIdAlways(i) == Ids \ used \* variant

\* The ID of a lone journal marker is kept, else one is generated.
NewId(i) == IF run[i].journal # NoId THEN {run[i].journal} ELSE Ids \ used

ReadObjectData(i) ==
    /\ \/ ~LooksComplete(i) /\ Step(i, "object data", "refused") /\ UNCHANGED used
       \/ /\ LooksComplete(i) /\ run[i].pc = "object data"
          /\ \E id \in NewId(i) :
                /\ run' = [run EXCEPT ![i].pc = "write journal", ![i].id = id]
                /\ used' = used \union {id}
    /\ UNCHANGED <<mounted, marker, held, daemon, mounts, operator>>

WriteMarker(r, i) == marker' = [marker EXCEPT ![r][mounted[r]] = run[i].id]
WrittenFirstObject == "object" \* variant
WrittenFirst == "journal"

\* Only a marker that was missing when the run read it is written.
WriteFirst(i) ==
    /\ Step(i, "write journal", "write object")
    /\ IF run[i].journal = NoId THEN WriteMarker(WrittenFirst, i) ELSE UNCHANGED marker
    /\ UNCHANGED <<mounted, held, daemon, mounts, used, operator>>

WriteSecond(i) ==
    /\ Step(i, "write object", "done")
    /\ WriteMarker(CHOOSE r \in Roles : r # WrittenFirst, i)
    /\ UNCHANGED <<mounted, held, daemon, mounts, used, operator>>

\* A run is killed, or one of its writes fails.
Interrupted(i) ==
    /\ i \in Working
    /\ run' = [run EXCEPT ![i] = [Idle EXCEPT !.pc = "refused"]]
    /\ UNCHANGED <<mounted, marker, held, daemon, mounts, used, operator>>

-----------------------------------------------------------------------------
(* wyreboxd *)

\* wyrebox_daemon_storage_check_initialized, at startup and never again.
BeginCheck ==
    /\ daemon.state = "down" /\ Marker("journal") # NoId
    /\ daemon' = [state |-> "checking", journal |-> Marker("journal")]
    /\ UNCHANGED <<mounted, marker, held, run, mounts, used, operator>>

AcceptsAny == Marker("object") # NoId \* variant
Accepts == Marker("object") = daemon.journal

EndCheck ==
    /\ daemon.state = "checking"
    /\ daemon' = [state |-> IF Accepts THEN "up" ELSE "down",
                  journal |-> IF Accepts THEN daemon.journal ELSE NoId]
    /\ UNCHANGED <<mounted, marker, held, run, mounts, used, operator>>

Holds(r, d) == held' = [held EXCEPT ![r][mounted[r]] = @ \union {d}]

\* A delivery's object is stored, then its record appended.
StoreObject(d) ==
    /\ daemon.state = "up" /\ d \notin held["object"][mounted["object"]]
    /\ \A r \in Roles, p \in Places : d \notin held[r][p]
    /\ Holds("object", d)
    /\ UNCHANGED <<mounted, marker, run, daemon, mounts, used, operator>>

AppendRecord(d) ==
    /\ daemon.state = "up" /\ d \in held["object"][mounted["object"]]
    /\ d \notin held["journal"][mounted["journal"]]
    /\ Holds("journal", d)
    /\ UNCHANGED <<mounted, marker, run, daemon, mounts, used, operator>>

StopDaemon ==
    /\ daemon.state = "up"
    /\ daemon' = [state |-> "down", journal |-> NoId]
    /\ UNCHANGED <<mounted, marker, held, run, mounts, used, operator>>

\* A volume is mounted or unmounted: RequiresMountsFor keeps the daemon down
\* meanwhile, and no run is under way.
Remount(r) ==
    /\ daemon.state = "down" /\ Working = {} /\ mounts < MaxMounts
    /\ \E p \in Places \ {mounted[r]} : mounted' = [mounted EXCEPT ![r] = p]
    /\ mounts' = mounts + 1
    /\ UNCHANGED <<marker, held, run, daemon, used, operator>>

RunStep(i) == ReadObjectMarker(i) \/ ReadJournalData(i) \/ ReadObjectData(i)
              \/ WriteFirst(i) \/ WriteSecond(i)
DaemonStep ==
    \/ BeginCheck \/ EndCheck \/ StopDaemon
    \/ \E d \in Deliveries : StoreObject(d) \/ AppendRecord(d)

Next ==
    \/ \E i \in Runs : BeginRun(i) \/ RunStep(i) \/ Interrupted(i)
    \/ DaemonStep
    \/ \E r \in Roles : Remount(r)

Spec == Init /\ [][Next]_vars

\* Runs go on by themselves, and the operator starts the remaining ones.
FairSpec ==
    /\ Spec
    /\ \A i \in Runs : WF_vars(RunStep(i)) /\ WF_vars(BeginRun(i))

-----------------------------------------------------------------------------
(* Properties *)

Serial == operator.overlap = 1
Careful == operator.care = "always"

\* "An interrupted run never leaves the object store marker alone": however
\* runs are interrupted, and although they may overlap, the object volume is
\* never marked while the journal volume is not, which is what lets
\* wyrebox_daemon_storage_initialize take a lone object marker for a missing
\* journal volume.
NeverLoneObject ==
    Careful /\ marker["object"]["volume"] # NoId => marker["journal"]["volume"] # NoId

\* Runs that do not overlap leave the two volumes with one storage ID whatever
\* step they were interrupted at, so no interruption leads to a pair of markers
\* that startup answers with EX_DATAERR.
VolumesMatch ==
    Careful /\ Serial =>
        \A r \in Roles :
            marker[r]["volume"] # NoId => marker["journal"]["volume"] = marker[r]["volume"]

\* A marker, once written, is never overwritten or removed by runs that do not
\* overlap, whatever is mounted when they are started.
MarkerIsForever ==
    [][Serial =>
         \A r \in Roles, p \in Places :
            marker[r][p] # NoId => marker'[r][p] = marker[r][p]]_vars

\* "Markers detect the volume that is missing later": a serving daemon has
\* both volumes of one installation, every record of the journal it appends to
\* has its object in the store it stores to.
RecordsHaveObjects ==
    daemon.state = "up" =>
        held["journal"][mounted["journal"]] \subseteq held["object"][mounted["object"]]

\* It holds whatever is unmounted or initialized, if the mounts are checked
\* until both volumes are marked and hold mail, and runs do not overlap.
CheckedVolumesServe ==
    Serial /\ operator.care # "never" => RecordsHaveObjects

\* A run that is not interrupted completes what interrupted ones left: from
\* some time on the volumes are marked and match, unless every run was
\* interrupted or a volume stays away.
InitializationCompletes ==
    Careful /\ Serial =>
    <>[](\/ marker["journal"]["volume"] = marker["object"]["volume"]
            /\ marker["journal"]["volume"] # NoId
         \/ \A i \in Runs : run[i].pc = "refused"
         \/ \E r \in Roles : mounted[r] # "volume")
=============================================================================
