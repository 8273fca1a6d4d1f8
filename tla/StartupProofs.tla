----------------------------- MODULE StartupProofs -----------------------------
(***************************************************************************)
(* Proofs about what a daemon finds when it starts: the storage markers of *)
(* its volumes and the schema of its catalog.                              *)
(***************************************************************************)
EXTENDS StorageMarkers, CatalogMigration, FiniteSetTheorems, TLAPS

-----------------------------------------------------------------------------
(* The storage markers: however many runs of --initialize-storage there    *)
(* are and whatever interrupts them, an object marker is never alone, runs *)
(* that do not overlap neither disagree nor overwrite a marker, and after  *)
(* checked mounts a daemon serves journals with their objects.             *)

-----------------------------------------------------------------------------
(* Types                                                                   *)

LEMMA InitTypeOK == Init => TypeOK
  <1> SUFFICES ASSUME Init PROVE TypeOK
    OBVIOUS
  <1>1. PICK mail \in {{}, Upgraded} :
          held = [r \in Roles |-> [p \in Places |-> IF p = "volume" THEN mail ELSE {}]]
    BY DEF Init
  <1>2. held \in [Roles -> [Places -> SUBSET Deliveries]]
    BY <1>1, StorageAssumption
  <1>3. mounts \in 0 .. MaxMounts
    BY StorageAssumption DEF Init
  <1> QED
    BY <1>2, <1>3, StorageAssumption
    DEF Init, TypeOK, Idle, Steps, Roles, Places

RunState == [pc : Steps, journal : Ids \union {NoId}, data : BOOLEAN,
             id : Ids \union {NoId}]

(* What a step of run i keeps typed: the other runs, and the markers.      *)
LEMMA RunMoves ==
  ASSUME TypeOK, NEW i \in Runs, NEW now \in RunState,
         run' = [run EXCEPT ![i] = now],
         now.pc \in {"write journal", "write object"} => now.id \in used',
         used \subseteq used'
  PROVE  /\ run' \in [Runs -> RunState]
         /\ \A j \in Runs : run'[j].pc \in {"write journal", "write object"}
                               => run'[j].id \in used'
  <1>1. run \in [Runs -> RunState]
    BY DEF TypeOK, RunState
  <1>2. ASSUME NEW j \in Runs
        PROVE  run'[j] = IF j = i THEN now ELSE run[j]
    BY <1>1
  <1> QED
    BY <1>1, <1>2 DEF TypeOK

LEMMA StepTyped ==
  ASSUME TypeOK, NEW i \in Runs, NEW from \in Steps, NEW to \in Steps, Step(i, from, to),
         to \in {"write journal", "write object"} => run[i].id \in used,
         used' = used
  PROVE  /\ run' \in [Runs -> RunState]
         /\ \A j \in Runs : run'[j].pc \in {"write journal", "write object"}
                               => run'[j].id \in used'
  <1> DEFINE now == [run[i] EXCEPT !.pc = to]
  <1>1. run[i] \in RunState
    BY DEF TypeOK, RunState
  <1>2. now \in RunState /\ now.pc = to /\ now.id = run[i].id
    BY <1>1 DEF RunState
  <1>3. run' = [run EXCEPT ![i] = now]
    BY DEF Step
  <1> HIDE DEF now
  <1>4. now.pc \in {"write journal", "write object"} => now.id \in used'
    BY <1>2
  <1>5. used \subseteq used'
    OBVIOUS
  <1> QED
    BY <1>2, <1>3, <1>4, <1>5, RunMoves

(* A run's step leaves the rest typed: the part of TypeOK about it.        *)
LEMMA RunTyped ==
  ASSUME TypeOK, run' \in [Runs -> RunState],
         \A j \in Runs : run'[j].pc \in {"write journal", "write object"}
                             => run'[j].id \in used',
         used \subseteq used', used' \subseteq Ids,
         UNCHANGED <<mounted, marker, held, daemon, mounts, operator>>
  PROVE  TypeOK'
  <1>1. run' \in [Runs -> [pc : Steps, journal : Ids \union {NoId}, data : BOOLEAN,
                            id : Ids \union {NoId}]]
    BY DEF RunState
  <1>2. \A r \in Roles, p \in Places : marker'[r][p] \in used' \union {NoId}
    BY DEF TypeOK
  <1> QED
    BY <1>1, <1>2 DEF TypeOK

(* A marker is written with the ID of the run.                             *)
LEMMA MarkerTyped ==
  ASSUME TypeOK, NEW r \in Roles, NEW i \in Runs,
         run[i].id \in used, WriteMarker(r, i)
  PROVE  /\ marker' \in [Roles -> [Places -> Ids \union {NoId}]]
         /\ \A q \in Roles, p \in Places : marker'[q][p] \in used \union {NoId}
         /\ \A q \in Roles, p \in Places :
              marker'[q][p] = IF q = r /\ p = mounted[r] THEN run[i].id ELSE marker[q][p]
  <1>1. mounted[r] \in Places /\ run[i].id \in Ids
    BY DEF TypeOK
  <1>2. ASSUME NEW q \in Roles, NEW p \in Places
        PROVE  marker'[q][p] = IF q = r /\ p = mounted[r] THEN run[i].id ELSE marker[q][p]
    BY <1>1 DEF WriteMarker, TypeOK
  <1>3. marker' \in [Roles -> [Places -> Ids \union {NoId}]]
    <2>1. marker \in [Roles -> [Places -> Ids \union {NoId}]]
      BY DEF TypeOK
    <2>2. [marker[r] EXCEPT ![mounted[r]] = run[i].id] \in [Places -> Ids \union {NoId}]
      BY <1>1, <2>1
    <2>3. marker' = [marker EXCEPT ![r] = [marker[r] EXCEPT ![mounted[r]] = run[i].id]]
      BY <2>1 DEF WriteMarker
    <2> QED
      BY <2>1, <2>2, <2>3
  <1>4. \A q \in Roles, p \in Places : marker[q][p] \in used \union {NoId}
    BY DEF TypeOK
  <1>5. \A q \in Roles, p \in Places : marker'[q][p] \in used \union {NoId}
    BY <1>2, <1>4
  <1> QED
    BY <1>2, <1>3, <1>5

LEMMA SecondIsObject == (CHOOSE r \in Roles : r # WrittenFirst) = "object"
  BY DEF Roles, WrittenFirst

LEMMA TypeRun ==
  ASSUME TypeOK, NEW i \in Runs, BeginRun(i) \/ RunStep(i) \/ Interrupted(i)
  PROVE  TypeOK'
  <1>0. /\ run[i] \in RunState
        /\ \A r \in Roles : Marker(r) \in Ids \union {NoId}
        /\ \A r \in Roles : HoldsData(r) \in BOOLEAN
    BY DEF TypeOK, Marker, HoldsData, Roles, RunState
  <1>1. CASE BeginRun(i)
    <2> DEFINE now == [run[i] EXCEPT !.pc = "object marker", !.journal = Marker("journal")]
    <2>1. now \in RunState /\ run' = [run EXCEPT ![i] = now] /\ now.pc = "object marker"
      BY <1>0, <1>1 DEF BeginRun, RunState, Steps, Roles, TypeOK
    <2> HIDE DEF now
    <2>2. used' = used /\ UNCHANGED <<mounted, marker, held, daemon, mounts, operator>>
      BY <1>1 DEF BeginRun
    <2>3. /\ run' \in [Runs -> RunState]
          /\ \A j \in Runs : run'[j].pc \in {"write journal", "write object"}
                               => run'[j].id \in used'
      BY <2>1, <2>2, RunMoves
    <2>4. used \subseteq used' /\ used' \subseteq Ids
      BY <2>2 DEF TypeOK
    <2> QED
      BY <2>2, <2>3, <2>4, RunTyped
  <1>2. CASE ReadObjectMarker(i)
    <2>1. PICK to \in {"done", "refused", "journal data"} : Step(i, "object marker", to)
      BY <1>2 DEF ReadObjectMarker
    <2>2. /\ run' \in [Runs -> RunState]
          /\ \A j \in Runs : run'[j].pc \in {"write journal", "write object"}
                               => run'[j].id \in used'
      BY <1>2, <2>1, StepTyped DEF ReadObjectMarker, Steps
    <2> QED
      BY <1>2, <2>2, RunTyped DEF ReadObjectMarker, TypeOK
  <1>3. CASE ReadJournalData(i)
    <2> DEFINE now == [run[i] EXCEPT !.pc = "object data", !.data = HoldsData("journal")]
    <2>1. now \in RunState /\ run' = [run EXCEPT ![i] = now] /\ now.pc = "object data"
      BY <1>0, <1>3 DEF ReadJournalData, RunState, Steps, Roles, TypeOK
    <2> HIDE DEF now
    <2>2. used' = used /\ UNCHANGED <<mounted, marker, held, daemon, mounts, operator>>
      BY <1>3 DEF ReadJournalData
    <2>3. /\ run' \in [Runs -> RunState]
          /\ \A j \in Runs : run'[j].pc \in {"write journal", "write object"}
                               => run'[j].id \in used'
      BY <2>1, <2>2, RunMoves
    <2>4. used \subseteq used' /\ used' \subseteq Ids
      BY <2>2 DEF TypeOK
    <2> QED
      BY <2>2, <2>3, <2>4, RunTyped
  <1>4. CASE ReadObjectData(i)
    <2>1. CASE Step(i, "object data", "refused") /\ UNCHANGED used
      <3>1. /\ run' \in [Runs -> RunState]
            /\ \A j \in Runs : run'[j].pc \in {"write journal", "write object"}
                                 => run'[j].id \in used'
        BY <2>1, StepTyped DEF Steps
      <3> QED
        BY <1>4, <2>1, <3>1, RunTyped DEF ReadObjectData, TypeOK
    <2>2. ASSUME NEW id \in NewId(i),
                 run' = [run EXCEPT ![i].pc = "write journal", ![i].id = id],
                 used' = used \union {id}
          PROVE  TypeOK'
      <3> DEFINE now == [run[i] EXCEPT !.pc = "write journal", !.id = id]
      <3>1. id \in Ids
        BY <1>0 DEF NewId, RunState
      <3>2. now \in RunState /\ run' = [run EXCEPT ![i] = now] /\ now.id = id
        BY <1>0, <2>2, <3>1 DEF RunState, Steps, TypeOK
      <3> HIDE DEF now
      <3>3. used \subseteq used' /\ used' \subseteq Ids /\ id \in used'
        BY <2>2, <3>1 DEF TypeOK
      <3>4. now.pc \in {"write journal", "write object"} => now.id \in used'
        BY <3>2, <3>3
      <3>5. /\ run' \in [Runs -> RunState]
            /\ \A j \in Runs : run'[j].pc \in {"write journal", "write object"}
                                 => run'[j].id \in used'
        BY <3>2, <3>3, <3>4, RunMoves
      <3> QED
        BY <1>4, <3>3, <3>5, RunTyped DEF ReadObjectData
    <2> QED
      BY <1>4, <2>1, <2>2 DEF ReadObjectData
  <1>5. CASE WriteFirst(i)
    <2>0. Step(i, "write journal", "write object") /\ used' = used
      BY <1>5 DEF WriteFirst
    <2>3. run[i].id \in used
      BY <2>0 DEF Step, TypeOK
    <2>1. /\ run' \in [Runs -> RunState]
          /\ \A j \in Runs : run'[j].pc \in {"write journal", "write object"}
                               => run'[j].id \in used'
      BY <2>0, <2>3, StepTyped DEF Steps
    <2>2. /\ marker' \in [Roles -> [Places -> Ids \union {NoId}]]
          /\ \A r \in Roles, p \in Places : marker'[r][p] \in used \union {NoId}
      BY <1>5, <2>3, MarkerTyped DEF WriteFirst, WrittenFirst, TypeOK, Roles
    <2> QED
      BY <1>5, <2>1, <2>2 DEF WriteFirst, TypeOK, RunState
  <1>6. CASE WriteSecond(i)
    <2>0. Step(i, "write object", "done") /\ used' = used
      BY <1>6 DEF WriteSecond
    <2>3. run[i].id \in used
      BY <2>0 DEF Step, TypeOK
    <2>1. /\ run' \in [Runs -> RunState]
          /\ \A j \in Runs : run'[j].pc \in {"write journal", "write object"}
                               => run'[j].id \in used'
      BY <2>0, <2>3, StepTyped DEF Steps
    <2>2. /\ marker' \in [Roles -> [Places -> Ids \union {NoId}]]
          /\ \A r \in Roles, p \in Places : marker'[r][p] \in used \union {NoId}
      BY <1>6, <2>3, MarkerTyped, SecondIsObject DEF WriteSecond, Roles
    <2> QED
      BY <1>6, <2>1, <2>2 DEF WriteSecond, TypeOK, RunState
  <1>7. CASE Interrupted(i)
    <2> DEFINE now == [Idle EXCEPT !.pc = "refused"]
    <2>1. now \in RunState /\ now.pc = "refused"
      BY DEF Idle, RunState, Steps
    <2> QED
      BY <1>7, <2>1, RunMoves DEF Interrupted, TypeOK, RunState
  <1> QED
    BY <1>1, <1>2, <1>3, <1>4, <1>5, <1>6, <1>7 DEF RunStep

LEMMA TypeDaemon == TypeOK /\ DaemonStep => TypeOK'
  <1> SUFFICES ASSUME TypeOK, DaemonStep PROVE TypeOK'
    OBVIOUS
  <1>0. Marker("journal") \in Ids \union {NoId}
    BY DEF TypeOK, Marker, Roles
  <1>1. CASE BeginCheck
    BY <1>0, <1>1 DEF BeginCheck, TypeOK
  <1>2. CASE EndCheck
    BY <1>2 DEF EndCheck, TypeOK
  <1>3. CASE StopDaemon
    BY <1>3 DEF StopDaemon, TypeOK
  <1>4. ASSUME NEW d \in Deliveries, NEW r \in Roles, Holds(r, d)
        PROVE  held' \in [Roles -> [Places -> SUBSET Deliveries]]
    <2>1. held \in [Roles -> [Places -> SUBSET Deliveries]] /\ mounted[r] \in Places
      BY DEF TypeOK
    <2>2. held' = [held EXCEPT ![r] = [held[r] EXCEPT ![mounted[r]] = @ \union {d}]]
      BY <1>4, <2>1 DEF Holds
    <2>3. held[r] \in [Places -> SUBSET Deliveries]
      BY <2>1
    <2>4. [held[r] EXCEPT ![mounted[r]] = @ \union {d}] \in [Places -> SUBSET Deliveries]
      BY <2>1, <2>3
    <2> QED
      BY <2>1, <2>2, <2>4
  <1>5. ASSUME NEW d \in Deliveries, StoreObject(d) \/ AppendRecord(d) PROVE TypeOK'
    <2>1. held' \in [Roles -> [Places -> SUBSET Deliveries]]
      BY <1>4, <1>5 DEF StoreObject, AppendRecord, Roles
    <2> QED
      BY <1>5, <2>1 DEF StoreObject, AppendRecord, TypeOK
  <1> QED
    BY <1>1, <1>2, <1>3, <1>5 DEF DaemonStep

LEMMA TypeStep == TypeOK /\ [Next]_vars => TypeOK'
  <1> SUFFICES ASSUME TypeOK, [Next]_vars PROVE TypeOK'
    OBVIOUS
  <1>1. ASSUME NEW r \in Roles, Remount(r) PROVE TypeOK'
    <2>1. mounted' \in [Roles -> Places]
      BY <1>1 DEF Remount, TypeOK
    <2>2. mounts < MaxMounts /\ mounts' = mounts + 1
      BY <1>1 DEF Remount
    <2>3. mounts \in 0 .. MaxMounts /\ MaxMounts \in Nat
      BY StorageAssumption DEF TypeOK
    <2>4. mounts' \in 0 .. MaxMounts
      BY <2>2, <2>3
    <2> QED
      BY <1>1, <2>1, <2>4 DEF Remount, TypeOK
  <1>2. CASE UNCHANGED vars
    BY <1>2 DEF vars, TypeOK
  <1> QED
    BY <1>1, <1>2, TypeRun, TypeDaemon DEF Next

(* Every reachable state of the storage markers is well typed: a run that  *)
(* writes has a storage ID, and a marker is one that was generated.        *)
THEOREM TypeCorrect == Spec => []TypeOK
  <1> QED
    BY InitTypeOK, TypeStep, PTL DEF Spec

-----------------------------------------------------------------------------
(* Runs that do not overlap                                                *)

(* At most one run is under way, and it still sees what it read.           *)
OneAtATime == /\ IsFiniteSet(Working)
              /\ Serial => \A i, j \in Working : i = j
StillSees ==
    Serial => \A i \in Working :
        /\ run[i].pc # "write object" => run[i].journal = Marker("journal")
        /\ run[i].pc # "object marker" => Marker("object") = NoId

(* The operator's check holds for as long as a run is under way, and a     *)
(* journal marker that was seen or written stays.                          *)
StillMounted ==
    Careful => \A i \in Working : \A r \in Roles : mounted[r] = "volume"
JournalMarked ==
    Careful => \A i \in Working :
        run[i].journal # NoId \/ run[i].pc = "write object"
            => marker["journal"]["volume"] # NoId

(* The run writes the ID of the journal marker there is, or its own.       *)
WritesOneId ==
    Careful /\ Serial => \A i \in Working :
        /\ run[i].pc = "write journal" /\ run[i].journal # NoId
              => run[i].id = run[i].journal
        /\ run[i].pc = "write object" => marker["journal"]["volume"] = run[i].id

IInv == /\ OneAtATime /\ StillSees /\ StillMounted /\ JournalMarked /\ WritesOneId
        /\ NeverLoneObject /\ VolumesMatch

LEMMA InitIInv == Init => IInv
  <1> SUFFICES ASSUME Init PROVE IInv
    OBVIOUS
  <1>1. Working = {}
    BY DEF Init, Working, Idle
  <1>2. IsFiniteSet(Working)
    BY <1>1, FS_EmptySet
  <1>3. \A r \in Roles, p \in Places : marker[r][p] = NoId
    BY DEF Init
  <1>4. marker["object"]["volume"] = NoId /\ marker["journal"]["volume"] = NoId
    BY <1>3 DEF Roles, Places
  <1> QED
    BY <1>1, <1>2, <1>4
    DEF IInv, OneAtATime, StillSees, StillMounted, JournalMarked, WritesOneId,
        NeverLoneObject, VolumesMatch, Roles

(* The steps of run i leave the other runs and the mounts alone; only run  *)
(* i can join the runs under way.                                          *)
LEMMA Frame ==
  ASSUME TypeOK, NEW i \in Runs, BeginRun(i) \/ RunStep(i) \/ Interrupted(i)
  PROVE  /\ UNCHANGED <<mounted, held, daemon, operator>>
         /\ \A j \in Runs : j # i => run'[j] = run[j]
         /\ Working' \subseteq Working \union {i}
         /\ RunStep(i) \/ Interrupted(i) => i \in Working
  <1>1. UNCHANGED <<mounted, held, daemon, operator>>
    BY DEF BeginRun, RunStep, Interrupted, ReadObjectMarker, ReadJournalData,
           ReadObjectData, WriteFirst, WriteSecond
  <1>2. \A j \in Runs : j # i => run'[j] = run[j]
    BY DEF TypeOK, BeginRun, RunStep, Interrupted, ReadObjectMarker, ReadJournalData,
           ReadObjectData, WriteFirst, WriteSecond, Step
  <1>3. RunStep(i) \/ Interrupted(i) => i \in Working
    BY DEF Working, RunStep, Interrupted, ReadObjectMarker, ReadJournalData,
           ReadObjectData, WriteFirst, WriteSecond, Step
  <1> QED
    BY <1>1, <1>2, <1>3 DEF Working

(* The markers a step of run i changes.                                    *)
LEMMA Marked ==
  ASSUME TypeOK, NEW i \in Runs, BeginRun(i) \/ RunStep(i) \/ Interrupted(i)
  PROVE  /\ WriteFirst(i) \/ WriteSecond(i) => run[i].id # NoId
         /\ ~WriteFirst(i) /\ ~WriteSecond(i) => marker' = marker
         /\ WriteFirst(i) => \A r \in Roles, p \in Places :
              marker'[r][p] =
                IF run[i].journal = NoId /\ r = "journal" /\ p = mounted["journal"]
                THEN run[i].id ELSE marker[r][p]
         /\ WriteSecond(i) => \A r \in Roles, p \in Places :
              marker'[r][p] =
                IF r = "object" /\ p = mounted["object"] THEN run[i].id ELSE marker[r][p]
  <1>1. WriteFirst(i) \/ WriteSecond(i) => run[i].id \in used
    BY DEF WriteFirst, WriteSecond, Step, TypeOK
  <1>2. WriteFirst(i) \/ WriteSecond(i) => run[i].id # NoId
    BY <1>1, StorageAssumption DEF TypeOK
  <1>3. ~WriteFirst(i) /\ ~WriteSecond(i) => marker' = marker
    BY DEF BeginRun, RunStep, Interrupted, ReadObjectMarker, ReadJournalData, ReadObjectData
  <1>4. WriteFirst(i) => \A r \in Roles, p \in Places :
          marker'[r][p] =
            IF run[i].journal = NoId /\ r = "journal" /\ p = mounted["journal"]
            THEN run[i].id ELSE marker[r][p]
    <2> SUFFICES ASSUME WriteFirst(i) PROVE <1>4!2
      OBVIOUS
    <2>1. CASE run[i].journal = NoId
      <3>1. WriteMarker("journal", i) /\ "journal" \in Roles
        BY <2>1 DEF WriteFirst, WrittenFirst, Roles
      <3>2. run[i].id \in used
        BY <1>1
      <3>3. \A r \in Roles, p \in Places :
              marker'[r][p] = IF r = "journal" /\ p = mounted["journal"]
                              THEN run[i].id ELSE marker[r][p]
        BY <3>1, <3>2, MarkerTyped
      <3> QED
        BY <2>1, <3>3
    <2>2. CASE run[i].journal # NoId
      BY <2>2 DEF WriteFirst
    <2> QED
      BY <2>1, <2>2
  <1>5. WriteSecond(i) => \A r \in Roles, p \in Places :
          marker'[r][p] =
            IF r = "object" /\ p = mounted["object"] THEN run[i].id ELSE marker[r][p]
    <2> SUFFICES ASSUME WriteSecond(i) PROVE <1>5!2
      OBVIOUS
    <2>1. WriteMarker("object", i)
      BY SecondIsObject DEF WriteSecond
    <2> QED
      BY <1>1, <2>1, MarkerTyped DEF Roles
  <1> QED
    BY <1>2, <1>3, <1>4, <1>5

(* What a step of run i makes of run i.                                    *)
LEMMA Moved ==
  ASSUME TypeOK, NEW i \in Runs, BeginRun(i) \/ RunStep(i) \/ Interrupted(i)
  PROVE  /\ BeginRun(i) =>
              run'[i].pc = "object marker" /\ run'[i].journal = Marker("journal")
         /\ ReadObjectMarker(i) =>
              /\ run'[i].journal = run[i].journal
              /\ \/ run'[i].pc \in {"done", "refused"}
                 \/ run'[i].pc = "journal data" /\ Marker("object") = NoId
         /\ ReadJournalData(i) =>
              /\ run[i].pc = "journal data" /\ run'[i].pc = "object data"
              /\ run'[i].journal = run[i].journal
         /\ ReadObjectData(i) =>
              /\ run[i].pc = "object data" /\ run'[i].journal = run[i].journal
              /\ \/ run'[i].pc = "refused"
                 \/ /\ run'[i].pc = "write journal"
                    /\ run[i].journal # NoId => run'[i].id = run[i].journal
         /\ WriteFirst(i) =>
              /\ run[i].pc = "write journal" /\ run'[i].pc = "write object"
              /\ run'[i].journal = run[i].journal /\ run'[i].id = run[i].id
         /\ WriteSecond(i) => run[i].pc = "write object" /\ run'[i].pc = "done"
         /\ Interrupted(i) => run'[i].pc = "refused"
  <1>0. run \in [Runs -> RunState]
    BY DEF TypeOK, RunState
  <1>1. ASSUME BeginRun(i)
        PROVE  run'[i].pc = "object marker" /\ run'[i].journal = Marker("journal")
    BY <1>0, <1>1 DEF BeginRun, RunState
  <1>2. ASSUME ReadObjectMarker(i)
        PROVE  /\ run'[i].journal = run[i].journal
               /\ \/ run'[i].pc \in {"done", "refused"}
                  \/ run'[i].pc = "journal data" /\ Marker("object") = NoId
    <2>1. run[i] \in RunState
      BY <1>0
    <2>2. PICK pc \in {"done", "refused", "journal data"} :
            /\ run' = [run EXCEPT ![i].pc = pc]
            /\ pc = "journal data" => Marker("object") = NoId
      BY <1>2 DEF ReadObjectMarker, Found, Step
    <2>3. run'[i] = [run[i] EXCEPT !.pc = pc]
      BY <1>0, <2>2
    <2> QED
      BY <2>1, <2>2, <2>3 DEF RunState
  <1>3. ASSUME ReadJournalData(i)
        PROVE  /\ run[i].pc = "journal data" /\ run'[i].pc = "object data"
               /\ run'[i].journal = run[i].journal
    BY <1>0, <1>3 DEF ReadJournalData, RunState
  <1>4. ASSUME ReadObjectData(i)
        PROVE  /\ run[i].pc = "object data" /\ run'[i].journal = run[i].journal
               /\ \/ run'[i].pc = "refused"
                  \/ /\ run'[i].pc = "write journal"
                     /\ run[i].journal # NoId => run'[i].id = run[i].journal
    <2>1. CASE Step(i, "object data", "refused")
      BY <1>0, <2>1 DEF Step, RunState
    <2>2. ASSUME run[i].pc = "object data", NEW id \in NewId(i),
                 run' = [run EXCEPT ![i].pc = "write journal", ![i].id = id]
          PROVE  /\ run'[i].journal = run[i].journal
                 /\ run'[i].pc = "write journal"
                 /\ run[i].journal # NoId => run'[i].id = run[i].journal
      BY <1>0, <2>2 DEF NewId, RunState
    <2> QED
      BY <1>4, <2>1, <2>2 DEF ReadObjectData, Step
  <1>5. ASSUME WriteFirst(i)
        PROVE  /\ run[i].pc = "write journal" /\ run'[i].pc = "write object"
               /\ run'[i].journal = run[i].journal /\ run'[i].id = run[i].id
    BY <1>0, <1>5 DEF WriteFirst, Step, RunState
  <1>6. ASSUME WriteSecond(i)
        PROVE  run[i].pc = "write object" /\ run'[i].pc = "done"
    BY <1>0, <1>6 DEF WriteSecond, Step, RunState
  <1>7. ASSUME Interrupted(i) PROVE run'[i].pc = "refused"
    BY <1>0, <1>7 DEF Interrupted, Idle, RunState
  <1> QED
    BY <1>1, <1>2, <1>3, <1>4, <1>5, <1>6, <1>7

(* With one run at a time no other is under way before or after a step.    *)
LEMMA Alone ==
  ASSUME TypeOK, OneAtATime, Serial,
         NEW i \in Runs, BeginRun(i) \/ RunStep(i) \/ Interrupted(i)
  PROVE  Working' \subseteq {i}
  <1>1. CASE BeginRun(i)
    <2>1. Cardinality(Working) \in Nat /\ Cardinality(Working) < 1
      BY <1>1, FS_CardinalityType DEF OneAtATime, BeginRun, Serial
    <2>2. Cardinality(Working) = 0
      BY <2>1
    <2>3. Working = {}
      BY <2>2, FS_EmptySet DEF OneAtATime
    <2> QED
      BY <2>3, Frame
  <1>2. CASE RunStep(i) \/ Interrupted(i)
    BY <1>2, Frame DEF OneAtATime
  <1> QED
    BY <1>1, <1>2

LEMMA KeepsOneAtATime ==
  ASSUME TypeOK, OneAtATime, NEW i \in Runs, BeginRun(i) \/ RunStep(i) \/ Interrupted(i)
  PROVE  OneAtATime'
  <1>1. Working' \subseteq Working \union {i}
    BY Frame
  <1>2. IsFiniteSet(Working \union {i})
    BY FS_AddElement DEF OneAtATime
  <1>3. IsFiniteSet(Working')
    BY <1>1, <1>2, FS_Subset
  <1>4. Serial' <=> Serial
    BY Frame DEF Serial
  <1>5. Serial => Working' \subseteq {i}
    BY Alone
  <1> QED
    BY <1>3, <1>4, <1>5 DEF OneAtATime

LEMMA KeepsStillSees ==
  ASSUME TypeOK, OneAtATime, StillSees,
         NEW i \in Runs, BeginRun(i) \/ RunStep(i) \/ Interrupted(i)
  PROVE  StillSees'
  <1> SUFFICES ASSUME Serial, i \in Working'
               PROVE  /\ run'[i].pc # "write object" => run'[i].journal = Marker("journal")'
                      /\ run'[i].pc # "object marker" => Marker("object")' = NoId
    BY Frame, Alone DEF StillSees, Serial
  <1>1. run'[i].pc \notin {"idle", "done", "refused"}
    BY DEF Working
  <1>2. i \in Working =>
          /\ run[i].pc # "write object" => run[i].journal = Marker("journal")
          /\ run[i].pc # "object marker" => Marker("object") = NoId
    BY DEF StillSees
  <1>3. ~WriteFirst(i) /\ ~WriteSecond(i) => \A r \in Roles : Marker(r)' = Marker(r)
    BY Frame, Marked DEF Marker
  <1>4. CASE BeginRun(i)
    <2>1. run'[i].pc = "object marker" /\ run'[i].journal = Marker("journal")
      BY <1>4, Moved
    <2>2. Marker("journal")' = Marker("journal")
      BY <1>3, <1>4, <2>1, Moved DEF Roles
    <2> QED
      BY <2>1, <2>2
  <1>5. CASE ReadObjectMarker(i) \/ ReadJournalData(i) \/ ReadObjectData(i)
    <2>1. RunStep(i) /\ i \in Working
      BY <1>5, Frame DEF RunStep
    <2>2. run[i].pc \in {"object marker", "journal data", "object data"}
      BY <1>5 DEF ReadObjectMarker, ReadJournalData, ReadObjectData, Step
    <2>3. Marker("journal")' = Marker("journal") /\ Marker("object")' = Marker("object")
      BY <1>3, <2>2 DEF Roles, WriteFirst, WriteSecond, Step
    <2>4. run'[i].journal = run[i].journal
      BY <1>5, Moved
    <2>5. run[i].pc = "object marker" => Marker("object") = NoId
      BY <1>1, <1>5, Moved
    <2> QED
      BY <1>2, <2>1, <2>2, <2>3, <2>4, <2>5
  <1>6. CASE WriteFirst(i)
    <2>1. i \in Working /\ run[i].pc = "write journal" /\ run'[i].pc = "write object"
      BY <1>6, Frame, Moved DEF RunStep
    <2>2. Marker("object") = NoId
      BY <1>2, <2>1
    <2>3. mounted["object"] \in Places /\ mounted' = mounted
      BY Frame DEF TypeOK, Roles
    <2>4. Marker("object")' = Marker("object")
      BY <1>6, <2>3, Marked DEF Marker, Roles
    <2> QED
      BY <2>1, <2>2, <2>4
  <1>7. CASE WriteSecond(i) \/ Interrupted(i)
    BY <1>1, <1>7, Moved
  <1> QED
    BY <1>4, <1>5, <1>6, <1>7 DEF RunStep

(* No marker is removed.                                                   *)
LEMMA NoneRemoved ==
  ASSUME TypeOK, NEW i \in Runs, BeginRun(i) \/ RunStep(i) \/ Interrupted(i)
  PROVE  \A r \in Roles, p \in Places : marker[r][p] # NoId => marker'[r][p] # NoId
  BY Marked

LEMMA KeepsStillMounted ==
  ASSUME TypeOK, StillMounted,
         NEW i \in Runs, BeginRun(i) \/ RunStep(i) \/ Interrupted(i)
  PROVE  StillMounted'
  <1> SUFFICES ASSUME Careful, NEW j \in Working', NEW r \in Roles
               PROVE  mounted[r] = "volume"
    BY Frame DEF StillMounted, Careful
  <1>1. CASE BeginRun(i)
    BY <1>1 DEF BeginRun, Checked, Careful
  <1>2. CASE RunStep(i) \/ Interrupted(i)
    BY <1>2, Frame DEF StillMounted
  <1> QED
    BY <1>1, <1>2

LEMMA KeepsJournalMarked ==
  ASSUME TypeOK, StillMounted, JournalMarked, NEW i \in Runs,
         BeginRun(i) \/ RunStep(i) \/ Interrupted(i)
  PROVE  JournalMarked'
  <1> SUFFICES ASSUME Careful, NEW j \in Working',
                      run'[j].journal # NoId \/ run'[j].pc = "write object"
               PROVE  marker'["journal"]["volume"] # NoId
    BY Frame DEF JournalMarked, Careful
  <1>0. /\ marker["journal"]["volume"] # NoId => marker'["journal"]["volume"] # NoId
        /\ run'[j].pc \notin {"idle", "done", "refused"}
    BY NoneRemoved DEF Roles, Places, Working
  <1>1. CASE j # i
    <2>1. j \in Runs
      BY DEF Working
    <2>2. j \in Working /\ run'[j] = run[j]
      BY <1>1, <2>1, Frame
    <2> QED
      BY <1>0, <2>2 DEF JournalMarked
  <1>2. CASE j = i /\ BeginRun(i)
    <2>1. mounted["journal"] = "volume"
      BY <1>2 DEF BeginRun, Checked, Careful, Roles
    <2>2. run'[j].pc = "object marker" /\ run'[j].journal = marker["journal"]["volume"]
      BY <1>2, <2>1, Moved DEF Marker
    <2> QED
      BY <1>0, <2>2
  <1>3. CASE j = i /\ (ReadObjectMarker(i) \/ ReadJournalData(i) \/ ReadObjectData(i))
    <2>1. i \in Working /\ run'[i].pc # "write object" /\ run'[i].journal = run[i].journal
      BY <1>0, <1>3, Frame, Moved DEF RunStep
    <2> QED
      BY <1>0, <1>3, <2>1 DEF JournalMarked
  <1>4. CASE j = i /\ WriteFirst(i)
    <2>1. i \in Working /\ run[i].id # NoId
      BY <1>4, Frame, Marked DEF RunStep
    <2>2. mounted["journal"] = "volume"
      BY <2>1 DEF StillMounted, Roles
    <2>3. CASE run[i].journal = NoId
      <3>1. marker'["journal"]["volume"] = run[i].id
        BY <1>4, <2>2, <2>3, Marked DEF Roles, Places
      <3> QED
        BY <2>1, <3>1
    <2>4. CASE run[i].journal # NoId
      BY <1>0, <2>1, <2>4 DEF JournalMarked
    <2> QED
      BY <2>3, <2>4
  <1>5. CASE j = i /\ (WriteSecond(i) \/ Interrupted(i))
    BY <1>0, <1>5, Moved
  <1> QED
    BY <1>1, <1>2, <1>3, <1>4, <1>5 DEF RunStep

LEMMA KeepsNeverLoneObject ==
  ASSUME TypeOK, JournalMarked, NeverLoneObject,
         NEW i \in Runs, BeginRun(i) \/ RunStep(i) \/ Interrupted(i)
  PROVE  NeverLoneObject'
  <1> SUFFICES ASSUME Careful, marker'["object"]["volume"] # NoId
               PROVE  marker'["journal"]["volume"] # NoId
    BY Frame DEF NeverLoneObject, Careful
  <1>0. marker["journal"]["volume"] # NoId => marker'["journal"]["volume"] # NoId
    BY NoneRemoved DEF Roles, Places
  <1>1. CASE ~WriteSecond(i)
    <2>1. marker'["object"]["volume"] = marker["object"]["volume"]
      BY <1>1, Marked DEF Roles, Places
    <2> QED
      BY <1>0, <2>1 DEF NeverLoneObject
  <1>2. CASE WriteSecond(i)
    <2>1. i \in Working /\ run[i].pc = "write object"
      BY <1>2, Frame, Moved DEF RunStep
    <2> QED
      BY <1>0, <2>1 DEF JournalMarked
  <1> QED
    BY <1>1, <1>2

LEMMA KeepsWritesOneId ==
  ASSUME TypeOK, OneAtATime, StillSees, StillMounted, WritesOneId,
         NEW i \in Runs, BeginRun(i) \/ RunStep(i) \/ Interrupted(i)
  PROVE  WritesOneId'
  <1> SUFFICES ASSUME Careful, Serial, i \in Working'
               PROVE  /\ run'[i].pc = "write journal" /\ run'[i].journal # NoId
                            => run'[i].id = run'[i].journal
                      /\ run'[i].pc = "write object"
                            => marker'["journal"]["volume"] = run'[i].id
    BY Frame, Alone DEF WritesOneId, Careful, Serial
  <1>0. run'[i].pc \notin {"idle", "done", "refused"}
    BY DEF Working
  <1>1. CASE BeginRun(i) \/ ReadObjectMarker(i) \/ ReadJournalData(i) \/ ReadObjectData(i)
    BY <1>0, <1>1, Moved
  <1>2. CASE WriteFirst(i)
    <2>1. /\ i \in Working /\ run[i].pc = "write journal"
          /\ run'[i].pc = "write object" /\ run'[i].id = run[i].id
      BY <1>2, Frame, Moved DEF RunStep
    <2>2. mounted["journal"] = "volume" /\ run[i].journal = marker["journal"]["volume"]
      BY <2>1 DEF StillMounted, StillSees, Roles, Marker
    <2>3. run[i].journal # NoId => run[i].id = run[i].journal
      BY <2>1 DEF WritesOneId
    <2>4. marker'["journal"]["volume"] = run[i].id
      BY <1>2, <2>2, <2>3, Marked DEF Roles, Places
    <2> QED
      BY <2>1, <2>4
  <1>3. CASE WriteSecond(i) \/ Interrupted(i)
    BY <1>0, <1>3, Moved
  <1> QED
    BY <1>1, <1>2, <1>3 DEF RunStep

LEMMA KeepsVolumesMatch ==
  ASSUME TypeOK, StillSees, StillMounted, WritesOneId, VolumesMatch,
         NEW i \in Runs, BeginRun(i) \/ RunStep(i) \/ Interrupted(i)
  PROVE  VolumesMatch'
  <1> SUFFICES ASSUME Careful, Serial, marker'["object"]["volume"] # NoId
               PROVE  marker'["journal"]["volume"] = marker'["object"]["volume"]
    BY Frame DEF VolumesMatch, Careful, Serial, Roles
  <1>1. CASE ~WriteFirst(i) /\ ~WriteSecond(i)
    BY <1>1, Marked DEF VolumesMatch, Roles
  <1>2. CASE WriteFirst(i)
    <2>1. i \in Working /\ run[i].pc = "write journal"
      BY <1>2, Frame, Moved DEF RunStep
    <2>2. marker["object"]["volume"] = NoId
      BY <2>1 DEF StillMounted, StillSees, Roles, Marker
    <2> QED
      BY <1>2, <2>2, Marked DEF Roles, Places
  <1>3. CASE WriteSecond(i)
    <2>1. i \in Working /\ run[i].pc = "write object"
      BY <1>3, Frame, Moved DEF RunStep
    <2>2. marker["journal"]["volume"] = run[i].id /\ mounted["object"] = "volume"
      BY <2>1 DEF WritesOneId, StillMounted, Roles
    <2> QED
      BY <1>3, <2>2, Marked DEF Roles, Places
  <1> QED
    BY <1>1, <1>2, <1>3

(* The daemon writes no marker and mounts nothing, and nothing is mounted  *)
(* while a run is under way.                                               *)
LEMMA KeepsElsewhere ==
  ASSUME TypeOK, IInv, DaemonStep \/ (\E r \in Roles : Remount(r)) \/ UNCHANGED vars
  PROVE  IInv'
  <1>1. UNCHANGED <<marker, run, operator>> /\ (mounted' = mounted \/ Working = {})
    BY DEF DaemonStep, BeginCheck, EndCheck, StopDaemon, StoreObject, AppendRecord,
           Remount, vars
  <1>2. Working' = Working
    BY <1>1 DEF Working
  <1>3. OneAtATime' /\ NeverLoneObject' /\ VolumesMatch'
    BY <1>1, <1>2 DEF IInv, OneAtATime, NeverLoneObject, VolumesMatch, Careful, Serial
  <1>4. StillSees' /\ StillMounted'
    BY <1>1, <1>2 DEF IInv, StillSees, StillMounted, Careful, Serial, Marker
  <1>5. JournalMarked' /\ WritesOneId'
    BY <1>1, <1>2 DEF IInv, JournalMarked, WritesOneId, Careful, Serial
  <1> QED
    BY <1>3, <1>4, <1>5 DEF IInv

LEMMA StepIInv == TypeOK /\ IInv /\ [Next]_vars => IInv'
  <1> SUFFICES ASSUME TypeOK, IInv, [Next]_vars PROVE IInv'
    OBVIOUS
  <1>1. ASSUME NEW i \in Runs, BeginRun(i) \/ RunStep(i) \/ Interrupted(i) PROVE IInv'
    BY <1>1, KeepsOneAtATime, KeepsStillSees, KeepsStillMounted, KeepsJournalMarked,
       KeepsNeverLoneObject, KeepsWritesOneId, KeepsVolumesMatch DEF IInv
  <1> QED
    BY <1>1, KeepsElsewhere DEF Next

LEMMA IInvCorrect == Spec => []IInv
  <1> QED
    BY InitTypeOK, TypeStep, InitIInv, StepIInv, PTL DEF Spec

(* Whatever interrupts the runs and however many overlap, the object store *)
(* marker is never alone on mounted volumes: a lone one means that the     *)
(* journal volume is missing, as --initialize-storage takes it to mean.    *)
THEOREM NeverLoneObjectCorrect == Spec => []NeverLoneObject
  <1>1. IInv => NeverLoneObject
    BY DEF IInv
  <1> QED
    BY <1>1, IInvCorrect, PTL

(* Runs that do not overlap leave no pair of volumes with two storage IDs, *)
(* which startup would answer with EX_DATAERR for good.                    *)
THEOREM VolumesMatchCorrect == Spec => []VolumesMatch
  <1>1. IInv => VolumesMatch
    BY DEF IInv
  <1> QED
    BY <1>1, IInvCorrect, PTL

LEMMA StepKeepsMarkers ==
  ASSUME TypeOK, IInv, [Next]_vars, Serial, NEW r \in Roles, NEW p \in Places,
         marker[r][p] # NoId
  PROVE  marker'[r][p] = marker[r][p]
  <1>1. ASSUME NEW i \in Runs, WriteFirst(i) PROVE marker'[r][p] = marker[r][p]
    <2>1. i \in Working /\ run[i].pc = "write journal"
      BY <1>1, Frame, Moved DEF RunStep
    <2>2. run[i].journal = Marker("journal")
      BY <2>1 DEF IInv, StillSees
    <2> QED
      BY <1>1, <2>2, Marked DEF RunStep, Marker
  <1>2. ASSUME NEW i \in Runs, WriteSecond(i) PROVE marker'[r][p] = marker[r][p]
    <2>1. i \in Working /\ run[i].pc = "write object"
      BY <1>2, Frame, Moved DEF RunStep
    <2>2. Marker("object") = NoId
      BY <2>1 DEF IInv, StillSees
    <2> QED
      BY <1>2, <2>2, Marked DEF RunStep, Marker
  <1>3. ASSUME NEW i \in Runs, BeginRun(i) \/ RunStep(i) \/ Interrupted(i)
        PROVE  marker'[r][p] = marker[r][p]
    BY <1>1, <1>2, <1>3, Marked
  <1>4. DaemonStep \/ (\E q \in Roles : Remount(q)) \/ UNCHANGED vars => marker' = marker
    BY DEF DaemonStep, BeginCheck, EndCheck, StopDaemon, StoreObject, AppendRecord,
           Remount, vars
  <1> QED
    BY <1>3, <1>4 DEF Next

(* A marker that was written, on a volume or on a mount point, stays as it *)
(* is if runs do not overlap: none ever finds another ID than it read.     *)
THEOREM MarkerIsForeverCorrect == Spec => MarkerIsForever
  <1>1. TypeOK /\ IInv /\ [Next]_vars =>
          [Serial => \A r \in Roles, p \in Places :
                        marker[r][p] # NoId => marker'[r][p] = marker[r][p]]_vars
    BY StepKeepsMarkers
  <1> QED
    BY <1>1, TypeCorrect, IInvCorrect, PTL DEF Spec, MarkerIsForever

-----------------------------------------------------------------------------
(* Mounts checked until both volumes are used                              *)

MountsChecked == Serial /\ operator.care # "never"

(* Places keep apart: what is at one was put there with both roots on it.  *)
RecordsBelow ==
    \A p \in Places : held["journal"][p] \subseteq held["object"][p]
PlacesDiffer ==
    \A r, s \in Roles : \A p, q \in Places :
        marker[r][p] # NoId /\ p # q => marker[s][q] # marker[r][p]
StoreMarked ==
    held["object"]["mountpoint"] # {} => marker["object"]["mountpoint"] # NoId

(* What the daemon read at startup is still there.                         *)
ServesMarked ==
    /\ daemon.state \in {"checking", "up"} =>
          Marker("journal") = daemon.journal /\ daemon.journal # NoId
    /\ daemon.state = "up" => Marker("object") = daemon.journal

(* A run that finds the roots at different places meets a used journal     *)
(* volume, and so takes the mount point for a volume that is missing.      *)
BothUsed ==
    \A r \in Roles : marker[r]["volume"] # NoId /\ held[r]["volume"] # {}
Together == mounted["journal"] = mounted["object"]
KnowsMounts ==
    \A i \in Working : BothUsed \/ \A r \in Roles : mounted[r] = "volume"
MixedRefused ==
    ~Together => \A i \in Working :
        /\ run[i].pc = "object data" => run[i].data
        /\ run[i].pc \notin {"write journal", "write object"}

(* A run writes an ID no marker has, or that of the journal marker.        *)
WritesFresh ==
    \A i \in Working :
        /\ run[i].pc = "write journal" /\ run[i].journal = NoId =>
              \A r \in Roles, p \in Places : marker[r][p] # run[i].id
        /\ run[i].pc = "write journal" /\ run[i].journal # NoId =>
              run[i].id = run[i].journal
        /\ run[i].pc = "write object" => run[i].id = Marker("journal")

CheckedInv ==
    MountsChecked =>
        /\ RecordsBelow /\ PlacesDiffer /\ StoreMarked /\ ServesMarked
        /\ KnowsMounts /\ MixedRefused /\ WritesFresh

LEMMA InitCheckedInv == Init => CheckedInv
  <1> SUFFICES ASSUME Init PROVE CheckedInv
    OBVIOUS
  <1>1. Working = {}
    BY DEF Init, Working, Idle
  <1>2. \A r \in Roles, p \in Places : marker[r][p] = NoId
    BY DEF Init
  <1>3. RecordsBelow /\ held["object"]["mountpoint"] = {}
    BY DEF Init, RecordsBelow, Roles, Places
  <1>4. daemon.state = "down"
    BY DEF Init
  <1> QED
    BY <1>1, <1>2, <1>3, <1>4
    DEF CheckedInv, PlacesDiffer, StoreMarked, ServesMarked, KnowsMounts, MixedRefused,
        WritesFresh

(* A serving daemon has both roots at one place.                           *)
LEMMA ServesTogether ==
  ASSUME TypeOK, PlacesDiffer, ServesMarked, daemon.state = "up"
  PROVE  Together /\ Marker("object") # NoId
  <1>1. mounted["journal"] \in Places /\ mounted["object"] \in Places
    BY DEF TypeOK, Roles
  <1>2. /\ marker["journal"][mounted["journal"]] # NoId
        /\ marker["object"][mounted["object"]] = marker["journal"][mounted["journal"]]
    BY DEF ServesMarked, Marker
  <1>3. Together
    BY <1>1, <1>2 DEF PlacesDiffer, Together, Roles
  <1> QED
    BY <1>2, <1>3 DEF Marker

(* Nothing is taken away from a root, and nothing is mounted while a run   *)
(* is under way or the daemon is not down.                                 *)
LEMMA Kept ==
  ASSUME TypeOK, [Next]_vars
  PROVE  /\ operator' = operator
         /\ \A r \in Roles, p \in Places : held[r][p] \subseteq held'[r][p]
         /\ Working # {} \/ daemon.state # "down" => mounted' = mounted
  <1>1. ASSUME NEW r \in Roles, NEW d, Holds(r, d)
        PROVE  \A q \in Roles, p \in Places : held[q][p] \subseteq held'[q][p]
    <2>1. held \in [Roles -> [Places -> SUBSET Deliveries]]
      BY DEF TypeOK
    <2>2. held' = [held EXCEPT ![r] = [held[r] EXCEPT ![mounted[r]] = @ \union {d}]]
      BY <1>1, <2>1 DEF Holds
    <2>3. ASSUME NEW q \in Roles, NEW p \in Places PROVE held[q][p] \subseteq held'[q][p]
      <3>1. CASE q = r
        <4>1. held'[q] = [held[r] EXCEPT ![mounted[r]] = @ \union {d}]
          BY <2>1, <2>2, <3>1
        <4>2. held[r] \in [Places -> SUBSET Deliveries]
          BY <2>1
        <4> QED
          BY <3>1, <4>1, <4>2
      <3>2. CASE q # r
        BY <2>1, <2>2, <3>2
      <3> QED
        BY <3>1, <3>2
    <2> QED
      BY <2>3
  <1>2. ASSUME NEW i \in Runs, BeginRun(i) \/ RunStep(i) \/ Interrupted(i)
        PROVE  UNCHANGED <<mounted, held, operator>>
    BY <1>2, Frame
  <1>3. ASSUME DaemonStep
        PROVE  /\ UNCHANGED <<mounted, operator>>
               /\ \A r \in Roles, p \in Places : held[r][p] \subseteq held'[r][p]
    BY <1>1, <1>3 DEF DaemonStep, BeginCheck, EndCheck, StopDaemon, StoreObject,
                      AppendRecord, Roles
  <1>4. ASSUME NEW r \in Roles, Remount(r)
        PROVE  /\ UNCHANGED <<held, operator>> /\ Working = {} /\ daemon.state = "down"
    BY <1>4 DEF Remount
  <1>5. CASE UNCHANGED vars
    BY <1>5 DEF vars
  <1> QED
    BY <1>2, <1>3, <1>4, <1>5 DEF Next

(* Steps of a run                                                          *)

LEMMA RunKeepsChecked ==
  ASSUME TypeOK, IInv, CheckedInv, MountsChecked,
         NEW i \in Runs, BeginRun(i) \/ RunStep(i) \/ Interrupted(i)
  PROVE  CheckedInv'
  <1>0. /\ RecordsBelow /\ PlacesDiffer /\ StoreMarked /\ ServesMarked
        /\ KnowsMounts /\ MixedRefused /\ WritesFresh /\ Serial
    BY DEF CheckedInv, MountsChecked
  <1>1. /\ UNCHANGED <<mounted, held, daemon, operator>>
        /\ Working' \subseteq {i}
        /\ RunStep(i) \/ Interrupted(i) => i \in Working
        /\ Together' <=> Together
    BY <1>0, Frame, Alone DEF IInv, Together
  <1>2. \A r \in Roles, p \in Places : marker[r][p] # NoId => marker'[r][p] = marker[r][p]
    BY <1>0, StepKeepsMarkers DEF Next
  <1>3. /\ mounted["journal"] \in Places /\ mounted["object"] \in Places
        /\ run \in [Runs -> RunState]
    BY DEF TypeOK, Roles, RunState
  <1>4. i \in Working' => run'[i].pc \notin {"idle", "done", "refused"}
    BY DEF Working
  <1>5. RecordsBelow' /\ StoreMarked'
    <2>1. RecordsBelow'
      BY <1>0, <1>1 DEF RecordsBelow
    <2>2. marker["object"]["mountpoint"] # NoId =>
            marker'["object"]["mountpoint"] # NoId
      BY <1>2 DEF Roles, Places
    <2> QED
      BY <1>0, <1>1, <2>1, <2>2 DEF StoreMarked
  <1>6. ServesMarked'
    <2>1. ASSUME NEW r \in Roles, Marker(r) # NoId PROVE Marker(r)' = Marker(r)
      BY <1>1, <1>2, <2>1 DEF Marker, TypeOK
    <2>2. daemon' = daemon
      BY <1>1
    <2>3. daemon.state \in {"checking", "up"} =>
            Marker("journal")' = daemon.journal /\ daemon.journal # NoId
      BY <1>0, <2>1 DEF ServesMarked, Roles
    <2>4. daemon.state = "up" => Marker("object")' = daemon.journal
      BY <1>0, <2>1 DEF ServesMarked, Roles
    <2> QED
      BY <2>2, <2>3, <2>4 DEF ServesMarked
  <1>7. WritesFresh'
    <2> SUFFICES ASSUME i \in Working'
                 PROVE  /\ run'[i].pc = "write journal" /\ run'[i].journal = NoId =>
                              \A r \in Roles, p \in Places : marker'[r][p] # run'[i].id
                        /\ run'[i].pc = "write journal" /\ run'[i].journal # NoId =>
                              run'[i].id = run'[i].journal
                        /\ run'[i].pc = "write object" => run'[i].id = Marker("journal")'
      BY <1>1 DEF WritesFresh
    <2>1. CASE ReadObjectData(i)
      <3>1. marker' = marker /\ run'[i].journal = run[i].journal
        BY <2>1, Moved DEF ReadObjectData, RunStep
      <3>6. ~Step(i, "object data", "refused")
        BY <1>3, <1>4 DEF Step, RunState
      <3>2. PICK id \in NewId(i) : run' = [run EXCEPT ![i].pc = "write journal", ![i].id = id]
        BY <2>1, <3>6 DEF ReadObjectData
      <3>3. run'[i].pc = "write journal" /\ run'[i].id = id
        BY <1>3, <3>2 DEF RunState
      <3>4. ASSUME run[i].journal = NoId, NEW r \in Roles, NEW p \in Places
            PROVE  marker[r][p] # id
        <4>1. id \in Ids /\ id \notin used
          BY <3>2, <3>4 DEF NewId
        <4>2. marker[r][p] \in used \union {NoId} /\ NoId \notin Ids
          BY StorageAssumption DEF TypeOK
        <4> QED
          BY <4>1, <4>2
      <3>5. ASSUME run[i].journal # NoId PROVE id = run[i].journal
        <4>1. NewId(i) = {run[i].journal}
          BY <3>5 DEF NewId
        <4> QED
          BY <3>2, <4>1
      <3> QED
        BY <3>1, <3>3, <3>4, <3>5
    <2>2. CASE WriteFirst(i)
      <3>1. /\ i \in Working /\ run[i].pc = "write journal" /\ run'[i].pc = "write object"
            /\ run'[i].journal = run[i].journal /\ run'[i].id = run[i].id
        BY <1>1, <2>2, Moved DEF RunStep
      <3>2. run[i].journal = Marker("journal")
        BY <1>0, <3>1 DEF IInv, StillSees
      <3>3. run[i].journal # NoId => run[i].id = run[i].journal
        BY <1>0, <3>1 DEF WritesFresh
      <3>4. Marker("journal")' = run[i].id
        BY <1>1, <1>3, <2>2, <3>2, <3>3, Marked DEF Marker, Roles
      <3> QED
        BY <3>1, <3>4
    <2> QED
      BY <1>4, <2>1, <2>2, Moved DEF RunStep
  <1>8. PlacesDiffer'
    <2>1. CASE ~WriteFirst(i) /\ ~WriteSecond(i)
      BY <1>0, <2>1, Marked DEF PlacesDiffer
    <2>2. CASE WriteFirst(i) /\ run[i].journal = NoId
      <3>1. i \in Working /\ run[i].pc = "write journal"
        BY <1>1, <2>2, Moved DEF RunStep
      <3>2. \A r \in Roles, p \in Places : marker[r][p] # run[i].id
        BY <1>0, <2>2, <3>1 DEF WritesFresh
      <3>3. /\ run[i].id # NoId
            /\ \A r \in Roles, p \in Places :
                 marker'[r][p] = IF r = "journal" /\ p = mounted["journal"]
                                 THEN run[i].id ELSE marker[r][p]
        BY <2>2, Marked
      <3> QED
        BY <1>0, <3>2, <3>3 DEF PlacesDiffer
    <2>3. CASE WriteFirst(i) /\ run[i].journal # NoId
      <3>1. \A r \in Roles, p \in Places : marker'[r][p] = marker[r][p]
        BY <2>3, Marked
      <3> QED
        BY <1>0, <3>1 DEF PlacesDiffer
    <2>4. CASE WriteSecond(i)
      <3>1. i \in Working /\ run[i].pc = "write object"
        BY <1>1, <2>4, Moved DEF RunStep
      <3>2. Together /\ run[i].id = marker["journal"][mounted["object"]]
        BY <1>0, <3>1 DEF WritesFresh, MixedRefused, Marker, Together
      <3>3. /\ run[i].id # NoId
            /\ \A r \in Roles, p \in Places :
                 marker'[r][p] = IF r = "object" /\ p = mounted["object"]
                                 THEN run[i].id ELSE marker[r][p]
        BY <2>4, Marked
      <3>4. \A s \in Roles, q \in Places :
              q # mounted["object"] => marker[s][q] # run[i].id
        BY <1>0, <1>3, <3>2, <3>3 DEF PlacesDiffer, Roles
      <3> QED
        BY <1>0, <3>3, <3>4 DEF PlacesDiffer
    <2> QED
      BY <2>1, <2>2, <2>3, <2>4
  <1>9. KnowsMounts'
    <2>1. BothUsed => BothUsed'
      BY <1>1, <1>2 DEF BothUsed, Places
    <2>2. BeginRun(i) => BothUsed \/ \A r \in Roles : mounted[r] = "volume"
      BY DEF BeginRun, Checked, MountsChecked, BothUsed
    <2>3. RunStep(i) \/ Interrupted(i) =>
            BothUsed \/ \A r \in Roles : mounted[r] = "volume"
      BY <1>0, <1>1 DEF KnowsMounts
    <2> QED
      BY <1>1, <2>1, <2>2, <2>3 DEF KnowsMounts
  <1>10. MixedRefused'
    <2> SUFFICES ASSUME ~Together, i \in Working'
                 PROVE  /\ run'[i].pc = "object data" => run'[i].data
                        /\ run'[i].pc \notin {"write journal", "write object"}
      BY <1>1 DEF MixedRefused
    <2>0. ASSUME i \in Working
          PROVE  BothUsed
      <3>1. ~ \A r \in Roles : mounted[r] = "volume"
        BY DEF Together, Roles
      <3> QED
        BY <1>0, <2>0, <3>1 DEF KnowsMounts
    <2>a. ASSUME i \in Working, run[i].pc # "object marker"
          PROVE  /\ Marker("object") = NoId
                 /\ mounted["journal"] = "volume" /\ mounted["object"] = "mountpoint"
      <3>1. Marker("object") = NoId
        BY <1>0, <2>a DEF IInv, StillSees
      <3>2. mounted["object"] # "volume"
        BY <2>0, <2>a, <3>1 DEF BothUsed, Marker, Roles
      <3> QED
        BY <1>3, <3>1, <3>2 DEF Together, Places
    <2>1. CASE ReadJournalData(i)
      <3>1. i \in Working /\ run[i].pc = "journal data" /\ run'[i].pc = "object data"
        BY <1>1, <2>1, Moved DEF RunStep
      <3>2. HoldsData("journal")
        BY <2>0, <2>a, <3>1 DEF BothUsed, HoldsData, Roles
      <3>3. run'[i].data <=> HoldsData("journal")
        BY <1>3, <2>1 DEF ReadJournalData, RunState
      <3> QED
        BY <3>1, <3>2, <3>3
    <2>2. CASE ReadObjectData(i)
      <3>1. i \in Working /\ run[i].pc = "object data"
        BY <1>1, <2>2, Moved DEF RunStep
      <3>2. run[i].data
        BY <1>0, <3>1 DEF MixedRefused
      <3>3. ~HoldsData("object")
        BY <1>0, <2>a, <3>1 DEF StoreMarked, HoldsData, Marker
      <3>4. ~LooksComplete(i)
        BY <3>2, <3>3 DEF LooksComplete
      <3>5. run' = [run EXCEPT ![i].pc = "refused"]
        BY <2>2, <3>4 DEF ReadObjectData, Step
      <3>6. run'[i].pc = "refused"
        BY <1>3, <3>5 DEF RunState
      <3> QED
        BY <1>4, <3>6
    <2>3. CASE WriteFirst(i)
      BY <1>0, <1>1, <2>3, Moved DEF RunStep, MixedRefused
    <2> QED
      BY <1>4, <2>1, <2>2, <2>3, Moved DEF RunStep
  <1> QED
    BY <1>5, <1>6, <1>7, <1>8, <1>9, <1>10 DEF CheckedInv

(* The daemon's steps, mounts and stuttering                               *)

LEMMA ElsewhereKeepsChecked ==
  ASSUME TypeOK, IInv, CheckedInv, MountsChecked,
         DaemonStep \/ (\E r \in Roles : Remount(r)) \/ UNCHANGED vars
  PROVE  CheckedInv'
  <1>0. /\ RecordsBelow /\ PlacesDiffer /\ StoreMarked /\ ServesMarked
        /\ KnowsMounts /\ MixedRefused /\ WritesFresh /\ [Next]_vars
    BY DEF CheckedInv, Next
  <1>1. /\ UNCHANGED <<marker, run, operator>>
        /\ Working' = Working
    BY DEF DaemonStep, BeginCheck, EndCheck, StopDaemon, StoreObject, AppendRecord,
           Remount, vars, Working
  <1>2. /\ Working # {} \/ daemon.state # "down" => mounted' = mounted
        /\ \A r \in Roles, p \in Places : held[r][p] \subseteq held'[r][p]
    BY <1>0, Kept
  <1>3. mounted["journal"] \in Places /\ mounted["object"] \in Places
    BY DEF TypeOK, Roles
  <1>4. ASSUME NEW r \in Roles, NEW d, Holds(r, d)
        PROVE  \A q \in Roles, p \in Places :
                 held'[q][p] = IF q = r /\ p = mounted[r]
                               THEN held[q][p] \union {d} ELSE held[q][p]
    <2>1. held \in [Roles -> [Places -> SUBSET Deliveries]]
      BY DEF TypeOK
    <2>2. held' = [held EXCEPT ![r] = [held[r] EXCEPT ![mounted[r]] = @ \union {d}]]
      BY <1>4, <2>1 DEF Holds
    <2>3. ASSUME NEW q \in Roles, NEW p \in Places
          PROVE  held'[q][p] = IF q = r /\ p = mounted[r]
                               THEN held[q][p] \union {d} ELSE held[q][p]
      <3>1. CASE q = r
        <4>1. held'[q] = [held[r] EXCEPT ![mounted[r]] = @ \union {d}]
          BY <2>1, <2>2, <3>1
        <4>2. held[r] \in [Places -> SUBSET Deliveries]
          BY <2>1
        <4> QED
          BY <3>1, <4>1, <4>2
      <3>2. CASE q # r
        BY <2>1, <2>2, <3>2
      <3> QED
        BY <3>1, <3>2
    <2> QED
      BY <2>3
  <1>5. RecordsBelow' /\ StoreMarked'
    <2>1. ASSUME NEW d \in Deliveries, StoreObject(d) PROVE RecordsBelow' /\ StoreMarked'
      <3>1. /\ daemon.state = "up"
            /\ \A q \in Roles, p \in Places :
                 held'[q][p] = IF q = "object" /\ p = mounted["object"]
                               THEN held[q][p] \union {d} ELSE held[q][p]
        BY <1>4, <2>1 DEF StoreObject, Roles
      <3>2. marker["object"][mounted["object"]] # NoId
        BY <1>0, <3>1, ServesTogether DEF Marker
      <3> QED
        BY <1>0, <1>1, <3>1, <3>2 DEF RecordsBelow, StoreMarked, Roles, Places
    <2>2. ASSUME NEW d \in Deliveries, AppendRecord(d) PROVE RecordsBelow' /\ StoreMarked'
      <3>1. /\ daemon.state = "up" /\ d \in held["object"][mounted["object"]]
            /\ \A q \in Roles, p \in Places :
                 held'[q][p] = IF q = "journal" /\ p = mounted["journal"]
                               THEN held[q][p] \union {d} ELSE held[q][p]
        BY <1>4, <2>2 DEF AppendRecord, Roles
      <3>2. mounted["journal"] = mounted["object"]
        BY <1>0, <3>1, ServesTogether DEF Together
      <3> QED
        BY <1>0, <1>1, <3>1, <3>2 DEF RecordsBelow, StoreMarked, Roles, Places
    <2>3. CASE held' = held
      BY <1>0, <1>1, <2>3 DEF RecordsBelow, StoreMarked
    <2> QED
      BY <2>1, <2>2, <2>3
      DEF DaemonStep, BeginCheck, EndCheck, StopDaemon, Remount, vars
  <1>6. ServesMarked'
    <2>1. CASE BeginCheck
      BY <2>1 DEF BeginCheck, ServesMarked, Marker
    <2>2. CASE EndCheck
      BY <1>0, <2>2 DEF EndCheck, Accepts, ServesMarked, Marker
    <2>3. CASE StopDaemon
      BY <2>3 DEF StopDaemon, ServesMarked
    <2>4. CASE UNCHANGED daemon
      <3>1. daemon.state # "down" => \A r \in Roles : Marker(r)' = Marker(r)
        BY <1>1, <1>2 DEF Marker
      <3> QED
        BY <1>0, <2>4, <3>1 DEF ServesMarked, Roles
    <2> QED
      BY <2>1, <2>2, <2>3, <2>4 DEF DaemonStep, StoreObject, AppendRecord, Remount, vars
  <1>7. PlacesDiffer'
    BY <1>0, <1>1 DEF PlacesDiffer
  <1>8. KnowsMounts'
    <2>1. BothUsed => BothUsed'
      BY <1>1, <1>2 DEF BothUsed, Places
    <2> QED
      BY <1>0, <1>1, <1>2, <2>1 DEF KnowsMounts
  <1>9. MixedRefused'
    BY <1>0, <1>1, <1>2 DEF MixedRefused, Together
  <1>10. WritesFresh'
    BY <1>0, <1>1, <1>2 DEF WritesFresh, Marker
  <1> QED
    BY <1>5, <1>6, <1>7, <1>8, <1>9, <1>10 DEF CheckedInv

LEMMA StepCheckedInv == TypeOK /\ IInv /\ CheckedInv /\ [Next]_vars => CheckedInv'
  <1> SUFFICES ASSUME TypeOK, IInv, CheckedInv, [Next]_vars PROVE CheckedInv'
    OBVIOUS
  <1>1. CASE MountsChecked
    BY <1>1, RunKeepsChecked, ElsewhereKeepsChecked DEF Next
  <1>2. CASE ~MountsChecked
    BY <1>2, Kept DEF CheckedInv, MountsChecked, Serial
  <1> QED
    BY <1>1, <1>2

(* A daemon that serves has the objects of all the records it goes on      *)
(* from, whatever is unmounted or initialized: an operator who starts one  *)
(* run after the other need check the mounts only until both volumes are   *)
(* marked and hold mail, the markers and the comparison of the roots'      *)
(* data do the rest.                                                       *)
THEOREM CheckedVolumesServeCorrect == Spec => []CheckedVolumesServe
  <1>1. ASSUME TypeOK, CheckedInv PROVE CheckedVolumesServe
    <2> SUFFICES ASSUME MountsChecked, daemon.state = "up"
                 PROVE  held["journal"][mounted["journal"]]
                            \subseteq held["object"][mounted["object"]]
      BY DEF CheckedVolumesServe, MountsChecked, RecordsHaveObjects
    <2>1. Together
      BY <1>1, ServesTogether DEF CheckedInv
    <2>2. mounted["journal"] \in Places
      BY <1>1 DEF TypeOK, Roles
    <2> QED
      BY <1>1, <2>1, <2>2 DEF CheckedInv, RecordsBelow, Together
  <1>2. Spec => []CheckedInv
    BY InitTypeOK, TypeStep, InitIInv, StepIInv, InitCheckedInv, StepCheckedInv, PTL
    DEF Spec
  <1> QED
    BY <1>1, <1>2, TypeCorrect, PTL

-----------------------------------------------------------------------------
(* The catalog's schema and its migration, for any number of journal       *)
(* records, interrupted starts and materialization runs: which files a     *)
(* start can meet, and what a caller that keeps a catalog gets.            *)

-----------------------------------------------------------------------------
(* Types                                                                   *)

Layouts == {0, 3, 6, 7, 9}
Tables == [base : BOOLEAN, attributes : BOOLEAN, headers : Layouts, views : BOOLEAN,
           reachability : BOOLEAN, extractions : BOOLEAN, refreshState : BOOLEAN,
           items : BOOLEAN]
Checkpoints == Nat \cup {Absent}
Meta == [version : 1 .. Current \cup {Absent}, cp : Checkpoints]
Migrating == [at : {"migrating"}, cursor : 0 .. Current, cp : Checkpoints,
              asserted : BOOLEAN, available : BOOLEAN]
Reasons == {"journal", "checkpoint", "precondition", "no checkpoint", "incompatible"}
Resting == {Down, [at |-> "open"]} \cup [at : {"refused"}, why : Reasons]

MigrationTypeOK ==
  /\ tables \in Tables /\ meta \in Meta
  /\ rows \in [1 .. MaxRecords -> Layouts]
  /\ journal \in [n : 0 .. MaxRecords, torn : BOOLEAN, spanned : SUBSET (1 .. MaxRecords)]
  /\ startup \in Migrating \cup Resting

LEMMA TablesOfTyped ==
  ASSUME NEW v \in Nat
  PROVE  HeadersAt(v) \in Layouts /\ TablesOf(v) \in Tables
  BY DEF HeadersAt, Layouts, TablesOf, Tables

(* What each step does to the tables, field by field.                      *)
StepMakes(s, t, u) ==
  /\ u.base <=> t.base \/ s = 0
  /\ u.attributes <=> t.attributes \/ s = 1
  /\ u.views <=> t.views \/ s = 0 \/ s = 3
  /\ u.reachability <=> t.reachability \/ s = 7 \/ s = 11
  /\ u.extractions <=> t.extractions \/ s = 9
  /\ u.refreshState <=> t.refreshState \/ s = 10
  /\ u.items <=> t.items \/ s = 11 \/ (s = 0 /\ ~t.base)
  /\ u.headers = IF s = 2 /\ t.headers = 0 THEN 3
                 ELSE IF s = 5 /\ t.headers = 3 THEN 6
                 ELSE IF s = 6 THEN 7 ELSE IF s = 8 THEN 9 ELSE t.headers

(* Every step of the migration leaves tables of some layout.               *)
LEMMA MigrationStepTyped ==
  ASSUME NEW s \in 0 .. Current - 1, NEW t \in Tables
  PROVE  StepTables(s, t) \in Tables /\ StepMakes(s, t, StepTables(s, t))
  <1> USE DEF StepMakes, Tables, Layouts
  <1>1. CASE s = 0
    <2> DEFINE u == [t EXCEPT !.base = TRUE]
    <2> DEFINE v == [u EXCEPT !.views = TRUE]
    <2> DEFINE b == IF t.base THEN t.items ELSE TRUE
    <2>0. b \in BOOLEAN /\ (b <=> t.items \/ ~t.base)
      OBVIOUS
    <2>1. StepTables(s, t) = [v EXCEPT !.items = b]
      BY <1>1 DEF StepTables, Bootstrapped
    <2> HIDE DEF b
    <2>2. u \in Tables
      OBVIOUS
    <2>3. /\ u.base /\ u.headers = t.headers /\ (u.attributes <=> t.attributes)
          /\ (u.reachability <=> t.reachability) /\ (u.extractions <=> t.extractions)
          /\ (u.refreshState <=> t.refreshState)
      OBVIOUS
    <2> HIDE DEF u
    <2>4. v \in Tables
      BY <2>2
    <2>5. /\ v.base /\ v.views /\ v.headers = t.headers /\ (v.attributes <=> t.attributes)
          /\ (v.reachability <=> t.reachability) /\ (v.extractions <=> t.extractions)
          /\ (v.refreshState <=> t.refreshState)
      BY <2>2, <2>3
    <2> HIDE DEF v
    <2>6. StepTables(s, t) \in Tables
      BY <2>0, <2>1, <2>4
    <2> QED
      BY <1>1, <2>0, <2>1, <2>4, <2>5, <2>6
  <1>2. CASE s = 1
    <2>1. StepTables(s, t) = [t EXCEPT !.attributes = TRUE]
      BY <1>2 DEF StepTables
    <2>2. StepTables(s, t) \in Tables
      BY <2>1
    <2> QED
      BY <2>2, <1>2, <2>1
  <1>3. CASE s = 2
    <2>1. StepTables(s, t) = [t EXCEPT !.headers = IF t.headers = 0 THEN 3 ELSE t.headers]
      BY <1>3 DEF StepTables, WithHeadersV3
    <2>2. StepTables(s, t) \in Tables
      BY <2>1
    <2> QED
      BY <2>2, <1>3, <2>1
  <1>4. CASE s = 3
    <2>1. StepTables(s, t) = [t EXCEPT !.views = TRUE]
      BY <1>4 DEF StepTables
    <2>2. StepTables(s, t) \in Tables
      BY <2>1
    <2> QED
      BY <2>2, <1>4, <2>1
  <1>5. CASE s = 4
    BY <1>5 DEF StepTables
  <1>6. CASE s \in {5, 6, 8}
    <2>1. StepTables(s, t) =
            [t EXCEPT !.headers = IF s = 5 THEN IF t.headers = 3 THEN 6 ELSE t.headers
                                  ELSE IF s = 6 THEN 7 ELSE 9]
      BY <1>6 DEF StepTables
    <2>2. StepTables(s, t) \in Tables
      BY <2>1
    <2> QED
      BY <2>2, <1>6, <2>1
  <1>7. CASE s = 7
    <2>1. StepTables(s, t) = [t EXCEPT !.reachability = TRUE]
      BY <1>7 DEF StepTables
    <2>2. StepTables(s, t) \in Tables
      BY <2>1
    <2> QED
      BY <2>2, <1>7, <2>1
  <1>8. CASE s = 9
    <2>1. StepTables(s, t) = [t EXCEPT !.extractions = TRUE]
      BY <1>8 DEF StepTables
    <2>2. StepTables(s, t) \in Tables
      BY <2>1
    <2> QED
      BY <2>2, <1>8, <2>1
  <1>9. CASE s = 10
    <2>1. StepTables(s, t) = [t EXCEPT !.refreshState = TRUE]
      BY <1>9 DEF StepTables
    <2>2. StepTables(s, t) \in Tables
      BY <2>1
    <2> QED
      BY <2>2, <1>9, <2>1
  <1>10. CASE s = 11
    <2> DEFINE u == [t EXCEPT !.items = TRUE]
    <2>1. StepTables(s, t) = [u EXCEPT !.reachability = TRUE]
      BY <1>10 DEF StepTables
    <2>2. u \in Tables
      OBVIOUS
    <2>3. /\ u.items /\ u.headers = t.headers /\ (u.base <=> t.base) /\ (u.views <=> t.views)
          /\ (u.attributes <=> t.attributes) /\ (u.extractions <=> t.extractions)
          /\ (u.refreshState <=> t.refreshState)
      OBVIOUS
    <2> HIDE DEF u
    <2>4. StepTables(s, t) \in Tables
      BY <2>1, <2>2
    <2> QED
      BY <1>10, <2>1, <2>2, <2>3, <2>4
  <1> QED
    BY <1>1, <1>2, <1>3, <1>4, <1>5, <1>6, <1>7, <1>8, <1>9, <1>10 DEF Current

(* What a migrating daemon has in memory.                                  *)
LEMMA AtMigrating ==
  ASSUME startup \in Migrating \cup Resting, startup.at = "migrating"
  PROVE  startup \in Migrating
  BY DEF Resting, Down

LEMMA RefusedTyped ==
  ASSUME NEW why \in Reasons
  PROVE  Refused(why) \in Resting
  BY DEF Refused, Resting

(* A migration step either refuses to go on and leaves the file alone, or  *)
(* changes the tables and moves on.                                        *)
Blocked(s) == RequiresCheckpoint(s) /\ ~(startup.asserted /\ startup.available)
Goes(s) ==
  /\ ~Blocked(s) /\ StepFits(s, tables) /\ tables' = StepTables(s, tables)
  /\ startup' \in Migrating /\ startup'.cursor = s + 1
  /\ startup'.asserted = startup.asserted /\ startup'.available = startup.available
  /\ startup'.cp = IF Preserves(s) THEN startup.cp ELSE Absent

LEMMA StepGoesOrRefuses ==
  ASSUME MigrationTypeOK, MigrationStep
  PROVE  /\ startup \in Migrating /\ startup.cursor \in 0 .. Current - 1
         /\ UNCHANGED <<rows, meta, journal, interrupted>>
         /\ \/ Goes(startup.cursor)
            \/ /\ tables' = tables /\ startup' \in Resting /\ startup'.at = "refused"
               /\ \/ Blocked(startup.cursor) /\ startup'.why # "incompatible"
                  \/ ~StepFits(startup.cursor, tables)
  <1>1. startup \in Migrating
    BY AtMigrating DEF MigrationStep, MigrationTypeOK
  <1> DEFINE s == startup.cursor
  <1>2. s \in 0 .. Current - 1
    <2>1. startup.cursor < Current
      BY DEF MigrationStep
    <2>2. startup.cursor \in 0 .. Current
      BY <1>1 DEF Migrating
    <2> QED
      BY <2>1, <2>2 DEF Current
  <1>3. UNCHANGED <<rows, meta, journal, interrupted>>
    BY DEF MigrationStep
  <1>4. \/ Blocked(s) /\ startup' \in {Refused("precondition"), Refused("no checkpoint")}
           /\ tables' = tables
        \/ ~StepFits(s, tables) /\ startup' = Refused("incompatible") /\ tables' = tables
        \/ /\ ~Blocked(s) /\ StepFits(s, tables) /\ tables' = StepTables(s, tables)
           /\ startup' = [startup EXCEPT !.cursor = s + 1,
                                       !.cp = IF Preserves(s) THEN startup.cp ELSE Absent]
    BY <1>1 DEF MigrationStep, Blocked, Migrating
  <1>5. \A why \in Reasons : Refused(why) \in Resting /\ Refused(why).why = why
    BY RefusedTyped DEF Refused
  <1>6. ASSUME startup' = [startup EXCEPT !.cursor = s + 1,
                                        !.cp = IF Preserves(s) THEN startup.cp ELSE Absent]
        PROVE  /\ startup' \in Migrating /\ startup'.cursor = s + 1
               /\ startup'.asserted = startup.asserted /\ startup'.available = startup.available
               /\ startup'.cp = IF Preserves(s) THEN startup.cp ELSE Absent
    <2> DEFINE moved == [startup EXCEPT !.cursor = s + 1]
    <2> DEFINE cp == IF Preserves(s) THEN startup.cp ELSE Absent
    <2>1. s + 1 \in 0 .. Current /\ cp \in Checkpoints
      BY <1>1, <1>2 DEF Current, Migrating, Checkpoints
    <2> HIDE DEF cp
    <2>2. /\ moved \in Migrating /\ moved.cursor = s + 1
          /\ moved.asserted = startup.asserted /\ moved.available = startup.available
      BY <1>1, <2>1 DEF Migrating
    <2>3. startup' = [moved EXCEPT !.cp = cp]
      BY <1>6 DEF cp
    <2> HIDE DEF moved
    <2>4. /\ startup' \in Migrating /\ startup'.cursor = s + 1 /\ startup'.cp = cp
          /\ startup'.asserted = startup.asserted /\ startup'.available = startup.available
      BY <2>1, <2>2, <2>3 DEF Migrating
    <2> QED
      BY <2>4 DEF cp
  <1> HIDE DEF s
  <1>7. /\ Refused("precondition") \in Resting /\ Refused("precondition").why # "incompatible"
        /\ Refused("no checkpoint") \in Resting /\ Refused("no checkpoint").why # "incompatible"
        /\ Refused("incompatible") \in Resting
        /\ \A why \in Reasons : Refused(why).at = "refused"
    BY <1>5 DEF Reasons, Refused
  <1> QED
    BY <1>1, <1>2, <1>3, <1>4, <1>6, <1>7 DEF Goes, Reasons, s

(* Every component of the state keeps its type, for any number of records, *)
(* interrupted starts and runs.                                            *)
THEOREM MigrationTypeCorrect == CatalogSpec => []MigrationTypeOK
  <1>1. CatalogInit => MigrationTypeOK
    <2> SUFFICES ASSUME CatalogInit PROVE MigrationTypeOK
      OBVIOUS
    <2>1. tables \in Tables
      <3>1. NoTables \in Tables
        BY DEF NoTables, Tables, Layouts
      <3> QED
        BY <3>1, TablesOfTyped DEF CatalogInit, Current
    <2>2. rows \in [1 .. MaxRecords -> Layouts]
      <3>1. ASSUME NEW v \in Nat, NEW k PROVE InitialRows(v, k) \in [1 .. MaxRecords -> Layouts]
        BY TablesOfTyped DEF InitialRows, Layouts
      <3> QED
        BY <3>1 DEF CatalogInit, Current
    <2>3. meta \in Meta
      <3>1. NoMeta \in Meta
        BY DEF NoMeta, Meta, Checkpoints
      <3>2. ASSUME NEW v \in 1 .. Current, NEW cp \in Checkpoints
            PROVE  [version |-> v, cp |-> cp] \in Meta
        BY DEF Meta
      <3>3. \A k \in 0 .. MaxRecords - 1 : {Absent} \cup 1 .. k \subseteq Checkpoints
        BY DEF Checkpoints
      <3> QED
        BY <3>1, <3>2, <3>3 DEF CatalogInit
    <2>4. journal \in [n : 0 .. MaxRecords, torn : BOOLEAN, spanned : SUBSET (1 .. MaxRecords)]
      BY RecordsAssumption DEF CatalogInit
    <2> QED
      BY <2>1, <2>2, <2>3, <2>4 DEF CatalogInit, MigrationTypeOK, Resting
  <1>2. ASSUME MigrationTypeOK, [CatalogNext]_catalogVars
        PROVE  MigrationTypeOK'
    <2>0. MigrationTypeOK
      BY <1>2
    <2> USE <2>0 DEF MigrationTypeOK
    <2>1. ASSUME NEW asserted \in BOOLEAN, Start(asserted) PROVE MigrationTypeOK'
      <3>1. Prepared(asserted) \in Migrating
        BY DEF Prepared, Migrating, Source, Meta, Current
      <3>2. Refused("journal") \in Resting /\ Refused("checkpoint") \in Resting
        BY RefusedTyped DEF Reasons
      <3> QED
        BY <2>1, <3>1, <3>2 DEF Start
    <2>2. CASE MigrationStep
      <3>1. tables' \in Tables
        BY <2>2, StepGoesOrRefuses, MigrationStepTyped DEF Goes
      <3>2. startup' \in Migrating \cup Resting
        BY <2>2, StepGoesOrRefuses DEF Goes
      <3> QED
        BY <2>2, <3>1, <3>2 DEF MigrationStep
    <2>3. CASE Save
      <3>1. startup \in Migrating
        BY <2>3, AtMigrating DEF Save
      <3>2. SavedMeta \in Meta
        BY <3>1 DEF SavedMeta, Meta, Migrating, Current
      <3> QED
        BY <2>3, <3>2 DEF Save, Resting
    <2>4. CASE Deliver
      <3>1. journal.n + 1 \in 0 .. MaxRecords
        BY <2>4, RecordsAssumption DEF Deliver
      <3>2. journal' = [journal EXCEPT !.n = journal.n + 1]
        BY <2>4 DEF Deliver
      <3>3. journal' \in [n : 0 .. MaxRecords, torn : BOOLEAN, spanned : SUBSET (1 .. MaxRecords)]
        BY <3>1, <3>2
      <3> QED
        BY <2>4, <3>3 DEF Deliver
    <2>5. CASE CatchUp
      <3>1. PICK r \in Records : /\ rows' = [rows EXCEPT ![r] = tables.headers]
                                 /\ meta' = [meta EXCEPT !.cp = r]
        BY <2>5 DEF CatchUp
      <3>2. rows' \in [1 .. MaxRecords -> Layouts]
        BY <3>1 DEF Tables
      <3>3. meta' \in Meta
        BY <3>1 DEF Meta, Checkpoints, Records
      <3> QED
        BY <2>5, <3>2, <3>3 DEF CatchUp
    <2>6. CASE Stop \/ Crash
      BY <2>6 DEF Stop, Crash, Resting
    <2>7. CASE Rebuild
      <3>1. NoTables \in Tables /\ NoMeta \in Meta
        BY DEF NoTables, Tables, Layouts, NoMeta, Meta, Checkpoints
      <3>2. InitialRows(0, 0) \in [1 .. MaxRecords -> Layouts]
        BY TablesOfTyped DEF InitialRows, Layouts
      <3> QED
        BY <2>7, <3>1, <3>2 DEF Rebuild
    <2>8. ASSUME NEW id \in RunIds, SaveManifest(id) \/ SaveChecksum(id) PROVE MigrationTypeOK'
      BY <2>8 DEF SaveManifest, SaveChecksum
    <2>9. CASE UNCHANGED catalogVars
      BY <2>9 DEF catalogVars
    <2> QED
      BY <1>2, <2>1, <2>2, <2>3, <2>4, <2>5, <2>6, <2>7, <2>8, <2>9 DEF CatalogNext
  <1> QED
    BY <1>1, <1>2, PTL DEF CatalogSpec

-----------------------------------------------------------------------------
(* What a start finds                                                      *)

(* Tables from which every step from c on fits.                            *)
Ready(t, c) ==
  /\ c <= 2 => t.headers \in {0, 3}
  /\ c \in 3 .. 5 => t.headers = 3
  /\ c = 6 => t.headers = 6
  /\ c \in 7 .. 8 => t.headers = 7
  /\ c >= 9 => t.headers = 9
  /\ c >= 4 => t.views

(* The file fits its version, and a migration that cannot be refused       *)
(* midway, for want of a checkpoint, is the only one to leave it.          *)
FitsInv ==
  ~interrupted =>
    /\ startup.at # "migrating" => Ready(tables, Source)
    /\ startup.at = "migrating" =>
         /\ Ready(tables, startup.cursor)
         /\ startup.cursor = Source \/ ~(startup.asserted /\ startup.available)
              => Ready(tables, Source)
    /\ startup.at = "refused" => startup.why # "incompatible"

(* What the steps below c have made, whatever interrupted them.            *)
Made(t, c) ==
  /\ c >= 1 => t.base
  /\ c >= 2 => t.attributes
  /\ c >= 4 => t.views
  /\ c >= 8 => t.reachability
  /\ c >= 9 => t.headers = 9
  /\ c >= 10 => t.extractions
  /\ c >= 11 => t.refreshState
  /\ c >= 12 => t.items

(* The file holds at least what its version promises, and a checkpoint is  *)
(* kept only across steps that leave the rows before it alone.             *)
MadeInv ==
  /\ Made(tables, Source)
  /\ startup.at = "migrating" =>
       /\ startup.cursor >= Source /\ Made(tables, startup.cursor)
       /\ startup.cp \in {meta.cp, Absent}
       /\ startup.cursor >= 9 /\ Source <= 8 => startup.cp = Absent
  /\ startup.at = "open" => meta.version = Current
  /\ Source >= 9 /\ meta.cp # Absent => \A r \in 1 .. meta.cp : rows[r] = 9

LEMMA SourceTyped ==
  ASSUME MigrationTypeOK
  PROVE  Source \in 0 .. Current
  BY DEF MigrationTypeOK, Meta, Source, Current

(* An earlier release left tables that fit and that hold what it promised. *)
LEMMA ReleasesFit ==
  ASSUME NEW v \in 1 .. Current
  PROVE  Ready(TablesOf(v), v) /\ Made(TablesOf(v), v)
  <1>1. /\ v <= 2 => HeadersAt(v) = 0
        /\ v \in 3 .. 5 => HeadersAt(v) = 3
        /\ v = 6 => HeadersAt(v) = 6
        /\ v \in 7 .. 8 => HeadersAt(v) = 7
        /\ v >= 9 => HeadersAt(v) = 9
    BY DEF HeadersAt, Current
  <1>2. /\ TablesOf(v).base <=> v >= 1
        /\ TablesOf(v).attributes <=> v >= 2
        /\ TablesOf(v).views <=> v >= 4
        /\ TablesOf(v).reachability <=> v >= 8
        /\ TablesOf(v).extractions <=> v >= 10
        /\ TablesOf(v).refreshState <=> v >= 11
        /\ TablesOf(v).items <=> v >= 12
        /\ TablesOf(v).headers = HeadersAt(v)
    BY DEF TablesOf
  <1> QED
    BY <1>1, <1>2 DEF Ready, Made, Current

(* An empty file is one from which the migration starts at version 0.      *)
LEMMA NewFileFits == Ready(NoTables, 0) /\ Made(NoTables, 0)
  BY DEF Ready, Made, NoTables

(* Tables from which a step fits are, behind it, tables from which the     *)
(* next one fits.                                                          *)
LEMMA StepsFollow ==
  ASSUME NEW s \in 0 .. Current - 1, NEW t \in Tables, Ready(t, s)
  PROVE  StepFits(s, t) /\ Ready(StepTables(s, t), s + 1)
  <1>1. StepMakes(s, t, StepTables(s, t)) /\ StepTables(s, t).headers \in Layouts
    BY MigrationStepTyped DEF Tables
  <1>2. StepFits(s, t)
    <2>1. CASE s = 2
      <3>1. WithHeadersV3(t) = [t EXCEPT !.headers = 3]
        BY <2>1 DEF Ready, WithHeadersV3
      <3> QED
        BY <2>1, <3>1 DEF StepFits, Tables
    <2>2. CASE s # 2
      BY <2>2 DEF Ready, StepFits, SenderDomainFits, DateFits, SpansFit, Current
    <2> QED
      BY <2>1, <2>2
  <1>3. Ready(StepTables(s, t), s + 1)
    BY <1>1 DEF Ready, StepMakes, Current
  <1> QED
    BY <1>2, <1>3

(* A step that needs no checkpoint leaves the file as fit for a new start  *)
(* as it was.                                                              *)
LEMMA EasyStepsKeep ==
  ASSUME NEW s \in 0 .. Current - 1, NEW c \in 0 .. s, NEW t \in Tables,
         Ready(t, c), ~RequiresCheckpoint(s)
  PROVE  Ready(StepTables(s, t), c)
  <1>1. StepMakes(s, t, StepTables(s, t))
    BY MigrationStepTyped
  <1> QED
    BY <1>1 DEF Ready, StepMakes, RequiresCheckpoint, Current

(* Steps take nothing away.                                                *)
LEMMA StepsMake ==
  ASSUME NEW s \in 0 .. Current - 1, NEW t \in Tables
  PROVE  /\ Made(t, s) => Made(StepTables(s, t), s + 1)
         /\ \A c \in 0 .. s : Made(t, c) => Made(StepTables(s, t), c)
  <1>1. StepMakes(s, t, StepTables(s, t))
    BY MigrationStepTyped
  <1>2. Made(t, s) => Made(StepTables(s, t), s + 1)
    BY <1>1 DEF Made, StepMakes, Current
  <1>3. ASSUME NEW c \in 0 .. s, Made(t, c) PROVE Made(StepTables(s, t), c)
    BY <1>1, <1>3 DEF Made, StepMakes, Current
  <1> QED
    BY <1>2, <1>3

-----------------------------------------------------------------------------
(* Every step keeps the file fit for the next start.                       *)

LEMMA FitsKept ==
  ASSUME MigrationTypeOK, MadeInv, FitsInv, [CatalogNext]_catalogVars
  PROVE  FitsInv'
  <1> USE DEF FitsInv
  <1>0. Source \in 0 .. Current
    BY SourceTyped
  <1>1. ASSUME NEW asserted \in BOOLEAN, Start(asserted) PROVE FitsInv'
    <2>1. /\ startup.at = "down" /\ tables' = tables /\ Source' = Source
          /\ interrupted' = interrupted
      BY <1>1 DEF Start, Source
    <2>2. \/ startup'.at = "refused" /\ startup'.why # "incompatible"
          \/ startup'.at = "migrating" /\ startup'.cursor = Source
      BY <1>1 DEF Start, Refused, Prepared
    <2> QED
      BY <2>1, <2>2
  <1>2. CASE MigrationStep
    <2>1. /\ startup \in Migrating /\ startup.cursor \in 0 .. Current - 1 /\ startup.at = "migrating"
          /\ tables \in Tables
      BY <1>2, StepGoesOrRefuses DEF MigrationTypeOK, Migrating
    <2>2. Source' = Source /\ interrupted' = interrupted /\ startup.cursor >= Source
      BY <1>2, <2>1, StepGoesOrRefuses DEF Source, MadeInv
    <2>3. ASSUME ~interrupted, Goes(startup.cursor) PROVE FitsInv'
      <3>1. Ready(tables, startup.cursor)
        BY <2>1, <2>3
      <3>2. Ready(tables', startup'.cursor)
        BY <2>1, <2>3, <3>1, StepsFollow DEF Goes
      <3>3. ASSUME startup'.cursor = Source \/ ~(startup'.asserted /\ startup'.available)
            PROVE  Ready(tables', Source)
        <4>1. startup'.cursor # Source /\ startup.cursor \in 0 .. Current - 1 /\ Source \in 0 .. startup.cursor
          BY <1>0, <2>1, <2>2, <2>3 DEF Goes, Current
        <4>2. Ready(tables, Source) /\ ~RequiresCheckpoint(startup.cursor)
          BY <2>1, <2>3, <3>3, <4>1 DEF Goes, Blocked
        <4> QED
          BY <2>1, <2>3, <4>1, <4>2, EasyStepsKeep DEF Goes
      <3>4. startup'.at = "migrating"
        BY <2>3 DEF Goes, Migrating
      <3> QED
        BY <2>2, <3>2, <3>3, <3>4
    <2>4. ASSUME ~interrupted, ~Goes(startup.cursor) PROVE FitsInv'
      <3>1. StepFits(startup.cursor, tables)
        BY <2>1, <2>4, StepsFollow
      <3>2. /\ tables' = tables /\ startup' \in Resting
            /\ Blocked(startup.cursor) /\ startup'.why # "incompatible"
        BY <1>2, <2>4, <3>1, StepGoesOrRefuses
      <3>3. Ready(tables, Source) /\ startup'.at # "migrating"
        BY <2>1, <2>4, <3>2 DEF Blocked, Resting, Down
      <3> QED
        BY <2>2, <3>2, <3>3
    <2> QED
      BY <2>2, <2>3, <2>4
  <1>3. CASE Save
    <2>1. /\ startup.at = "migrating" /\ startup.cursor = Current /\ startup'.at = "open"
          /\ meta'.version = Current /\ tables' = tables /\ interrupted' = interrupted
      BY <1>3 DEF Save, SavedMeta
    <2>2. Source' = Current
      BY <2>1, RecordsAssumption DEF Source, Current
    <2> QED
      BY <2>1, <2>2
  <1>4. CASE Deliver
    BY <1>4 DEF Deliver, Source
  <1>5. CASE CatchUp
    <2>1. startup.at = "open" /\ UNCHANGED <<tables, startup, interrupted>> /\ meta'.version = meta.version
      BY <1>5 DEF CatchUp, MigrationTypeOK, Meta
    <2> QED
      BY <2>1 DEF Source
  <1>6. CASE Stop
    BY <1>6 DEF Stop, Down, Source
  <1>7. CASE Crash
    <2>1. /\ UNCHANGED <<tables, meta>> /\ startup'.at = "down" /\ startup.at \in {"migrating", "open"}
          /\ interrupted' <=> interrupted \/ (startup.at = "migrating" /\ startup.cursor > Source)
      BY <1>7 DEF Crash, Down
    <2>2. startup.at = "migrating" => startup.cursor \in 0 .. Current /\ startup.cursor >= Source
      BY AtMigrating DEF MadeInv, MigrationTypeOK, Migrating
    <2>3. Source' = Source
      BY <2>1 DEF Source
    <2>4. ~interrupted' => ~interrupted /\ (startup.at = "open" \/ startup.cursor = Source)
      BY <1>0, <2>1, <2>2 DEF Current
    <2> QED
      BY <2>1, <2>3, <2>4
  <1>8. CASE Rebuild
    <2>1. startup.at = "down" /\ startup' = startup /\ tables' = NoTables /\ Source' = 0
      BY <1>8 DEF Rebuild, NoMeta, Source
    <2> QED
      BY <2>1, NewFileFits
  <1>9. ASSUME NEW id \in RunIds, SaveManifest(id) \/ SaveChecksum(id) PROVE FitsInv'
    BY <1>9 DEF SaveManifest, SaveChecksum, Source
  <1>10. CASE UNCHANGED catalogVars
    BY <1>10 DEF catalogVars, Source
  <1> QED
    BY <1>1, <1>2, <1>3, <1>4, <1>5, <1>6, <1>7, <1>8, <1>9, <1>10 DEF CatalogNext

(* Every step leaves in place what the version and the migration promise.  *)
LEMMA MadeKept ==
  ASSUME MigrationTypeOK, MadeInv, [CatalogNext]_catalogVars
  PROVE  MadeInv'
  <1> USE DEF MadeInv
  <1>0. Source \in 0 .. Current
    BY SourceTyped
  <1>1. ASSUME NEW asserted \in BOOLEAN, Start(asserted) PROVE MadeInv'
    <2>1. UNCHANGED <<tables, meta, rows>> /\ Source' = Source
      BY <1>1 DEF Start, Source
    <2>2. \/ startup'.at = "refused"
          \/ startup'.at = "migrating" /\ startup'.cursor = Source /\ startup'.cp = meta.cp
      BY <1>1 DEF Start, Refused, Prepared
    <2> QED
      BY <1>0, <2>1, <2>2 DEF Current
  <1>2. CASE MigrationStep
    <2>1. /\ startup \in Migrating /\ startup.cursor \in 0 .. Current - 1 /\ startup.at = "migrating"
          /\ tables \in Tables
      BY <1>2, StepGoesOrRefuses DEF MigrationTypeOK, Migrating
    <2>2. Source' = Source /\ UNCHANGED <<meta, rows>> /\ Source \in 0 .. startup.cursor
      BY <1>0, <1>2, <2>1, StepGoesOrRefuses DEF Source, Current
    <2>3. CASE Goes(startup.cursor)
      <3>1. Made(tables', Source) /\ Made(tables', startup'.cursor)
        BY <2>1, <2>2, <2>3, StepsMake DEF Goes
      <3>2. startup'.at = "migrating" /\ startup'.cursor >= Source /\ startup'.cp \in {meta.cp, Absent}
        BY <2>1, <2>2, <2>3 DEF Goes, Migrating, Current
      <3>3. startup'.cursor >= 9 /\ Source <= 8 => startup'.cp = Absent
        BY <1>0, <2>1, <2>2, <2>3 DEF Goes, Preserves, Current
      <3> QED
        BY <2>2, <3>1, <3>2, <3>3
    <2>4. CASE tables' = tables /\ startup'.at = "refused"
      BY <2>2, <2>4
    <2> QED
      BY <1>2, <2>3, <2>4, StepGoesOrRefuses
  <1>3. CASE Save
    <2>1. /\ startup.at = "migrating" /\ startup.cursor = Current /\ startup'.at = "open"
          /\ meta'.version = Current /\ meta'.cp = startup.cp /\ UNCHANGED <<tables, rows>>
      BY <1>3 DEF Save, SavedMeta
    <2>2. Source' = Current
      BY <2>1, RecordsAssumption DEF Source, Current
    <2>3. startup.cp # Absent => Source >= 9 /\ startup.cp = meta.cp
      BY <1>0, <2>1 DEF Current
    <2> QED
      BY <2>1, <2>2, <2>3
  <1>4. CASE Deliver
    BY <1>4 DEF Deliver, Source
  <1>5. CASE CatchUp
    <2>1. PICK r \in Records : /\ r = After(meta.cp) + 1
                               /\ rows' = [rows EXCEPT ![r] = tables.headers]
                               /\ meta' = [meta EXCEPT !.cp = r]
      BY <1>5 DEF CatchUp
    <2>2. startup.at = "open" /\ UNCHANGED <<tables, startup>>
      BY <1>5 DEF CatchUp
    <2>3. meta'.version = meta.version /\ meta'.cp = r /\ Source' = Source /\ Source = Current
      BY <2>1, <2>2, RecordsAssumption DEF Source, MigrationTypeOK, Meta, Current
    <2>4. tables.headers = 9
      BY <2>3 DEF Made, Current
    <2>5. ASSUME NEW q \in 1 .. r PROVE rows'[q] = 9
      <3>1. q \in 1 .. MaxRecords /\ r \in 1 .. MaxRecords
        BY <2>1, RecordsAssumption DEF Records, MigrationTypeOK
      <3>2. q = r \/ (meta.cp # Absent /\ q \in 1 .. meta.cp)
        BY <2>1 DEF After, Records, MigrationTypeOK, Meta, Checkpoints
      <3> QED
        BY <2>1, <2>3, <2>4, <3>1, <3>2 DEF MigrationTypeOK, Current
    <2> QED
      BY <2>2, <2>3, <2>5
  <1>6. CASE Stop \/ Crash
    BY <1>6 DEF Stop, Crash, Down, Source
  <1>7. CASE Rebuild
    <2>1. startup.at = "down" /\ startup' = startup /\ tables' = NoTables /\ Source' = 0
      BY <1>7 DEF Rebuild, NoMeta, Source
    <2> QED
      BY <2>1, NewFileFits
  <1>8. ASSUME NEW id \in RunIds, SaveManifest(id) \/ SaveChecksum(id) PROVE MadeInv'
    BY <1>8 DEF SaveManifest, SaveChecksum, Source
  <1>9. CASE UNCHANGED catalogVars
    BY <1>9 DEF catalogVars, Source
  <1> QED
    BY <1>1, <1>2, <1>3, <1>4, <1>5, <1>6, <1>7, <1>8, <1>9 DEF CatalogNext

-----------------------------------------------------------------------------
(* Results                                                                 *)

(* Neither part alone is kept by every step: what a step meets depends on  *)
(* what the steps before it made.                                          *)
CatalogIInv == MadeInv /\ FitsInv

LEMMA Invariance == CatalogSpec => []CatalogIInv
  <1>1. CatalogInit => CatalogIInv
    <2> SUFFICES ASSUME CatalogInit PROVE CatalogIInv
      OBVIOUS
    <2>1. startup.at = "down"
      BY DEF CatalogInit, Down
    <2>2. CASE tables = NoTables /\ meta = NoMeta
      <3>1. Source = 0
        BY <2>2 DEF Source, NoMeta
      <3> QED
        BY <2>1, <2>2, <3>1, NewFileFits DEF CatalogIInv, MadeInv, FitsInv
    <2>3. ASSUME NEW v \in 1 .. Current, NEW k \in 0 .. MaxRecords - 1, NEW cp \in {Absent} \cup 1 .. k,
                 tables = TablesOf(v), meta = [version |-> v, cp |-> cp],
                 rows = InitialRows(v, IF cp = Absent THEN 0 ELSE cp)
          PROVE  CatalogIInv
      <3>1. Source = v
        BY <2>3, RecordsAssumption DEF Source, Current
      <3>2. ASSUME v >= 9, cp # Absent, NEW r \in 1 .. cp PROVE rows[r] = 9
        <4>1. r \in 1 .. MaxRecords /\ r <= cp
          BY <2>3, <3>2, RecordsAssumption
        <4>2. HeadersAt(v) = 9
          BY <3>2 DEF HeadersAt, Current
        <4> QED
          BY <2>3, <3>2, <4>1, <4>2 DEF InitialRows
      <3> QED
        BY <2>1, <2>3, <3>1, <3>2, ReleasesFit DEF CatalogIInv, MadeInv, FitsInv
    <2> QED
      BY <2>2, <2>3 DEF CatalogInit
  <1>2. ASSUME MigrationTypeOK, CatalogIInv, [CatalogNext]_catalogVars PROVE CatalogIInv'
    BY <1>2, MadeKept, FitsKept DEF CatalogIInv
  <1> QED
    BY <1>1, <1>2, MigrationTypeCorrect, PTL DEF CatalogSpec

(* No catalog is refused for what an earlier release, or a migration that  *)
(* ran to its end or was refused for want of a checkpoint, made of its     *)
(* tables: every step of the migration fits the tables it meets, at any    *)
(* version, until a start dies halfway.                                    *)
THEOREM RefusedOnlyAfterInterruptionCorrect == CatalogSpec => []RefusedOnlyAfterInterruption
  <1>1. CatalogIInv => RefusedOnlyAfterInterruption
    BY DEF CatalogIInv, FitsInv, RefusedOnlyAfterInterruption
  <1> QED
    BY <1>1, Invariance, PTL

(* A caller that keeps a catalog as it is has complete tables, and no row  *)
(* below the checkpoint that a migration left unfilled, although crashes   *)
(* may leave the tables ahead of the version and rows behind the tables.   *)
THEOREM UsedAsIsIsCompleteCorrect == CatalogSpec => []UsedAsIsIsComplete
  <1>1. ASSUME MigrationTypeOK, CatalogIInv, Decision = "use"
        PROVE  tables = TablesOf(Current) /\ \A r \in 1 .. meta.cp : rows[r] = tables.headers
    <2>1. meta.cp # Absent /\ meta.version = Current
      BY <1>1 DEF Decision
    <2>2. Source = Current
      BY <2>1, RecordsAssumption DEF Source, Current
    <2>3. /\ tables.base /\ tables.attributes /\ tables.headers = 9 /\ tables.views
          /\ tables.reachability /\ tables.extractions /\ tables.refreshState /\ tables.items
      BY <1>1, <2>2 DEF CatalogIInv, MadeInv, Made, Current
    <2>4. HeadersAt(Current) = 9
      BY DEF HeadersAt, Current
    <2>5. TablesOf(Current) = [base |-> TRUE, attributes |-> TRUE, headers |-> 9, views |-> TRUE,
                               reachability |-> TRUE, extractions |-> TRUE, refreshState |-> TRUE,
                               items |-> TRUE]
      <3>1. /\ (12 >= 1) = TRUE /\ (12 >= 2) = TRUE /\ (12 >= 4) = TRUE /\ (12 >= 8) = TRUE
            /\ (12 >= 10) = TRUE /\ (12 >= 11) = TRUE /\ (12 >= 12) = TRUE
        OBVIOUS
      <3> QED
        BY <2>4, <3>1, Zenon DEF TablesOf, Current
    <2>6. tables = TablesOf(Current)
      <3>1. tables = [base |-> tables.base, attributes |-> tables.attributes,
                      headers |-> tables.headers, views |-> tables.views,
                      reachability |-> tables.reachability, extractions |-> tables.extractions,
                      refreshState |-> tables.refreshState, items |-> tables.items]
        BY <1>1 DEF MigrationTypeOK, Tables
      <3>2. /\ tables.base = TRUE /\ tables.attributes = TRUE /\ tables.views = TRUE
            /\ tables.reachability = TRUE /\ tables.extractions = TRUE
            /\ tables.refreshState = TRUE /\ tables.items = TRUE
        BY <1>1, <2>3 DEF MigrationTypeOK, Tables
      <3> QED
        BY <2>3, <2>5, <3>1, <3>2
    <2> QED
      BY <1>1, <2>1, <2>2, <2>3, <2>6 DEF CatalogIInv, MadeInv, Current
  <1>2. MigrationTypeOK /\ CatalogIInv => UsedAsIsIsComplete
    BY <1>1 DEF UsedAsIsIsComplete
  <1> QED
    BY <1>2, Invariance, MigrationTypeCorrect, PTL
=============================================================================
