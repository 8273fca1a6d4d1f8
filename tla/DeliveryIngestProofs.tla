------------------------ MODULE DeliveryIngestProofs ------------------------
(***************************************************************************)
(* Proofs about the journal and the deliveries in it, for any number of    *)
(* processes, deliveries, crashes, power losses and faults: the journal    *)
(* implements a log that only grows, a delivery identity has one record,   *)
(* and an acknowledged delivery survives what it takes one kind of trouble *)
(* to do.                                                                  *)
(***************************************************************************)
EXTENDS DeliveryIngest, SequenceTheorems, TLAPS

USE DEF Entries, Sizes

-----------------------------------------------------------------------------
(* The inductive invariant                                                 *)

Holding == AppendPcs \cup {"prepare", "ready"}
Writing == {"header", "body", "written"}
SizeAt(pc) == CASE pc = "header" -> "header" [] pc = "body" -> "body" [] OTHER -> "whole"

(* One process holds the lock: the one that appends.                       *)
LockInv ==
  /\ \A p, q \in lock : p = q
  /\ \A p \in Processes : p \in lock <=> proc[p].pc \in Holding

(* Only the last record may be partial, and what fsync covered is whole.   *)
SegmentInv ==
  /\ \A n \in 1 .. Len(segment) : segment[n].sequence = n
  /\ \A n \in 1 .. Len(segment) : n < Len(segment) \/ n <= synced => Whole(n)

(* A writer that has not failed knows where the segment ends; one that is  *)
(* writing writes the last record.                                         *)
WriterInv ==
  \A p \in Processes :
    /\ proc[p].pc \in {"prepare", "ready", "locked"} /\ ~proc[p].failed =>
         /\ proc[p].next = Len(segment) + 1
         /\ \A n \in 1 .. Len(segment) : Whole(n)
    /\ proc[p].pc \in Writing =>
         /\ ~proc[p].failed /\ Len(segment) > 0 /\ proc[p].next = Len(segment)
         /\ segment[Len(segment)].size = SizeAt(proc[p].pc)
         /\ segment[Len(segment)].value = proc[p].value
    /\ proc[p].pc \notin Holding => ~proc[p].failed

(* No identity has a second record, and a delivery that is about to be     *)
(* recorded has none.                                                      *)
IdentityInv ==
  /\ \A i, j \in 1 .. Len(segment) :
       IdentityOf[segment[i].value] = IdentityOf[segment[j].value] => i = j
  /\ \A p \in Processes : proc[p].pc = "locked" /\ ~proc[p].failed =>
       \A i \in 1 .. Len(segment) : IdentityOf[segment[i].value] # IdentityOf[proc[p].value]

(* With neither kills nor faults every whole record is synced once its     *)
(* writer is done with it, and no reader goes beyond what is synced.       *)
Faultless == spent.kills = 0 /\ spent.faults = 0
CommitInv ==
  Faultless =>
    /\ \A n \in 1 .. Len(segment) : Whole(n) =>
         n <= synced \/ (n = Len(segment) /\ \E p \in Processes : proc[p].pc = "written")
    /\ checkpoint <= synced
    /\ \A p \in lock : proc[p].durableEnd <= synced

AckInv ==
  /\ spent.losses = 0 =>
       \A d \in acked : \E n \in 1 .. Len(segment) : Whole(n) /\ segment[n].value = d
  /\ Faultless => \A d \in acked : \E n \in 1 .. synced : segment[n].value = d

IInv ==
  TypeOK /\ LockInv /\ SegmentInv /\ WriterInv /\ IdentityInv /\ CommitInv /\ AckInv

-----------------------------------------------------------------------------
(* The reader stops at the last record, or before it if it is partial.     *)
LEMMA SafeEndIs ==
  ASSUME TypeOK, SegmentInv
  PROVE  /\ SafeEnd \in 0 .. Len(segment)
         /\ SafeEnd = IF Len(segment) = 0 \/ Whole(Len(segment)) THEN Len(segment)
                      ELSE Len(segment) - 1
  <1> DEFINE Ends(n) == /\ \A i \in 1 .. n : Valid(i)
                        /\ n < Len(segment) => ~Valid(n + 1)
             end == IF Len(segment) = 0 \/ Whole(Len(segment)) THEN Len(segment)
                    ELSE Len(segment) - 1
  <1>1. Len(segment) \in Nat
    BY DEF TypeOK
  <1>2. end \in 0 .. Len(segment) /\ Ends(end)
    BY <1>1 DEF SegmentInv, Valid, Whole
  <1>3. ASSUME NEW n \in 0 .. Len(segment), Ends(n) PROVE n = end
    BY <1>1, <1>3 DEF SegmentInv, Valid, Whole
  <1>4. SafeEnd = CHOOSE n \in 0 .. Len(segment) : Ends(n)
    BY DEF SafeEnd
  <1> HIDE DEF Ends, end
  <1>5. SafeEnd \in 0 .. Len(segment) /\ SafeEnd = end
    BY <1>2, <1>3, <1>4
  <1> QED
    BY <1>5 DEF end

(* There is an unsafe suffix exactly if the last record is partial.        *)
LEMMA SuffixIs ==
  ASSUME TypeOK, SegmentInv
  PROVE  /\ UnsafeSuffix <=> Len(segment) > 0 /\ ~Whole(Len(segment))
         /\ ~UnsafeSuffix => \A n \in 1 .. Len(segment) : Whole(n)
  <1>1. Len(segment) \in Nat
    BY DEF TypeOK
  <1> QED
    BY <1>1, SafeEndIs DEF UnsafeSuffix, SegmentInv

-----------------------------------------------------------------------------
(* Types.  How each kind of step changes the processes, field by field.    *)

Pcs == StartupPcs \cup AppendPcs \cup {"down", "ready"}

(* A process that only moves on, in one step of whatever kind.             *)
LEMMA GotoTyped ==
  ASSUME TypeOK, NEW p \in Processes, NEW pc \in Pcs, Goto(p, pc)
  PROVE  /\ proc' \in [Processes -> ProcType]
         /\ \A q \in Processes : q # p => proc'[q] = proc[q]
         /\ proc'[p].pc = pc /\ proc'[p].next = proc[p].next /\ proc'[p].failed = proc[p].failed
         /\ proc'[p].value = proc[p].value /\ proc'[p].durableEnd = proc[p].durableEnd
         /\ proc'[p].prefix = proc[p].prefix
  <1>1. proc \in [Processes -> ProcType] /\ proc[p] \in ProcType
    BY DEF TypeOK
  <1>2. proc'[p] = [proc[p] EXCEPT !.pc = pc] /\ \A q \in Processes : q # p => proc'[q] = proc[q]
    BY <1>1 DEF Goto
  <1> HIDE DEF Entries
  <1>3. /\ proc'[p] \in ProcType
        /\ proc'[p].pc = pc /\ proc'[p].next = proc[p].next /\ proc'[p].failed = proc[p].failed
        /\ proc'[p].value = proc[p].value /\ proc'[p].durableEnd = proc[p].durableEnd
        /\ proc'[p].prefix = proc[p].prefix
    BY <1>1, <1>2 DEF ProcType, Pcs
  <1>4. proc' \in [Processes -> ProcType]
    BY <1>1, <1>3 DEF Goto
  <1> QED
    BY <1>2, <1>3, <1>4

(* A process that is down: it has no value of its own, but some value.     *)
LEMMA DownTyped == Down \in ProcType
  <1>1. (CHOOSE v \in Values : TRUE) \in Values
    BY ValuesAssumption
  <1>2. << >> \in Seq(Entries)
    BY EmptySeq
  <1> QED
    BY <1>1, <1>2 DEF Down, ProcType

(* A process that exits, and loses the lock if it holds it.                *)
LEMMA ExitsTyped ==
  ASSUME TypeOK, NEW p \in Processes, Exits(p)
  PROVE  /\ proc' \in [Processes -> ProcType] /\ lock' \in SUBSET Processes
         /\ \A q \in Processes : q # p => proc'[q] = proc[q]
         /\ proc'[p] = Down
  BY DownTyped DEF Exits, TypeOK

(* A successful append or open tells the process where the segment ends.   *)
LEMMA SyncTyped ==
  ASSUME TypeOK, NEW p \in Processes, SyncRecord(p)
  PROVE  /\ proc' \in [Processes -> ProcType]
         /\ \A q \in Processes : q # p => proc'[q] = proc[q]
         /\ proc'[p].pc = "ready" /\ proc'[p].next = proc[p].next + 1
         /\ proc'[p].failed = proc[p].failed /\ proc'[p].durableEnd = Len(segment)
  <1>1. proc'[p] = [proc[p] EXCEPT !.pc = "ready", !.next = @ + 1, !.durableEnd = Len(segment)]
    BY DEF SyncRecord, TypeOK
  <1>2. Len(segment) \in Nat /\ proc[p] \in ProcType
    BY DEF TypeOK
  <1>3. proc'[p] \in ProcType
    <2> DEFINE end == Len(segment)  next == proc[p].next + 1
    <2>1. end \in Nat /\ next \in Nat \ {0}
      BY <1>2 DEF ProcType
    <2>2. proc'[p] = [proc[p] EXCEPT !.pc = "ready", !.next = next, !.durableEnd = end]
      BY <1>1
    <2> HIDE DEF end, next
    <2> QED
      BY <1>2, <2>1, <2>2 DEF ProcType
  <1>4. \A q \in Processes : q # p => proc'[q] = proc[q]
    BY DEF SyncRecord, TypeOK
  <1>5. proc' \in [Processes -> ProcType]
    BY <1>3 DEF SyncRecord, TypeOK
  <1> QED
    BY <1>1, <1>2, <1>4, <1>5 DEF ProcType

(* The writer opens at the end of a segment that has no partial record.    *)
LEMMA OpenTyped ==
  ASSUME TypeOK, SegmentInv, NEW p \in Processes, OpenWriter(p), ~Exits(p)
  PROVE  /\ proc' \in [Processes -> ProcType] /\ lock = {} /\ lock' = {p} /\ ~UnsafeSuffix
         /\ \A q \in Processes : q # p => proc'[q] = proc[q]
         /\ proc'[p].pc = "prepare" /\ proc'[p].next = SafeEnd + 1
         /\ proc'[p].failed = proc[p].failed /\ proc'[p].durableEnd = Len(segment)
  <1>0. SafeEnd + 1 \in Nat \ {0} /\ Len(segment) \in Nat /\ proc[p] \in ProcType
    BY SafeEndIs DEF TypeOK
  <1> DEFINE next == SafeEnd + 1  end == Len(segment)
  <1>1. /\ lock = {} /\ lock' = {p} /\ ~UnsafeSuffix
        /\ proc' = [proc EXCEPT ![p].pc = "prepare", ![p].next = next, ![p].durableEnd = end]
    BY DEF OpenWriter, OpenSequence
  <1> HIDE DEF next, end
  <1>2. proc'[p] = [proc[p] EXCEPT !.pc = "prepare", !.next = next, !.durableEnd = end]
    BY <1>1 DEF TypeOK
  <1>3. proc'[p] \in ProcType
    BY <1>0, <1>2 DEF ProcType, StartupPcs, next, end
  <1>4. proc' \in [Processes -> ProcType] /\ \A q \in Processes : q # p => proc'[q] = proc[q]
    BY <1>1, <1>3 DEF TypeOK
  <1>5. /\ proc'[p].pc = "prepare" /\ proc'[p].next = next
        /\ proc'[p].failed = proc[p].failed /\ proc'[p].durableEnd = end
    BY <1>0, <1>2 DEF ProcType
  <1> QED
    BY <1>1, <1>4, <1>5 DEF next, end

(* What the steps of an append do to the segment.                          *)
LEMMA Appending ==
  ASSUME TypeOK, NEW p \in Processes, BeginRecord(p)
  PROVE  /\ segment' \in Seq(Entries) /\ Len(segment') = Len(segment) + 1
         /\ \A n \in 1 .. Len(segment) : segment'[n] = segment[n]
         /\ segment'[Len(segment) + 1] = [sequence |-> proc[p].next, value |-> proc[p].value,
                                          size |-> "header"]
  <1>1. [sequence |-> proc[p].next, value |-> proc[p].value, size |-> "header"] \in Entries
    BY DEF TypeOK, ProcType
  <1> HIDE DEF Entries
  <1> QED
    BY <1>1 DEF TypeOK, BeginRecord

(* Writing on, or a power loss, changes the size of one record only.       *)
LEMMA Growing ==
  ASSUME NEW s \in Seq(Entries), NEW n \in 1 .. Len(s), NEW size \in Sizes
  PROVE  LET t == [s EXCEPT ![n].size = size] IN
         /\ t \in Seq(Entries) /\ Len(t) = Len(s)
         /\ \A i \in 1 .. Len(s) :
              /\ t[i].sequence = s[i].sequence /\ t[i].value = s[i].value
              /\ t[i].size = IF i = n THEN size ELSE s[i].size
  <1> DEFINE t == [s EXCEPT ![n].size = size]
             entry == [s[n] EXCEPT !.size = size]
  <1>1. s[n] \in Entries
    BY ElementOfSeq
  <1>2. /\ entry \in Entries /\ entry.sequence = s[n].sequence
        /\ entry.value = s[n].value /\ entry.size = size
    BY <1>1
  <1>3. t = [s EXCEPT ![n] = entry]
    OBVIOUS
  <1> HIDE DEF entry, t, Entries
  <1>4. /\ t \in Seq(Entries) /\ Len(t) = Len(s)
        /\ \A i \in 1 .. Len(s) : t[i] = IF i = n THEN entry ELSE s[i]
    BY <1>2, <1>3, ExceptSeq
  <1>5. \A i \in 1 .. Len(s) :
              /\ t[i].sequence = s[i].sequence /\ t[i].value = s[i].value
              /\ t[i].size = IF i = n THEN size ELSE s[i].size
    BY <1>2, <1>4
  <1> QED
    BY <1>4, <1>5 DEF t

(* A truncation keeps the records before the cut.                          *)
LEMMA Cutting ==
  ASSUME TypeOK, NEW n \in 0 .. Len(segment)
  PROVE  /\ SubSeq(segment, 1, n) \in Seq(Entries) /\ Len(SubSeq(segment, 1, n)) = n
         /\ \A i \in 1 .. n : SubSeq(segment, 1, n)[i] = segment[i]
  <1> HIDE DEF Entries
  <1>1. segment \in Seq(Entries) /\ Len(segment) \in Nat
    BY DEF TypeOK
  <1>2. \A i \in 1 .. n : segment[i] \in Entries
    BY <1>1, ElementOfSeq
  <1> QED
    BY <1>1, <1>2, SubSeqProperties

-----------------------------------------------------------------------------
(* Steps that leave the segment as it is.                                  *)

(* A step of one process is harmless if it leaves the process where its    *)
(* pc, its knowledge of the end and its lock agree with the segment.       *)
LEMMA Moved ==
  ASSUME IInv, NEW p \in Processes, TypeOK', AckInv',
         UNCHANGED <<segment, synced>>,
         \A q \in Processes : q # p => proc'[q] = proc[q] /\ (q \in lock' <=> q \in lock),
         p \in lock' <=> proc'[p].pc \in Holding,
         p \in lock' => lock \subseteq {p},
         proc'[p].pc \in {"prepare", "ready", "locked"} /\ ~proc'[p].failed =>
           proc'[p].next = Len(segment) + 1 /\ \A n \in 1 .. Len(segment) : Whole(n),
         proc'[p].pc \in Writing => proc'[p] = proc[p],
         proc'[p].pc \notin Holding => ~proc'[p].failed,
         proc'[p].pc = "locked" /\ ~proc'[p].failed =>
           \A i \in 1 .. Len(segment) : IdentityOf[segment[i].value] # IdentityOf[proc'[p].value],
         Faultless' =>
           /\ Faultless /\ checkpoint' <= synced
           /\ proc[p].pc = "written" => proc'[p].pc = "written"
           /\ p \in lock' => proc'[p].durableEnd <= synced
  PROVE  IInv'
  <1>0. IInv /\ TypeOK
    BY DEF IInv
  <1>1. LockInv'
    BY <1>0 DEF IInv, LockInv, TypeOK
  <1>2. SegmentInv'
    BY <1>0 DEF IInv, SegmentInv, Whole
  <1>3. WriterInv'
    BY <1>0 DEF IInv, WriterInv, Whole
  <1>4. IdentityInv'
    BY <1>0 DEF IInv, IdentityInv
  <1>5. CommitInv'
    <2>1. ASSUME Faultless' PROVE CommitInv!2'
      <3>1. \A n \in 1 .. Len(segment) : Whole(n) =>
              n <= synced \/ (n = Len(segment) /\ \E q \in Processes : proc[q].pc = "written")
        BY <1>0, <2>1 DEF IInv, CommitInv
      <3>2. \A q \in Processes : proc[q].pc = "written" => proc'[q].pc = "written"
        BY <2>1
      <3>3. \A q \in lock' : proc'[q].durableEnd <= synced
        BY <1>0, <2>1 DEF IInv, CommitInv, TypeOK
      <3> QED
        BY <2>1, <3>1, <3>2, <3>3 DEF Whole
    <2> QED
      BY <2>1 DEF CommitInv
  <1> QED
    BY <1>1, <1>2, <1>3, <1>4, <1>5 DEF IInv

(* A process that only moves on, or exits.                                 *)
LEMMA GotoKept ==
  ASSUME IInv, NEW p \in Processes, NEW pc \in Pcs, Goto(p, pc),
         UNCHANGED <<segment, synced, lock, checkpoint, returned, spent, acked>>,
         pc \notin Writing, pc \in Holding <=> proc[p].pc \in Holding, proc[p].pc # "written",
         pc = "locked" => proc[p].pc = "locked",
         pc \in Holding => proc[p].pc \in {"prepare", "ready", "locked"}
  PROVE  IInv'
  <1>1. TypeOK /\ LockInv /\ WriterInv /\ IdentityInv /\ CommitInv /\ AckInv
    BY DEF IInv
  <1>2. TypeOK'
    BY <1>1, GotoTyped DEF TypeOK
  <1>3. AckInv'
    BY <1>1 DEF AckInv, Whole, Faultless
  <1>4. proc[p].pc \in Holding <=> p \in lock
    BY <1>1 DEF LockInv
  <1>5. /\ \A q \in Processes : q # p => proc'[q] = proc[q]
        /\ proc'[p].pc = pc /\ proc'[p].next = proc[p].next /\ proc'[p].failed = proc[p].failed
        /\ proc'[p].value = proc[p].value /\ proc'[p].durableEnd = proc[p].durableEnd
    BY <1>1, GotoTyped
  <1>6. proc[p].pc \notin Holding => ~proc[p].failed
    BY <1>1 DEF WriterInv
  <1>7. proc'[p].pc \in {"prepare", "ready", "locked"} /\ ~proc'[p].failed =>
           proc'[p].next = Len(segment) + 1 /\ \A n \in 1 .. Len(segment) : Whole(n)
    BY <1>1, <1>5 DEF WriterInv, Holding, AppendPcs
  <1>8. proc'[p].pc = "locked" /\ ~proc'[p].failed =>
           \A i \in 1 .. Len(segment) : IdentityOf[segment[i].value] # IdentityOf[proc'[p].value]
    BY <1>1, <1>5 DEF IdentityInv
  <1>9. Faultless' => Faultless /\ checkpoint' <= synced /\ (p \in lock' => proc'[p].durableEnd <= synced)
    BY <1>1, <1>5 DEF CommitInv, Faultless
  <1>10. p \in lock' => lock \subseteq {p}
    BY <1>1 DEF LockInv
  <1> QED
    BY <1>2, <1>3, <1>4, <1>5, <1>6, <1>7, <1>8, <1>9, <1>10, Moved

(* A process that exits, by itself or killed, leaves the segment to be     *)
(* taken over; only one that is killed may leave a record behind it.       *)
LEMMA ExitsKept ==
  ASSUME IInv, NEW p \in Processes, Exits(p),
         UNCHANGED <<segment, synced, checkpoint, returned, acked>>,
         \/ UNCHANGED spent /\ proc[p].pc # "written"
         \/ spent' = [spent EXCEPT !.kills = @ + 1]
  PROVE  IInv'
  <1>1. TypeOK /\ LockInv /\ CommitInv /\ AckInv
    BY DEF IInv
  <1>2. TypeOK'
    BY <1>1, ExitsTyped DEF TypeOK
  <1>3. /\ Faultless' => Faultless /\ proc[p].pc # "written"
        /\ spent'.losses = spent.losses
    BY <1>1 DEF Faultless, TypeOK
  <1>4. AckInv'
    BY <1>1, <1>3 DEF AckInv, Whole
  <1>5. /\ proc'[p].pc = "down" /\ ~proc'[p].failed /\ p \notin lock'
        /\ \A q \in Processes : q # p => proc'[q] = proc[q] /\ (q \in lock' <=> q \in lock)
    BY <1>1, ExitsTyped DEF Exits, Down
  <1> QED
    BY <1>1, <1>2, <1>3, <1>4, <1>5, Moved DEF Holding, AppendPcs, Writing, CommitInv

(* Startup, up to the truncation of a torn suffix.                         *)
LEMMA StartupKept ==
  ASSUME IInv, NEW p \in Processes, UNCHANGED ingestVars,
         Start(p) \/ Validate(p) \/ ScanSuffix(p) \/ OpenWriter(p) \/ PrepareCatalog(p)
  PROVE  IInv'
  <1> USE DEF ingestVars
  <1>0. TypeOK /\ LockInv /\ SegmentInv /\ WriterInv /\ CommitInv /\ AckInv
    BY DEF IInv
  <1>1. CASE Start(p)
    BY <1>1, GotoKept DEF Start, Pcs, StartupPcs, Holding, Writing, AppendPcs
  <1>2. CASE Validate(p)
    <2>1. CASE Goto(p, "open") /\ UNCHANGED lock
      BY <1>2, <2>1, GotoKept DEF Validate, Pcs, StartupPcs, Holding, Writing, AppendPcs
    <2>2. CASE Goto(p, "recover") /\ UNCHANGED lock
      BY <1>2, <2>2, GotoKept DEF Validate, Pcs, StartupPcs, Holding, Writing, AppendPcs
    <2>3. CASE Exits(p)
      BY <1>2, <2>3, ExitsKept DEF Validate
    <2> QED
      BY <1>2, <2>1, <2>2, <2>3 DEF Validate
  <1>3. CASE ScanSuffix(p)
    <2>1. CASE Exits(p)
      BY <1>3, <2>1, ExitsKept DEF ScanSuffix
    <2>2. CASE proc' = [proc EXCEPT ![p].pc = "truncate", ![p].prefix = segment] /\ UNCHANGED lock
      <3>1. proc'[p] = [proc[p] EXCEPT !.pc = "truncate", !.prefix = segment]
        BY <1>0, <2>2 DEF TypeOK
      <3>2. /\ proc'[p] \in ProcType /\ proc'[p].pc = "truncate"
            /\ proc'[p].failed = proc[p].failed
        <4>1. proc[p] \in ProcType /\ segment \in Seq(Entries)
          BY <1>0 DEF TypeOK
        <4> HIDE DEF Entries
        <4> QED
          BY <3>1, <4>1 DEF ProcType, StartupPcs
      <3>3. \A q \in Processes : q # p => proc'[q] = proc[q]
        BY <1>0, <2>2 DEF TypeOK
      <3>4. TypeOK'
        BY <1>0, <1>3, <2>2, <3>2, <3>3 DEF TypeOK, ScanSuffix
      <3>5. AckInv'
        BY <1>0, <1>3 DEF ScanSuffix, AckInv, Whole, Faultless
      <3>6. proc[p].pc \notin Holding /\ proc'[p].pc \notin Holding /\ p \notin lock /\ ~proc[p].failed
        BY <1>0, <1>3, <3>2 DEF ScanSuffix, Holding, AppendPcs, LockInv, WriterInv
      <3> QED
        BY <1>0, <1>3, <2>2, <3>2, <3>3, <3>4, <3>5, <3>6, Moved
        DEF ScanSuffix, CommitInv, Faultless, Holding, AppendPcs, Writing
    <2> QED
      BY <1>3, <2>1, <2>2 DEF ScanSuffix
  <1>4. CASE OpenWriter(p)
    <2>1. CASE Exits(p)
      BY <1>4, <2>1, ExitsKept DEF OpenWriter
    <2>2. CASE ~Exits(p)
      <3>1. /\ proc' \in [Processes -> ProcType] /\ lock = {} /\ lock' = {p} /\ ~UnsafeSuffix
            /\ \A q \in Processes : q # p => proc'[q] = proc[q]
            /\ proc'[p].pc = "prepare" /\ proc'[p].next = SafeEnd + 1
            /\ proc'[p].failed = proc[p].failed /\ proc'[p].durableEnd = Len(segment)
        BY <1>0, <1>4, <2>2, OpenTyped
      <3>2. UNCHANGED <<segment, synced, checkpoint, returned, spent>>
        BY <1>4 DEF OpenWriter
      <3>3. TypeOK'
        BY <1>0, <3>1, <3>2 DEF TypeOK
      <3>4. AckInv'
        BY <1>0, <3>2 DEF AckInv, Whole, Faultless
      <3>5. /\ SafeEnd + 1 = Len(segment) + 1
            /\ \A n \in 1 .. Len(segment) : Whole(n)
        BY <1>0, <3>1, SafeEndIs, SuffixIs
      <3>6. \A q \in Processes : proc[q].pc # "written"
        BY <1>0, <3>1 DEF LockInv, Holding, AppendPcs
      <3>7. Faultless => Len(segment) <= synced
        <4>1. Len(segment) \in Nat /\ synced \in Nat
          BY <1>0 DEF TypeOK
        <4> QED
          BY <1>0, <3>5, <3>6, <4>1 DEF CommitInv
      <3> QED
        BY <1>0, <3>1, <3>2, <3>3, <3>4, <3>5, <3>6, <3>7, Moved
        DEF CommitInv, Faultless, Holding, Writing
    <2> QED
      BY <2>1, <2>2
  <1>5. CASE PrepareCatalog(p)
    <2>1. CASE Exits(p)
      BY <1>5, <2>1, ExitsKept DEF PrepareCatalog
    <2>2. CASE Goto(p, "ready") /\ UNCHANGED lock
      BY <1>5, <2>2, GotoKept DEF PrepareCatalog, Pcs, Holding, Writing, AppendPcs
    <2> QED
      BY <1>5, <2>1, <2>2 DEF PrepareCatalog
  <1> QED
    BY <1>1, <1>2, <1>3, <1>4, <1>5

(* The truncation of a torn suffix: what is cut off was never synced, and  *)
(* nobody is writing it.                                                   *)
LEMMA TruncateKept ==
  ASSUME IInv, NEW p \in Processes, TruncateSuffix(p), UNCHANGED ingestVars
  PROVE  IInv'
  <1>0. TypeOK /\ LockInv /\ SegmentInv /\ WriterInv /\ IdentityInv /\ CommitInv /\ AckInv
    BY DEF IInv
  <1>1. CASE ~StillSame(p)
    BY <1>1, ExitsKept DEF TruncateSuffix, ingestVars
  <1>2. CASE StillSame(p)
    <2>1. /\ proc[p].pc = "truncate" /\ lock = {} /\ lock' = {} /\ Recoverable
          /\ segment' = SubSeq(segment, 1, Len(segment) - 1) /\ synced' = Len(segment) - 1
          /\ proc' = [proc EXCEPT ![p].pc = "revalidate", ![p].prefix = << >>]
          /\ UNCHANGED <<checkpoint, returned, spent, acked>>
      BY <1>2 DEF TruncateSuffix, StillSame, ingestVars
    <2>2. Len(segment) \in Nat \ {0} /\ segment[Len(segment)].size # "whole"
      BY <1>0, <2>1, SafeEndIs DEF Recoverable, PartialSuffix, TypeOK
    <2>3. synced \in Nat /\ synced <= Len(segment) - 1
      BY <1>0, <2>2 DEF TypeOK, SegmentInv, Whole
    <2>4. /\ segment' \in Seq(Entries) /\ Len(segment') = Len(segment) - 1
          /\ \A n \in 1 .. Len(segment) - 1 : segment'[n] = segment[n]
      <3> DEFINE end == Len(segment) - 1
      <3>1. end \in 0 .. Len(segment) /\ segment' = SubSeq(segment, 1, end)
        BY <2>1, <2>2
      <3> HIDE DEF end, Entries
      <3>2. /\ segment' \in Seq(Entries) /\ Len(segment') = end
            /\ \A n \in 1 .. end : segment'[n] = segment[n]
        BY <1>0, <3>1, Cutting
      <3> QED
        BY <3>2 DEF end
    <2>5. /\ proc' \in [Processes -> ProcType]
          /\ \A q \in Processes : q # p => proc'[q] = proc[q]
          /\ proc'[p].pc = "revalidate" /\ proc'[p].failed = proc[p].failed
      <3>1. proc'[p] = [proc[p] EXCEPT !.pc = "revalidate", !.prefix = << >>]
        BY <1>0, <2>1 DEF TypeOK
      <3>2. proc[p] \in ProcType /\ << >> \in Seq(Entries)
        BY <1>0, EmptySeq DEF TypeOK
      <3>3. /\ proc'[p] \in ProcType /\ proc'[p].pc = "revalidate"
            /\ proc'[p].failed = proc[p].failed
        <4> HIDE DEF Entries
        <4> QED
          BY <3>1, <3>2 DEF ProcType, StartupPcs
      <3> QED
        BY <1>0, <2>1, <3>3 DEF TypeOK
    <2>6. \A q \in Processes : proc'[q].pc \notin Holding /\ ~proc'[q].failed
      BY <1>0, <2>1, <2>5 DEF LockInv, WriterInv, Holding, AppendPcs
    <2>7. TypeOK'
      BY <1>0, <2>1, <2>2, <2>4, <2>5 DEF TypeOK
    <2>8. LockInv' /\ WriterInv'
      BY <2>1, <2>6 DEF LockInv, WriterInv, Holding, AppendPcs, Writing
    <2>9. SegmentInv'
      BY <1>0, <2>1, <2>2, <2>4 DEF SegmentInv, Whole
    <2>10. IdentityInv'
      <3>1. \A q \in Processes : proc'[q].pc # "locked"
        BY <2>6 DEF Holding, AppendPcs
      <3>2. ASSUME NEW i \in 1 .. Len(segment'), NEW j \in 1 .. Len(segment'),
                   IdentityOf[segment'[i].value] = IdentityOf[segment'[j].value]
            PROVE  i = j
        <4>1. i \in 1 .. Len(segment) /\ j \in 1 .. Len(segment)
          BY <2>2, <2>4
        <4>2. segment'[i] = segment[i] /\ segment'[j] = segment[j]
          BY <2>4
        <4> QED
          BY <1>0, <3>2, <4>1, <4>2 DEF IdentityInv
      <3> QED
        BY <3>1, <3>2 DEF IdentityInv
    <2>11. CommitInv'
      <3>1. \A n \in 1 .. Len(segment') : n <= synced'
        BY <2>1, <2>2, <2>4
      <3>2. Faultless' => checkpoint' <= synced'
        <4>1. Faultless => checkpoint <= synced
          BY <1>0 DEF CommitInv
        <4>2. checkpoint \in Nat
          BY <1>0 DEF TypeOK
        <4> QED
          BY <2>1, <2>2, <2>3, <4>1, <4>2 DEF Faultless
      <3> QED
        BY <2>1, <3>1, <3>2 DEF CommitInv
    <2>12. AckInv'
      <3>1. ASSUME NEW n \in 1 .. Len(segment), Whole(n)
            PROVE  n \in 1 .. Len(segment') /\ Whole(n)' /\ segment'[n].value = segment[n].value
        <4>1. n # Len(segment)
          BY <2>2, <3>1 DEF Whole
        <4>2. n \in 1 .. Len(segment) - 1
          BY <2>2, <4>1
        <4>3. n \in 1 .. Len(segment') /\ segment'[n] = segment[n]
          BY <2>2, <2>4, <4>2
        <4> QED
          BY <3>1, <4>3 DEF Whole
      <3>2. ASSUME NEW n \in 1 .. synced
            PROVE  n \in 1 .. synced' /\ segment'[n].value = segment[n].value
        BY <2>1, <2>2, <2>3, <2>4
      <3>3. acked' = acked /\ spent'.losses = spent.losses /\ Faultless' = Faultless
        BY <2>1 DEF Faultless
      <3>4. spent.losses = 0 =>
              \A d \in acked : \E n \in 1 .. Len(segment') : Whole(n)' /\ segment'[n].value = d
        BY <1>0, <3>1 DEF AckInv
      <3>5. Faultless => \A d \in acked : \E n \in 1 .. synced' : segment'[n].value = d
        BY <1>0, <3>2 DEF AckInv
      <3> HIDE DEF Faultless
      <3> QED
        BY <3>3, <3>4, <3>5 DEF AckInv
    <2> QED
      BY <2>7, <2>8, <2>9, <2>10, <2>11, <2>12 DEF IInv
  <1> QED
    BY <1>1, <1>2

(* Steps of the append mutex that write nothing.                           *)
LEMMA BeginDeliveryKept ==
  ASSUME IInv, NEW p \in Processes, NEW d \in Values, BeginDelivery(p, d)
  PROVE  IInv'
  <1>0. TypeOK /\ LockInv /\ SegmentInv /\ WriterInv /\ CommitInv /\ AckInv
    BY DEF IInv
  <1>1. /\ proc[p].pc = "ready" /\ Absent(d)
        /\ proc' = [proc EXCEPT ![p].pc = "locked", ![p].value = d]
        /\ UNCHANGED <<segment, synced, lock, checkpoint, returned, spent, acked>>
    BY DEF BeginDelivery, LockAppend, ingestVars
  <1>2. proc'[p] = [proc[p] EXCEPT !.pc = "locked", !.value = d] /\ proc[p] \in ProcType
    BY <1>0, <1>1 DEF TypeOK
  <1>3. /\ proc'[p] \in ProcType /\ proc'[p].pc = "locked" /\ proc'[p].value = d
        /\ proc'[p].next = proc[p].next /\ proc'[p].failed = proc[p].failed
        /\ proc'[p].durableEnd = proc[p].durableEnd
    <2> HIDE DEF Entries
    <2> QED
      BY <1>2 DEF ProcType, AppendPcs
  <1>4. \A q \in Processes : q # p => proc'[q] = proc[q]
    BY <1>0, <1>1 DEF TypeOK
  <1>5. TypeOK'
    BY <1>0, <1>1, <1>3, <1>4 DEF TypeOK
  <1>6. AckInv'
    BY <1>0, <1>1 DEF AckInv, Whole, Faultless
  <1>7. \A i \in 1 .. Len(segment) : IdentityOf[segment[i].value] # IdentityOf[d]
    BY <1>0, <1>1, SafeEndIs DEF Absent, UnsafeSuffix, SameIdentity, TypeOK
  <1>8. p \in lock /\ lock \subseteq {p}
    BY <1>0, <1>1 DEF LockInv, Holding
  <1>9. ~proc[p].failed => proc[p].next = Len(segment) + 1 /\ \A n \in 1 .. Len(segment) : Whole(n)
    BY <1>0, <1>1 DEF WriterInv
  <1>10. Faultless' => Faultless /\ checkpoint' <= synced /\ proc'[p].durableEnd <= synced
    BY <1>0, <1>1, <1>3, <1>8 DEF CommitInv, Faultless
  <1>11. proc'[p].pc \in Holding /\ proc'[p].pc \notin Writing /\ proc[p].pc # "written"
    BY <1>1, <1>3 DEF Holding, AppendPcs, Writing
  <1>12. UNCHANGED <<segment, synced>> /\ UNCHANGED lock
    BY <1>1
  <1>13. proc'[p].value = d /\ proc'[p].next = proc[p].next /\ proc'[p].failed = proc[p].failed
    BY <1>3
  <1> HIDE DEF Entries, Sizes
  <1> QED
    BY <1>4, <1>5, <1>6, <1>7, <1>8, <1>9, <1>10, <1>11, <1>12, <1>13, Moved

(* A delivery that is given up leaves the mutex.                           *)
LEMMA ReleaseKept ==
  ASSUME IInv, NEW p \in Processes, Release(p), UNCHANGED ingestVars
  PROVE  IInv'
  BY GotoKept DEF Release, ingestVars, Pcs, Holding, Writing, AppendPcs

(* A failed append: the writer appends nothing any more, so its position   *)
(* no longer has to be the end.                                            *)
LEMMA AppendFailsKept ==
  ASSUME IInv, NEW p \in Processes, AppendFails(p), UNCHANGED ingestVars
  PROVE  IInv'
  <1>0. TypeOK /\ LockInv /\ AckInv
    BY DEF IInv
  <1>1. /\ proc[p].pc \in Writing /\ spent' = [spent EXCEPT !.faults = @ + 1]
        /\ proc' = [proc EXCEPT ![p].pc = "ready", ![p].failed = TRUE]
        /\ UNCHANGED <<segment, synced, lock, checkpoint, returned, acked>>
    BY DEF AppendFails, ingestVars, Writing
  <1>2. proc'[p] = [proc[p] EXCEPT !.pc = "ready", !.failed = TRUE] /\ proc[p] \in ProcType
    BY <1>0, <1>1 DEF TypeOK
  <1>3. proc'[p] \in ProcType /\ proc'[p].pc = "ready" /\ proc'[p].failed
    <2> HIDE DEF Entries
    <2> QED
      BY <1>2 DEF ProcType
  <1>4. \A q \in Processes : q # p => proc'[q] = proc[q]
    BY <1>0, <1>1 DEF TypeOK
  <1>5. ~Faultless' /\ spent'.losses = spent.losses /\ spent' \in [kills : Nat, losses : Nat, faults : Nat]
    <2>1. spent \in [kills : Nat, losses : Nat, faults : Nat]
      BY <1>0 DEF TypeOK
    <2>2. spent' = [spent EXCEPT !.faults = spent.faults + 1]
      BY <1>1
    <2> QED
      BY <2>1, <2>2 DEF Faultless
  <1>6. TypeOK'
    BY <1>0, <1>1, <1>3, <1>4, <1>5 DEF TypeOK
  <1>7. AckInv'
    BY <1>0, <1>1, <1>5 DEF AckInv, Whole
  <1>8. p \in lock /\ lock \subseteq {p} /\ proc'[p].pc \in Holding /\ proc'[p].pc \notin Writing
    BY <1>0, <1>1, <1>3 DEF LockInv, Holding, AppendPcs, Writing
  <1> QED
    BY <1>1, <1>3, <1>4, <1>5, <1>6, <1>7, <1>8, Moved

(* Steps that leave the processes as they are.                             *)
LEMMA SaveCheckpointKept ==
  ASSUME IInv, NEW p \in Processes, NEW n \in 1 .. Len(segment), SaveCheckpoint(p, n), UNCHANGED ingestVars
  PROVE  IInv'
  <1>0. TypeOK /\ LockInv /\ WriterInv /\ IdentityInv /\ CommitInv /\ AckInv
    BY DEF IInv
  <1>1. /\ Running(p) /\ n \in (checkpoint + 1) .. proc[p].durableEnd /\ checkpoint' = n
        /\ UNCHANGED <<segment, synced, lock, proc, returned, spent, acked>>
    BY DEF SaveCheckpoint, ReadLimit, ingestVars
  <1>2. n \in Nat /\ proc[p].durableEnd \in Nat /\ synced \in Nat /\ n <= proc[p].durableEnd
    BY <1>0, <1>1 DEF TypeOK, ProcType
  <1>3. p \in lock /\ lock \subseteq {p}
    BY <1>0, <1>1 DEF LockInv, Running, Holding
  <1>4. TypeOK'
    BY <1>0, <1>1, <1>2 DEF TypeOK
  <1>5. AckInv'
    BY <1>0, <1>1 DEF AckInv, Whole, Faultless
  <1>6. Faultless' => Faultless /\ checkpoint' <= synced /\ proc'[p].durableEnd <= synced
    BY <1>0, <1>1, <1>2, <1>3 DEF CommitInv, Faultless
  <1> QED
    BY <1>0, <1>1, <1>3, <1>4, <1>5, <1>6, Moved DEF WriterInv, IdentityInv, LockInv

(* Objects are stored beside the journal.                                  *)
LEMMA ObjectKept ==
  ASSUME IInv, NEW p \in Processes, LinkObject(p) \/ SyncObject(p)
  PROVE  IInv'
  <1>1. UNCHANGED <<segment, synced, lock, proc, checkpoint, returned, spent, acked>>
    BY DEF LinkObject, SyncObject, journalVars
  <1>2. TypeOK' /\ LockInv' /\ SegmentInv' /\ WriterInv'
    BY <1>1 DEF IInv, TypeOK, LockInv, SegmentInv, WriterInv, Whole
  <1>3. IdentityInv' /\ CommitInv' /\ AckInv'
    BY <1>1 DEF IInv, IdentityInv, CommitInv, AckInv, Whole, Faultless
  <1> QED
    BY <1>2, <1>3 DEF IInv

(* A retry is answered from a whole record, and one that is synced: only   *)
(* the process that answers could be writing.                              *)
LEMMA AnswerRetryKept ==
  ASSUME IInv, NEW p \in Processes, NEW d \in Values, AnswerRetry(p, d)
  PROVE  IInv'
  <1>0. TypeOK /\ LockInv /\ SegmentInv /\ CommitInv /\ AckInv
    BY DEF IInv
  <1>1. UNCHANGED journalVars /\ acked' = acked \cup {d} /\ proc[p].pc = "ready"
    BY DEF AnswerRetry
  <1>2. PICK i \in 1 .. Len(segment) : i \in 1 .. SafeEnd /\ segment[i].value = d
    BY DEF AnswerRetry, IsFirstRecord
  <1>3. Whole(i)
    BY <1>0, <1>2, SafeEndIs DEF SegmentInv, TypeOK
  <1>4. \A q \in Processes : proc[q].pc # "written"
    BY <1>0, <1>1 DEF LockInv, Holding, AppendPcs
  <1>5. Faultless => i \in 1 .. synced
    BY <1>0, <1>3, <1>4 DEF CommitInv, TypeOK
  <1>6. AckInv'
    BY <1>0, <1>1, <1>2, <1>3, <1>5 DEF AckInv, Faultless, journalVars, Whole
  <1> QED
    BY <1>1, <1>6 DEF journalVars, IInv, TypeOK, LockInv, SegmentInv, WriterInv,
       IdentityInv, CommitInv, Whole, Faultless

-----------------------------------------------------------------------------
(* Steps that write.  Only the holder of the lock takes them.              *)

(* The header of a new record: its sequence number is its position, and    *)
(* its identity is new, as the search under the mutex found.               *)
LEMMA RecordDeliveryKept ==
  ASSUME IInv, NEW p \in Processes, RecordDelivery(p)
  PROVE  IInv'
  <1>0. TypeOK /\ LockInv /\ SegmentInv /\ WriterInv /\ IdentityInv /\ CommitInv /\ AckInv
    BY DEF IInv
  <1>1. /\ proc[p].pc = "locked" /\ ~proc[p].failed /\ Goto(p, "header")
        /\ UNCHANGED <<synced, lock, checkpoint, returned, spent, acked>>
    BY DEF RecordDelivery, BeginRecord, MayAppend, ingestVars
  <1> DEFINE new == Len(segment) + 1
  <1>2. /\ segment' \in Seq(Entries) /\ Len(segment') = new
        /\ \A n \in 1 .. Len(segment) : segment'[n] = segment[n]
        /\ segment'[new].sequence = proc[p].next /\ segment'[new].value = proc[p].value
        /\ segment'[new].size = "header"
    <2>1. /\ segment' \in Seq(Entries) /\ Len(segment') = new
          /\ \A n \in 1 .. Len(segment) : segment'[n] = segment[n]
          /\ segment'[new] = [sequence |-> proc[p].next, value |-> proc[p].value, size |-> "header"]
      <3> HIDE DEF Entries
      <3> QED
        BY <1>0, Appending DEF RecordDelivery
    <2> HIDE DEF Entries, new
    <2> QED
      BY <2>1
  <1>3. /\ proc' \in [Processes -> ProcType]
        /\ \A q \in Processes : q # p => proc'[q] = proc[q]
        /\ proc'[p].pc = "header" /\ proc'[p].next = proc[p].next /\ proc'[p].failed = proc[p].failed
        /\ proc'[p].value = proc[p].value /\ proc'[p].durableEnd = proc[p].durableEnd
    <2>1. "header" \in Pcs
      BY DEF Pcs, AppendPcs
    <2> QED
      BY <1>0, <1>1, <2>1, GotoTyped
  <1>4. Len(segment) \in Nat /\ synced \in Nat /\ synced <= Len(segment)
    BY <1>0 DEF TypeOK
  <1>5. proc[p].next = new /\ \A n \in 1 .. Len(segment) : Whole(n)
    BY <1>0, <1>1 DEF WriterInv
  <1>6. /\ p \in lock
        /\ \A q \in Processes : q # p => q \notin lock /\ proc[q].pc \notin Holding /\ ~proc[q].failed
    BY <1>0, <1>1 DEF LockInv, Holding, AppendPcs, WriterInv
  <1>7. TypeOK'
    BY <1>0, <1>1, <1>2, <1>3, <1>4 DEF TypeOK
  <1>8. LockInv'
    BY <1>0, <1>1, <1>3, <1>6 DEF LockInv, Holding, AppendPcs
  <1>9. SegmentInv'
    <2>1. ASSUME NEW n \in 1 .. Len(segment) PROVE segment'[n].sequence = n /\ Whole(n)'
      BY <1>0, <1>2, <1>5 DEF SegmentInv, Whole
    <2>2. segment'[new].sequence = new /\ ~(new <= synced') /\ Len(segment') = new
      BY <1>1, <1>2, <1>4, <1>5
    <2>3. \A n \in 1 .. Len(segment') : n \in 1 .. Len(segment) \/ n = new
      BY <1>2, <1>4
    <2> HIDE DEF new, Entries
    <2> QED
      BY <2>1, <2>2, <2>3 DEF SegmentInv
  <1>10. WriterInv'
    BY <1>1, <1>2, <1>3, <1>4, <1>5, <1>6 DEF WriterInv, Holding, AppendPcs, Writing, SizeAt
  <1>11. IdentityInv'
    <2>1. \A i \in 1 .. Len(segment) : IdentityOf[segment[i].value] # IdentityOf[proc[p].value]
      BY <1>0, <1>1 DEF IdentityInv
    <2>2. \A i, j \in 1 .. Len(segment) :
            IdentityOf[segment[i].value] = IdentityOf[segment[j].value] => i = j
      BY <1>0 DEF IdentityInv
    <2>3. \A i \in 1 .. Len(segment') : i \in 1 .. Len(segment) \/ i = new
      BY <1>2, <1>4
    <2>4. \A q \in Processes : proc'[q].pc # "locked"
      BY <1>3, <1>6 DEF Holding, AppendPcs
    <2>5. ASSUME NEW i \in 1 .. Len(segment'), NEW j \in 1 .. Len(segment'),
                 IdentityOf[segment'[i].value] = IdentityOf[segment'[j].value]
          PROVE  i = j
      <3> HIDE DEF new, Entries
      <3> QED
        BY <1>2, <2>1, <2>2, <2>3, <2>5
    <2> QED
      BY <2>4, <2>5 DEF IdentityInv
  <1>12. CommitInv'
    <2>1. ASSUME Faultless' PROVE CommitInv!2'
      <3>1. \A n \in 1 .. Len(segment) : n <= synced
        BY <1>0, <1>1, <1>5, <1>6, <2>1 DEF CommitInv, Faultless, Holding, AppendPcs
      <3>2. checkpoint <= synced /\ \A q \in lock : proc[q].durableEnd <= synced
        BY <1>0, <1>1, <2>1 DEF CommitInv, Faultless
      <3>3. \A n \in 1 .. Len(segment') : Whole(n)' => n <= synced'
        BY <1>1, <1>2, <1>4, <3>1 DEF Whole
      <3>4. \A q \in lock' : proc'[q].durableEnd <= synced'
        BY <1>0, <1>1, <1>3, <3>2 DEF TypeOK
      <3> QED
        BY <1>1, <3>2, <3>3, <3>4
    <2> QED
      BY <2>1 DEF CommitInv
  <1>13. AckInv'
    <2>1. ASSUME NEW n \in 1 .. Len(segment), Whole(n) PROVE n \in 1 .. Len(segment') /\ Whole(n)'
      BY <1>2, <1>4, <2>1 DEF Whole
    <2>2. ASSUME NEW n \in 1 .. synced PROVE n \in 1 .. synced' /\ segment'[n] = segment[n]
      BY <1>1, <1>2, <1>4
    <2> QED
      BY <1>0, <1>1, <1>2, <2>1, <2>2 DEF AckInv, Faultless
  <1> QED
    BY <1>7, <1>8, <1>9, <1>10, <1>11, <1>12, <1>13 DEF IInv

(* The rest of the record: whole, but not yet synced.                      *)
LEMMA WriteOnKept ==
  ASSUME IInv, NEW p \in Processes, WriteOn(p), UNCHANGED ingestVars
  PROVE  IInv'
  <1>0. TypeOK /\ LockInv /\ SegmentInv /\ WriterInv /\ IdentityInv /\ CommitInv /\ AckInv
    BY DEF IInv
  <1> DEFINE last == Len(segment)
  <1>1. PICK pc \in {"body", "written"} :
          /\ proc[p].pc \in {"header", "body"} /\ Goto(p, pc)
          /\ segment' = [segment EXCEPT ![last].size = SizeAt(pc)]
    BY DEF WriteOn, SizeAt
  <1>2. UNCHANGED <<synced, lock, checkpoint, returned, spent, acked>>
    BY DEF WriteOn, ingestVars
  <1>3. /\ ~proc[p].failed /\ last \in Nat \ {0} /\ proc[p].next = last
        /\ segment[last].value = proc[p].value /\ segment[last].size # "whole"
    BY <1>0, <1>1 DEF WriterInv, Writing, SizeAt, TypeOK
  <1>4. synced \in Nat /\ synced < last
    BY <1>0, <1>3 DEF TypeOK, SegmentInv, Whole
  <1>5. /\ segment' \in Seq(Entries) /\ Len(segment') = last
        /\ \A i \in 1 .. last :
             /\ segment'[i].sequence = segment[i].sequence /\ segment'[i].value = segment[i].value
             /\ segment'[i].size = IF i = last THEN SizeAt(pc) ELSE segment[i].size
    <2>1. segment \in Seq(Entries) /\ last \in 1 .. Len(segment) /\ SizeAt(pc) \in Sizes
      BY <1>0, <1>3 DEF TypeOK, SizeAt
    <2> HIDE DEF Entries, Sizes
    <2> QED
      BY <1>1, <2>1, Growing
  <1>6. /\ proc' \in [Processes -> ProcType]
        /\ \A q \in Processes : q # p => proc'[q] = proc[q]
        /\ proc'[p].pc = pc /\ proc'[p].next = proc[p].next /\ proc'[p].failed = proc[p].failed
        /\ proc'[p].value = proc[p].value /\ proc'[p].durableEnd = proc[p].durableEnd
    <2>1. pc \in Pcs
      BY DEF Pcs, AppendPcs
    <2> QED
      BY <1>0, <1>1, <2>1, GotoTyped
  <1>7. /\ p \in lock
        /\ \A q \in Processes : q # p => q \notin lock /\ proc[q].pc \notin Holding /\ ~proc[q].failed
    BY <1>0, <1>1 DEF LockInv, Holding, AppendPcs, WriterInv
  <1>8. TypeOK'
    BY <1>0, <1>2, <1>5, <1>6 DEF TypeOK
  <1>9. LockInv'
    BY <1>0, <1>1, <1>2, <1>6, <1>7 DEF LockInv, Holding, AppendPcs
  <1>10. SegmentInv'
    <2>1. ASSUME NEW n \in 1 .. last PROVE segment[n].sequence = n /\ (n < last => Whole(n))
      BY <1>0 DEF SegmentInv
    <2>2. ASSUME NEW n \in 1 .. last, n < last \/ n <= synced PROVE Whole(n)'
      <3>1. n < last
        BY <1>3, <1>4, <2>2
      <3> QED
        BY <1>3, <1>5, <2>1, <3>1 DEF Whole
    <2> HIDE DEF last, Entries
    <2> QED
      BY <1>2, <1>5, <2>1, <2>2 DEF SegmentInv
  <1>11. WriterInv'
    <2>1. proc'[p].pc \in Writing /\ segment'[last].size = SizeAt(pc)
      BY <1>3, <1>5, <1>6 DEF Writing
    <2> QED
      BY <1>3, <1>5, <1>6, <1>7, <2>1 DEF WriterInv, Holding, AppendPcs, Writing
  <1>12. IdentityInv'
    <2>1. \A q \in Processes : proc'[q].pc # "locked"
      BY <1>1, <1>6, <1>7 DEF Holding, AppendPcs
    <2>2. \A i, j \in 1 .. last : IdentityOf[segment[i].value] = IdentityOf[segment[j].value] => i = j
      BY <1>0 DEF IdentityInv
    <2> HIDE DEF last, Entries
    <2> QED
      BY <1>5, <2>1, <2>2 DEF IdentityInv
  <1>13. CommitInv'
    <2>1. ASSUME Faultless' PROVE CommitInv!2'
      <3>1. \A n \in 1 .. last : Whole(n) => n <= synced
        BY <1>0, <1>1, <1>2, <1>7, <2>1 DEF CommitInv, Faultless, Holding, AppendPcs
      <3>2. checkpoint <= synced /\ \A q \in lock : proc[q].durableEnd <= synced
        BY <1>0, <1>2, <2>1 DEF CommitInv, Faultless
      <3>3. \A n \in 1 .. Len(segment') : Whole(n)' =>
              n <= synced' \/ (n = Len(segment') /\ proc'[p].pc = "written")
        BY <1>2, <1>3, <1>5, <1>6, <3>1 DEF Whole, SizeAt
      <3>4. \A q \in lock' : proc'[q].durableEnd <= synced'
        BY <1>0, <1>2, <1>6, <3>2 DEF TypeOK
      <3> QED
        BY <1>2, <3>2, <3>3, <3>4
    <2> QED
      BY <2>1 DEF CommitInv
  <1>14. AckInv'
    <2>1. ASSUME NEW n \in 1 .. last, Whole(n) PROVE Whole(n)' /\ segment'[n].value = segment[n].value
      BY <1>3, <1>5, <2>1 DEF Whole
    <2>2. ASSUME NEW n \in 1 .. synced PROVE segment'[n].value = segment[n].value
      BY <1>3, <1>4, <1>5
    <2>3. /\ acked' = acked /\ spent'.losses = spent.losses /\ Faultless' = Faultless
          /\ synced' = synced /\ Len(segment') = last
      BY <1>2, <1>5 DEF Faultless
    <2>4. spent.losses = 0 =>
            \A d \in acked : \E n \in 1 .. last : Whole(n)' /\ segment'[n].value = d
      BY <1>0, <2>1 DEF AckInv
    <2>5. Faultless => \A d \in acked : \E n \in 1 .. synced : segment'[n].value = d
      BY <1>0, <2>2 DEF AckInv
    <2> HIDE DEF Faultless, last
    <2> QED
      BY <2>3, <2>4, <2>5 DEF AckInv
  <1> QED
    BY <1>8, <1>9, <1>10, <1>11, <1>12, <1>13, <1>14 DEF IInv

(* The record is synced, and only then acknowledged.                       *)
LEMMA FinishDeliveryKept ==
  ASSUME IInv, NEW p \in Processes, FinishDelivery(p)
  PROVE  IInv'
  <1>0. TypeOK /\ LockInv /\ SegmentInv /\ WriterInv /\ IdentityInv /\ CommitInv /\ AckInv
    BY DEF IInv
  <1> DEFINE last == Len(segment)
  <1>1. /\ proc[p].pc = "written" /\ synced' = last /\ returned' = returned \cup {proc[p].next}
        /\ UNCHANGED <<segment, lock, checkpoint, spent>> /\ acked' = acked \cup {proc[p].value}
    BY DEF FinishDelivery, SyncRecord
  <1>2. /\ ~proc[p].failed /\ last \in Nat \ {0} /\ proc[p].next = last
        /\ segment[last].value = proc[p].value /\ Whole(last)
    BY <1>0, <1>1 DEF WriterInv, Writing, SizeAt, TypeOK, Whole
  <1>3. /\ proc' \in [Processes -> ProcType]
        /\ \A q \in Processes : q # p => proc'[q] = proc[q]
        /\ proc'[p].pc = "ready" /\ proc'[p].next = proc[p].next + 1
        /\ proc'[p].failed = proc[p].failed /\ proc'[p].durableEnd = last
    BY <1>0, SyncTyped DEF FinishDelivery
  <1>4. /\ p \in lock
        /\ \A q \in Processes : q # p => q \notin lock /\ proc[q].pc \notin Holding /\ ~proc[q].failed
    BY <1>0, <1>1 DEF LockInv, Holding, AppendPcs, WriterInv
  <1>5. \A n \in 1 .. last : Whole(n)
    BY <1>0, <1>2 DEF SegmentInv
  <1>6. synced \in Nat /\ synced <= last /\ checkpoint \in Nat
    BY <1>0 DEF TypeOK
  <1>7. TypeOK'
    <2>1. synced' \in 0 .. Len(segment')
      BY <1>1, <1>2
    <2>2. returned' \in SUBSET (Nat \ {0})
      BY <1>0, <1>1, <1>2 DEF TypeOK
    <2> QED
      BY <1>0, <1>1, <1>3, <2>1, <2>2 DEF TypeOK
  <1>8. LockInv'
    BY <1>0, <1>1, <1>3, <1>4 DEF LockInv, Holding, AppendPcs
  <1>9. SegmentInv'
    BY <1>0, <1>1, <1>5 DEF SegmentInv, Whole
  <1>10. WriterInv'
    BY <1>1, <1>2, <1>3, <1>4, <1>5 DEF WriterInv, Holding, AppendPcs, Writing, Whole
  <1>11. IdentityInv'
    BY <1>0, <1>1, <1>3, <1>4 DEF IdentityInv, Holding, AppendPcs
  <1>12. CommitInv'
    BY <1>0, <1>1, <1>2, <1>3, <1>4, <1>6 DEF CommitInv, Faultless, TypeOK
  <1>13. AckInv'
    <2>1. spent'.losses = 0 => \A d \in acked' : \E n \in 1 .. last : Whole(n) /\ segment[n].value = d
      BY <1>0, <1>1, <1>2 DEF AckInv
    <2>2. Faultless' => \A d \in acked' : \E n \in 1 .. synced' : segment[n].value = d
      BY <1>0, <1>1, <1>2, <1>6 DEF AckInv, Faultless
    <2> QED
      BY <1>1, <2>1, <2>2 DEF AckInv, Whole
  <1> QED
    BY <1>7, <1>8, <1>9, <1>10, <1>11, <1>12, <1>13 DEF IInv

(* What a power loss leaves of the segment: every synced record as it was, *)
(* and at most one that is cut behind them.                                *)
LEMMA PowerLossLeaves ==
  ASSUME IInv, PowerLoss
  PROVE  /\ segment' \in Seq(Entries) /\ Len(segment') \in Nat /\ Len(segment') <= Len(segment)
         /\ synced' \in Nat /\ synced <= synced' /\ synced' <= Len(segment')
         /\ \A i \in 1 .. Len(segment') :
              /\ segment'[i].sequence = segment[i].sequence /\ segment'[i].value = segment[i].value
              /\ i <= synced' => segment'[i] = segment[i] /\ Whole(i)
              /\ i > synced' => i = Len(segment') /\ segment'[i].size # "whole"
  <1>0. TypeOK /\ SegmentInv
    BY DEF IInv
  <1>1. Len(segment) \in Nat /\ synced \in Nat /\ synced <= Len(segment)
    BY <1>0 DEF TypeOK
  <1>2. PICK n \in 0 .. Len(segment) :
       \/ n >= synced /\ synced' = n /\ segment' = SubSeq(segment, 1, n) /\ (n > 0 => Whole(n))
       \/ n > synced /\ synced' = n - 1 /\ \E size \in Cuts(segment[n].size) :
            segment' = [SubSeq(segment, 1, n) EXCEPT ![n].size = size]
    BY DEF PowerLoss
  <1>3. /\ SubSeq(segment, 1, n) \in Seq(Entries) /\ Len(SubSeq(segment, 1, n)) = n
        /\ \A i \in 1 .. n : SubSeq(segment, 1, n)[i] = segment[i]
    BY <1>0, Cutting
  <1>4. CASE n >= synced /\ synced' = n /\ segment' = SubSeq(segment, 1, n) /\ (n > 0 => Whole(n))
    <2>1. \A i \in 1 .. n : Whole(i)
      BY <1>0, <1>1, <1>4 DEF SegmentInv
    <2> HIDE DEF Entries
    <2> QED
      BY <1>1, <1>3, <1>4, <2>1
  <1>5. CASE n > synced /\ synced' = n - 1 /\ \E size \in Cuts(segment[n].size) :
               segment' = [SubSeq(segment, 1, n) EXCEPT ![n].size = size]
    <2>1. PICK size \in Cuts(segment[n].size) : segment' = [SubSeq(segment, 1, n) EXCEPT ![n].size = size]
      BY <1>5
    <2> DEFINE s == SubSeq(segment, 1, n)
    <2>2. size \in Sizes /\ size # "whole" /\ n \in 1 .. n
      BY <1>1, <1>5 DEF Cuts
    <2>3. /\ s \in Seq(Entries) /\ Len(s) = n /\ \A i \in 1 .. n : s[i] = segment[i]
          /\ segment' = [s EXCEPT ![n].size = size]
      BY <1>3, <2>1
    <2> HIDE DEF Entries, Sizes, s
    <2>4. /\ segment' \in Seq(Entries) /\ Len(segment') = n
          /\ \A i \in 1 .. n :
               /\ segment'[i].sequence = segment[i].sequence /\ segment'[i].value = segment[i].value
               /\ segment'[i].size = IF i = n THEN size ELSE segment[i].size
      BY <2>2, <2>3, Growing
    <2>5. \A i \in 1 .. n - 1 : segment'[i] = segment[i]
      <3>1. segment' = [s EXCEPT ![n] = [s[n] EXCEPT !.size = size]]
        BY <2>3
      <3> QED
        BY <1>1, <2>3, <2>4, <3>1, ElementOfSeq DEF Entries
    <2>6. \A i \in 1 .. n - 1 : Whole(i)
      BY <1>0, <1>1 DEF SegmentInv
    <2>7. ASSUME NEW i \in 1 .. n
          PROVE  /\ i <= n - 1 => segment'[i] = segment[i] /\ Whole(i)
                 /\ i > n - 1 => i = n /\ segment'[i].size # "whole"
      BY <1>1, <2>2, <2>4, <2>5, <2>6
    <2>8. n \in Nat /\ n - 1 \in Nat /\ synced <= n - 1 /\ synced' = n - 1
      BY <1>1, <1>5
    <2> QED
      BY <1>1, <2>4, <2>7, <2>8
  <1> QED
    BY <1>2, <1>4, <1>5

(* A power loss stops every process, and takes nothing that was synced.    *)
LEMMA LosePowerKept ==
  ASSUME IInv, LosePower
  PROVE  IInv'
  <1>0. TypeOK /\ LockInv /\ SegmentInv /\ WriterInv /\ IdentityInv /\ CommitInv /\ AckInv
    BY DEF IInv
  <1>1. /\ PowerLoss /\ spent' = [spent EXCEPT !.losses = @ + 1]
        /\ proc' = [p \in Processes |-> Down] /\ lock' = {}
        /\ UNCHANGED <<checkpoint, returned, acked>>
    BY DEF LosePower, PowerLoss
  <1>2. /\ segment' \in Seq(Entries) /\ Len(segment') \in Nat /\ Len(segment') <= Len(segment)
        /\ synced' \in Nat /\ synced <= synced' /\ synced' <= Len(segment')
        /\ \A i \in 1 .. Len(segment') :
             /\ segment'[i].sequence = segment[i].sequence /\ segment'[i].value = segment[i].value
             /\ i <= synced' => segment'[i] = segment[i] /\ Whole(i)
             /\ i > synced' => i = Len(segment') /\ segment'[i].size # "whole"
    <2> HIDE DEF Entries
    <2> QED
      BY <1>1, PowerLossLeaves
  <1>3. Len(segment) \in Nat /\ synced \in Nat
    BY <1>0 DEF TypeOK
  <1>4. \A p \in Processes : proc'[p].pc = "down" /\ ~proc'[p].failed
    BY <1>1 DEF Down
  <1>5. /\ spent' \in [kills : Nat, losses : Nat, faults : Nat] /\ spent'.losses # 0
        /\ Faultless' => Faultless
    <2>1. spent \in [kills : Nat, losses : Nat, faults : Nat]
      BY <1>0 DEF TypeOK
    <2>2. spent' = [spent EXCEPT !.losses = spent.losses + 1]
      BY <1>1
    <2> QED
      BY <2>1, <2>2 DEF Faultless
  <1>6. TypeOK'
    <2>1. proc' \in [Processes -> ProcType]
      BY <1>1, DownTyped
    <2> HIDE DEF Entries
    <2> QED
      BY <1>0, <1>1, <1>2, <1>5, <2>1 DEF TypeOK
  <1>7. LockInv' /\ WriterInv'
    BY <1>1, <1>4 DEF LockInv, WriterInv, Holding, AppendPcs, Writing
  <1>8. SegmentInv'
    <2>1. ASSUME NEW n \in 1 .. Len(segment')
          PROVE  segment'[n].sequence = n /\ (n < Len(segment') \/ n <= synced' => Whole(n)')
      <3>1. n \in 1 .. Len(segment)
        BY <1>2, <1>3
      <3>2. segment[n].sequence = n
        BY <1>0, <3>1 DEF SegmentInv
      <3> HIDE DEF Entries
      <3>3. n < Len(segment') \/ n <= synced' => n <= synced'
        BY <1>2
      <3> QED
        BY <1>2, <3>2, <3>3 DEF Whole
    <2> QED
      BY <2>1 DEF SegmentInv
  <1>9. IdentityInv'
    <2>1. ASSUME NEW i \in 1 .. Len(segment'), NEW j \in 1 .. Len(segment'),
                 IdentityOf[segment'[i].value] = IdentityOf[segment'[j].value]
          PROVE  i = j
      <3>1. i \in 1 .. Len(segment) /\ j \in 1 .. Len(segment)
        BY <1>2, <1>3
      <3>2. segment'[i].value = segment[i].value /\ segment'[j].value = segment[j].value
        BY <1>2
      <3> QED
        BY <1>0, <2>1, <3>1, <3>2 DEF IdentityInv
    <2> QED
      BY <1>4, <2>1 DEF IdentityInv
  <1>10. CommitInv'
    <2>1. ASSUME Faultless' PROVE CommitInv!2'
      <3>1. \A n \in 1 .. Len(segment') : Whole(n)' => n <= synced'
        <4> HIDE DEF Entries
        <4> QED
          BY <1>2 DEF Whole
      <3>2. checkpoint <= synced /\ checkpoint \in Nat
        BY <1>0, <1>5, <2>1 DEF CommitInv, TypeOK
      <3>3. checkpoint' <= synced'
        BY <1>1, <1>2, <1>3, <3>2
      <3> QED
        BY <1>1, <3>1, <3>3
    <2> QED
      BY <2>1 DEF CommitInv
  <1>11. AckInv'
    <2>1. ASSUME NEW n \in 1 .. synced PROVE n \in 1 .. synced' /\ segment'[n].value = segment[n].value
      BY <1>2, <1>3
    <2> QED
      BY <1>0, <1>1, <1>5, <2>1 DEF AckInv
  <1> QED
    BY <1>6, <1>7, <1>8, <1>9, <1>10, <1>11 DEF IInv

-----------------------------------------------------------------------------
(* The invariant holds of the specification.                               *)

(* Nothing is written, nobody runs.                                        *)
LEMMA InitKept ==
  ASSUME IngestInit
  PROVE  IInv
  <1>1. /\ segment = << >> /\ synced = 0 /\ lock = {} /\ proc = [p \in Processes |-> Down]
        /\ checkpoint = 0 /\ returned = {} /\ spent = [kills |-> 0, losses |-> 0, faults |-> 0]
        /\ acked = {}
    BY DEF IngestInit, Init
  <1>2. proc \in [Processes -> ProcType]
    BY <1>1, DownTyped
  <1>3. segment \in Seq(Entries) /\ Len(segment) = 0
    BY <1>1, EmptySeq
  <1>4. \A p \in Processes : proc[p].pc = "down" /\ ~proc[p].failed
    BY <1>1 DEF Down
  <1>5. TypeOK
    BY <1>1, <1>2, <1>3 DEF TypeOK
  <1>6. LockInv /\ WriterInv /\ IdentityInv
    BY <1>1, <1>3, <1>4 DEF LockInv, WriterInv, IdentityInv, Holding, AppendPcs, Writing
  <1>7. SegmentInv /\ CommitInv /\ AckInv
    BY <1>1, <1>3 DEF SegmentInv, CommitInv, AckInv
  <1> QED
    BY <1>5, <1>6, <1>7 DEF IInv

(* Every action keeps the invariant.                                       *)
LEMMA StepKept ==
  ASSUME IInv, [IngestNext]_vars
  PROVE  IInv'
  <1>1. CASE UNCHANGED vars
    BY <1>1 DEF vars, journalVars, IInv, TypeOK, LockInv, SegmentInv, WriterInv, IdentityInv,
       CommitInv, AckInv, Whole, Faultless
  <1>2. CASE LosePower
    BY <1>2, LosePowerKept
  <1>3. ASSUME NEW p \in Processes, NEW d \in Values, AnswerRetry(p, d) \/ BeginDelivery(p, d)
        PROVE  IInv'
    BY <1>3, AnswerRetryKept, BeginDeliveryKept
  <1>4. ASSUME NEW p \in Processes,
               LinkObject(p) \/ SyncObject(p) \/ RecordDelivery(p) \/ FinishDelivery(p)
        PROVE  IInv'
    BY <1>4, ObjectKept, RecordDeliveryKept, FinishDeliveryKept
  <1>5. ASSUME NEW p \in Processes, UNCHANGED ingestVars,
               StartupStep(p) \/ Release(p) \/ WriteOn(p) \/ AppendFails(p)
        PROVE  IInv'
    BY <1>5, StartupKept, TruncateKept, ReleaseKept, WriteOnKept, AppendFailsKept DEF StartupStep
  <1>6. ASSUME NEW p \in Processes, UNCHANGED ingestVars, Close(p) \/ Kill(p)
        PROVE  IInv'
    <2>1. CASE Close(p)
      BY <1>6, <2>1, ExitsKept DEF Close, ingestVars
    <2>2. CASE Kill(p)
      BY <1>6, <2>2, ExitsKept DEF Kill, ingestVars
    <2> QED
      BY <1>6, <2>1, <2>2
  <1>7. ASSUME NEW p \in Processes, NEW n \in 1 .. Len(segment), SaveCheckpoint(p, n),
               UNCHANGED ingestVars
        PROVE  IInv'
    BY <1>7, SaveCheckpointKept
  <1> QED
    BY <1>1, <1>2, <1>3, <1>4, <1>5, <1>6, <1>7 DEF IngestNext

(* The invariant holds of every behaviour of the deliveries.               *)
LEMMA Invariance == IngestSpec => []IInv
  <1>1. IngestInit => IInv
    BY InitKept
  <1>2. IInv /\ [IngestNext]_vars => IInv'
    BY StepKept
  <1> QED
    BY <1>1, <1>2, PTL DEF IngestSpec

-----------------------------------------------------------------------------
(* What it is for.                                                         *)

(* The segment, the writers and their positions always are what the code   *)
(* declares them to be, over crashes, power losses and truncations.        *)
THEOREM TypeCorrect == IngestSpec => []TypeOK
  <1>1. IInv => TypeOK
    BY DEF IInv
  <1> QED
    BY <1>1, Invariance, PTL

(* However often the MTA retries and whichever process answers it, the     *)
(* search under the append mutex leaves one record of a delivery identity. *)
THEOREM OneRecordPerIdentityCorrect == IngestSpec => []OneRecordPerIdentity
  <1>1. ASSUME IInv PROVE OneRecordPerIdentity
    <2>1. Len(segment) \in Nat /\ SafeEnd \in 0 .. Len(segment)
      BY <1>1, SafeEndIs DEF IInv, TypeOK
    <2>2. 1 .. SafeEnd \subseteq 1 .. Len(segment)
      BY <2>1
    <2> QED
      BY <1>1, <2>2 DEF OneRecordPerIdentity, IInv, IdentityInv
  <1> QED
    BY <1>1, Invariance, PTL

(* Without power losses, or without kills and faults, what the MTA was     *)
(* told was delivered can be read from the journal.                        *)
THEOREM AckedSurvivesCorrect == IngestSpec => []AckedSurvivesOneKind
  <1>1. ASSUME IInv PROVE AckedSurvivesOneKind
    <2>0. TypeOK /\ SegmentInv /\ AckInv
      BY <1>1 DEF IInv
    <2>1. Len(segment) \in Nat /\ synced \in Nat /\ synced <= Len(segment)
      BY <2>0 DEF TypeOK
    <2>2. ASSUME NEW n \in 1 .. Len(segment), Whole(n) PROVE n \in 1 .. SafeEnd
      BY <2>0, <2>1, <2>2, SafeEndIs
    <2>3. ASSUME NEW n \in 1 .. synced PROVE n \in 1 .. SafeEnd
      BY <2>0, <2>1, <2>2 DEF SegmentInv
    <2>4. spent.losses = 0 => AckedIsRecorded
      BY <2>0, <2>2 DEF AckInv, AckedIsRecorded
    <2>5. Faultless => AckedIsRecorded
      BY <2>0, <2>3 DEF AckInv, AckedIsRecorded
    <2> QED
      BY <2>4, <2>5 DEF AckedSurvivesOneKind, Faultless
  <1> QED
    BY <1>1, Invariance, PTL

(* Power losses alone never take a record from the journal that a consumer *)
(* has applied and whose position it has stored.                           *)
THEOREM CheckpointInJournalCorrect == IngestSpec => []CheckpointInJournal
  <1>1. ASSUME IInv PROVE CheckpointInJournal
    <2>0. TypeOK /\ SegmentInv /\ CommitInv
      BY <1>1 DEF IInv
    <2>1. /\ Len(segment) \in Nat /\ synced \in Nat /\ synced <= Len(segment)
          /\ checkpoint \in Nat
      BY <2>0 DEF TypeOK
    <2>2. SafeEnd \in Nat /\ synced <= SafeEnd
      <3>1. CASE Len(segment) = 0
        BY <2>0, <2>1, <3>1, SafeEndIs
      <3>2. CASE Len(segment) # 0 /\ Whole(Len(segment))
        BY <2>0, <2>1, <3>2, SafeEndIs
      <3>3. CASE Len(segment) # 0 /\ ~Whole(Len(segment))
        <4>1. synced # Len(segment)
          BY <2>0, <2>1, <3>3 DEF SegmentInv
        <4> QED
          BY <2>0, <2>1, <3>3, <4>1, SafeEndIs
      <3> QED
        BY <3>1, <3>2, <3>3
    <2> QED
      BY <2>0, <2>1, <2>2 DEF CheckpointInJournal, CommitInv, Faultless, Ahead
  <1> QED
    BY <1>1, Invariance, PTL

-----------------------------------------------------------------------------
(* The refinement of the durable log.                                      *)

Committed == SubSeq(segment, 1, synced)

(* A step that keeps the synced records as they are extends the log.       *)
LEMMA Extends ==
  ASSUME TypeOK, TypeOK', synced <= synced', \A i \in 1 .. synced : segment'[i] = segment[i]
  PROVE  Log!Commit
  <1> DEFINE c == Committed  d == Committed'
  <1>1. /\ Len(segment) \in Nat /\ synced \in 0 .. Len(segment)
        /\ Len(segment') \in Nat /\ synced' \in 0 .. Len(segment')
    BY DEF TypeOK
  <1>2. c \in Seq(Entries) /\ Len(c) = synced /\ \A i \in 1 .. synced : c[i] = segment[i]
    <2> HIDE DEF Entries
    <2> QED
      BY <1>1, Cutting DEF Committed
  <1>3. d \in Seq(Entries) /\ Len(d) = synced' /\ \A i \in 1 .. synced' : d[i] = segment'[i]
    <2> HIDE DEF Entries
    <2>1. segment' \in Seq(Entries) /\ synced' \in 0 .. Len(segment')
      BY <1>1 DEF TypeOK
    <2>2. \A s \in Seq(Entries) : \A n \in 0 .. Len(s) :
            /\ SubSeq(s, 1, n) \in Seq(Entries) /\ Len(SubSeq(s, 1, n)) = n
            /\ \A i \in 1 .. n : SubSeq(s, 1, n)[i] = s[i]
      BY ElementOfSeq, SubSeqProperties
    <2>3. /\ SubSeq(segment', 1, synced') \in Seq(Entries) /\ Len(SubSeq(segment', 1, synced')) = synced'
          /\ \A i \in 1 .. synced' : SubSeq(segment', 1, synced')[i] = segment'[i]
      BY <2>1, <2>2
    <2> QED
      BY <2>3 DEF Committed
  <1> HIDE DEF c, d, Entries
  <1>4. \A i \in 1 .. synced : d[i] = c[i]
    BY <1>1, <1>2, <1>3
  <1>5. \A i \in 1 .. synced : d[i] \in Entries
    BY <1>1, <1>3, ElementOfSeq
  <1>6. /\ SubSeq(d, 1, synced) \in Seq(Entries) /\ Len(SubSeq(d, 1, synced)) = synced
        /\ \A i \in 1 .. synced : SubSeq(d, 1, synced)[i] = d[i]
    BY <1>1, <1>3, <1>5, SubSeqProperties
  <1>7. SubSeq(d, 1, synced) = c
    BY <1>2, <1>4, <1>6, SeqEqual
  <1> QED
    BY <1>1, <1>2, <1>3, <1>7 DEF Log!Commit, Committed, c, d

(* Every step of the journal extends the log or leaves it, and reports a   *)
(* position to a caller only when it is in the log.                        *)
LEMMA StepRefines ==
  ASSUME IInv, IInv', [IngestNext]_vars
  PROVE  [Log!Next]_Log!vars
  <1>0. TypeOK /\ TypeOK' /\ LockInv /\ SegmentInv /\ WriterInv
    BY DEF IInv
  <1>1. Len(segment) \in Nat /\ synced \in Nat /\ synced <= Len(segment)
    BY <1>0 DEF TypeOK
  <1>2. CASE UNCHANGED <<segment, synced, returned>>
    BY <1>2 DEF Log!vars
  <1>3. CASE LosePower
    <2>1. UNCHANGED returned /\ synced <= synced' /\ \A i \in 1 .. synced : segment'[i] = segment[i]
      <3>1. PowerLoss /\ UNCHANGED returned
        BY <1>3 DEF LosePower, PowerLoss
      <3>2. /\ synced' \in Nat /\ synced <= synced' /\ synced' <= Len(segment') /\ Len(segment') \in Nat
            /\ \A i \in 1 .. Len(segment') : i <= synced' => segment'[i] = segment[i]
        <4> HIDE DEF Entries
        <4> QED
          BY <3>1, PowerLossLeaves
      <3> QED
        BY <1>1, <3>1, <3>2
    <2> QED
      BY <1>0, <2>1, Extends DEF Log!Next, Log!Report
  <1>4. ASSUME NEW p \in Processes, FinishDelivery(p)
        PROVE  [Log!Next]_Log!vars
    <2>1. /\ proc[p].pc = "written" /\ synced' = Len(segment) /\ segment' = segment
          /\ returned' = returned \cup {proc[p].next}
      BY <1>4 DEF FinishDelivery, SyncRecord
    <2>2. proc[p].next = Len(segment) /\ Len(segment) > 0
      BY <1>0, <2>1 DEF WriterInv, Writing
    <2>3. Log!Commit
      BY <1>0, <1>1, <2>1, Extends
    <2>4. proc[p].next \in DOMAIN Committed'
      <3>1. Len(Committed') = Len(segment)
        <4>1. segment \in Seq(Entries) /\ Committed' = SubSeq(segment, 1, Len(segment))
          BY <1>0, <2>1 DEF TypeOK, Committed
        <4> HIDE DEF Entries
        <4> QED
          BY <1>0, <1>1, <4>1, Cutting
      <3>2. Committed' \in Seq(Entries)
        BY <2>3 DEF Log!Commit, Committed
      <3> QED
        BY <1>1, <2>2, <3>1, <3>2
    <2> QED
      BY <2>1, <2>3, <2>4 DEF Log!Next, Log!Report, Committed
  <1>5. ASSUME NEW p \in Processes, RecordDelivery(p)
        PROVE  [Log!Next]_Log!vars
    <2>1. BeginRecord(p) /\ UNCHANGED <<synced, returned>>
      BY <1>5 DEF RecordDelivery, BeginRecord
    <2>2. \A i \in 1 .. Len(segment) : segment'[i] = segment[i]
      <3> HIDE DEF Entries
      <3> QED
        BY <1>0, <2>1, Appending
    <2>3. Log!Commit
      BY <1>0, <1>1, <2>1, <2>2, Extends
    <2> QED
      BY <2>1, <2>3 DEF Log!Next, Log!Report
  <1>6. ASSUME NEW p \in Processes, WriteOn(p)
        PROVE  [Log!Next]_Log!vars
    <2>1. proc[p].pc \in {"header", "body"} /\ UNCHANGED <<synced, returned>>
      BY <1>6 DEF WriteOn
    <2>2. Len(segment) > 0 /\ segment[Len(segment)].size # "whole"
      BY <1>0, <2>1 DEF WriterInv, Writing, SizeAt
    <2>3. synced < Len(segment)
      BY <1>0, <1>1, <2>2 DEF SegmentInv, Whole
    <2>4. \A i \in 1 .. synced : segment'[i] = segment[i]
      <3>1. PICK size \in Sizes : segment' = [segment EXCEPT ![Len(segment)].size = size]
        BY <1>6 DEF WriteOn
      <3>2. segment' = [segment EXCEPT ![Len(segment)] = [segment[Len(segment)] EXCEPT !.size = size]]
        BY <3>1
      <3>3. segment \in Seq(Entries)
        BY <1>0 DEF TypeOK
      <3> HIDE DEF Entries
      <3> QED
        BY <1>1, <2>3, <3>2, <3>3
    <2>5. Log!Commit
      BY <1>0, <1>1, <2>1, <2>4, Extends
    <2> QED
      BY <2>1, <2>5 DEF Log!Next, Log!Report
  <1>7. ASSUME NEW p \in Processes, TruncateSuffix(p)
        PROVE  [Log!Next]_Log!vars
    <2>1. CASE ~StillSame(p)
      BY <1>7, <2>1, <1>2 DEF TruncateSuffix
    <2>2. CASE StillSame(p)
      <3>1. /\ Recoverable /\ segment' = SubSeq(segment, 1, Len(segment) - 1)
            /\ synced' = Len(segment) - 1 /\ UNCHANGED returned
        BY <1>7, <2>2 DEF TruncateSuffix, StillSame
      <3>2. Len(segment) \in Nat \ {0} /\ segment[Len(segment)].size # "whole"
        BY <1>0, <3>1, SafeEndIs DEF Recoverable, PartialSuffix, TypeOK
      <3>3. synced <= Len(segment) - 1
        BY <1>0, <1>1, <3>2 DEF SegmentInv, Whole
      <3>4. \A i \in 1 .. synced : segment'[i] = segment[i]
        <4> DEFINE end == Len(segment) - 1
        <4>1. end \in 0 .. Len(segment) /\ segment' = SubSeq(segment, 1, end)
          BY <3>1, <3>2
        <4>2. synced <= end
          BY <3>3
        <4> HIDE DEF end, Entries
        <4>3. \A i \in 1 .. end : segment'[i] = segment[i]
          BY <1>0, <4>1, Cutting
        <4> QED
          BY <1>1, <4>1, <4>2, <4>3
      <3>5. Log!Commit
        BY <1>0, <1>1, <3>1, <3>3, <3>4, Extends
      <3> QED
        BY <3>1, <3>5 DEF Log!Next, Log!Report
    <2> QED
      BY <2>1, <2>2
  <1>8. CASE UNCHANGED vars
    BY <1>2, <1>8 DEF vars, journalVars
  <1>9. ASSUME NEW p \in Processes, NEW d \in Values, AnswerRetry(p, d) \/ BeginDelivery(p, d)
        PROVE  UNCHANGED <<segment, synced, returned>>
    BY <1>9 DEF AnswerRetry, BeginDelivery, LockAppend, journalVars
  <1>10. ASSUME NEW p \in Processes, LinkObject(p) \/ SyncObject(p)
         PROVE  UNCHANGED <<segment, synced, returned>>
    BY <1>10 DEF LinkObject, SyncObject, journalVars
  <1>11. ASSUME NEW p \in Processes,
                \/ Start(p) \/ Validate(p) \/ ScanSuffix(p) \/ OpenWriter(p) \/ PrepareCatalog(p)
                \/ Release(p) \/ AppendFails(p) \/ Close(p) \/ Kill(p)
                \/ \E n \in 1 .. Len(segment) : SaveCheckpoint(p, n)
         PROVE  UNCHANGED <<segment, synced, returned>>
    BY <1>11 DEF Start, Validate, ScanSuffix, OpenWriter, PrepareCatalog, Release, AppendFails,
       Close, Kill, SaveCheckpoint
  <1> QED
    BY <1>2, <1>3, <1>4, <1>5, <1>6, <1>7, <1>8, <1>9, <1>10, <1>11 DEF IngestNext, StartupStep

(* What append returned is on stable storage at the position returned, and *)
(* no crash, power loss, recovery or writer that reopens the segment takes *)
(* it away: the journal, its deliveries included, is a durable log.        *)
THEOREM DurableLogRefined == IngestSpec => ImplementsDurableLog
  <1>1. IngestInit => Log!Init
    <2>1. ASSUME IngestInit PROVE Log!Init
      <3>1. segment = << >> /\ synced = 0 /\ returned = {}
        BY <2>1 DEF IngestInit, Init
      <3>2. SubSeq(segment, 1, synced) = << >>
        BY <3>1
      <3> QED
        BY <3>1, <3>2 DEF Log!Init
    <2> QED
      BY <2>1
  <1>2. IInv /\ IInv' /\ [IngestNext]_vars => [Log!Next]_Log!vars
    BY StepRefines
  <1> QED
    BY <1>1, <1>2, Invariance, PTL DEF IngestSpec, ImplementsDurableLog, Log!Spec
=============================================================================
