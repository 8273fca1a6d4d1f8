----------------------- MODULE MaterializationProofs -----------------------
(***************************************************************************)
(* Proofs about Materialization, for every set of accounts, journal and    *)
(* history of faults: its types, and its safety properties and the         *)
(* refinement of AccountReplay from one inductive invariant.               *)
(***************************************************************************)
EXTENDS Materialization, SequenceTheorems, TLAPS

(* Indices the last record adds when one is appended. *)
LEMMA AppendIndices ==
  ASSUME NEW S, NEW s \in Seq(S), NEW e \in S
  PROVE  /\ Append(s, e) \in Seq(S) /\ Len(Append(s, e)) = Len(s) + 1
         /\ \A i \in 1 .. Len(s) : Append(s, e)[i] = s[i]
         /\ 1 .. Len(s) \subseteq 1 .. (Len(s) + 1)
         /\ Len(s) \in Nat
  BY SMT

-----------------------------------------------------------------------------
(* Type correctness.                                                       *)

LEMMA InitTypeOK == Init => TypeOK
<1> SUFFICES ASSUME Init PROVE TypeOK
  OBVIOUS
<1>1. journal \in Seq([account : Accounts, kind : Kinds, of : Nat]) /\ Indices = {}
  BY SMT DEF Init, Indices
<1>2. pass \in PassType
  BY DEF Init, PassType, IdlePass
<1>3. /\ checkpoint \in Nat /\ applied \in SUBSET Indices
      /\ refreshed \in [Accounts -> Nat]
      /\ bad \in SUBSET Indices /\ owed \in BOOLEAN
      /\ mode \in {"down", "starting", "serving", "stopped"}
      /\ holds \in SUBSET Accounts /\ cursor \in Nat
      /\ refreshHolds \in SUBSET Accounts /\ pending \in SUBSET Accounts
      /\ retry \in BOOLEAN /\ failing \in BOOLEAN
  BY DEF Init
<1>4. interval \in RetryInitial .. RetryMax
  BY RetryAssumption DEF Init
<1>5. spent \in Budgets
  BY DEF Init, Budgets
<1> QED
  BY <1>1, <1>2, <1>3, <1>4, <1>5 DEF TypeOK

(* TypeOK in parts that most actions change one at a time. *)
DurableType ==
  /\ journal \in Seq([account : Accounts, kind : Kinds, of : Nat])
  /\ checkpoint \in Nat /\ applied \in SUBSET Indices
  /\ refreshed \in [Accounts -> Nat] /\ bad \in SUBSET Indices
OutsideType ==
  owed \in BOOLEAN /\ mode \in {"down", "starting", "serving", "stopped"}
QueueType ==
  /\ holds \in SUBSET Accounts /\ cursor \in Nat
  /\ refreshHolds \in SUBSET Accounts /\ pending \in SUBSET Accounts
TimerType ==
  retry \in BOOLEAN /\ failing \in BOOLEAN /\ interval \in RetryInitial .. RetryMax

LEMMA TypeSplit ==
  TypeOK <=> /\ DurableType /\ OutsideType /\ QueueType /\ TimerType
             /\ pass \in PassType /\ spent \in Budgets
  BY DEF TypeOK, DurableType, OutsideType, QueueType, TimerType

LEMMA DurableKept ==
  ASSUME DurableType, UNCHANGED <<journal, catalogVars, bad>>
  PROVE  DurableType'
<1>1. /\ UNCHANGED <<journal, checkpoint, applied, refreshed, bad>>
      /\ Indices' = Indices
  BY DEF catalogVars, Indices
<1> QED
  BY <1>1 DEF DurableType

LEMMA OutsideKept ==
  ASSUME OutsideType, UNCHANGED <<owed, mode>> PROVE OutsideType'
  BY DEF OutsideType

LEMMA QueueKept ==
  ASSUME QueueType, UNCHANGED <<holds, cursor, refreshHolds, pending>>
  PROVE  QueueType'
  BY DEF QueueType

LEMMA TimerKept ==
  ASSUME TimerType, UNCHANGED <<retry, interval, failing>> PROVE TimerType'
  BY DEF TimerType

LEMMA ServiceKept ==
  ASSUME QueueType, TimerType, UNCHANGED serviceVars PROVE QueueType' /\ TimerType'
<1>1. UNCHANGED <<holds, cursor, refreshHolds, pending>>
      /\ UNCHANGED <<retry, interval, failing>>
  BY DEF serviceVars
<1> QED
  BY <1>1, QueueKept, TimerKept

(* The fields of the pass that a step of it sets. *)
LEMMA PassMoves ==
  ASSUME NEW p \in PassType, NEW n \in Nat \ {0}
  PROVE  /\ [p EXCEPT !.at = n] \in PassType
         /\ \A S \in SUBSET Accounts : /\ [p EXCEPT !.at = n, !.held = S] \in PassType
                                       /\ [p EXCEPT !.at = n, !.done = S] \in PassType
  BY DEF PassType

LEMMA PassTodo ==
  ASSUME NEW p \in PassType, NEW S \in SUBSET Accounts
  PROVE  /\ [p EXCEPT !.phase = "extract", !.todo = S] \in PassType
         /\ [p EXCEPT !.phase = "refresh", !.todo = S] \in PassType
         /\ [p EXCEPT !.todo = S] \in PassType
  BY DEF PassType

LEMMA PassExtracted ==
  ASSUME NEW p \in PassType, NEW X \in SUBSET Nat
  PROVE  [p EXCEPT !.extracted = X] \in PassType
  BY DEF PassType

LEMMA PassFields ==
  ASSUME NEW p \in PassType
  PROVE  /\ p.kind \in PassKinds \cup {"none"} /\ p.start \in Nat
         /\ p.at \in Nat \ {0} /\ p.end \in Nat /\ p.held \in SUBSET Accounts
         /\ p.done \in SUBSET Accounts /\ p.todo \in SUBSET Accounts
         /\ p.extracted \in SUBSET Nat
  BY DEF PassType

LEMMA IdlePassType == IdlePass \in PassType
  BY DEF IdlePass, PassType

(* A new scan is well formed and lies inside the journal. *)
LEMMA StartScanType ==
  ASSUME TypeOK, NEW k \in PassKinds \cup {"none"}, NEW f \in BOOLEAN
  PROVE  StartScan(k, f) \in PassType
<1>1. Len(journal) \in Nat
  BY LenProperties DEF TypeOK
<1>2. CarriedHolds(k) \in SUBSET Accounts /\ FromCheckpoint(k) \in BOOLEAN
  BY DEF TypeOK, CarriedHolds, FromCheckpoint, Resumes
<1>3. /\ (IF Resumes(k) THEN cursor ELSE checkpoint) \in Nat
      /\ (IF Resumes(k) THEN cursor ELSE checkpoint) + 1 \in Nat
  BY DEF TypeOK
<1> QED
  BY <1>1, <1>2, <1>3 DEF StartScan, PassType

LEMMA AppendType ==
  ASSUME TypeOK, NEW rec \in [account : Accounts, kind : Kinds, of : Nat],
         AppendRecord(rec)
  PROVE  /\ journal' \in Seq([account : Accounts, kind : Kinds, of : Nat])
         /\ Len(journal') = Len(journal) + 1 /\ Len(journal) \in Nat
         /\ \A i \in Indices : journal'[i] = journal[i]
         /\ Indices \subseteq Indices'
  BY AppendIndices DEF TypeOK, AppendRecord, Indices

LEMMA JournalChangesType ==
  ASSUME TypeOK, NEW a \in Accounts, NEW m, JournalChanges(a, m)
  PROVE  /\ journal' \in Seq([account : Accounts, kind : Kinds, of : Nat])
         /\ Indices \subseteq Indices'
<1>1. CASE UNCHANGED journal
  BY <1>1 DEF TypeOK, Indices
<1>2. CASE AppendRecord([account |-> a, kind |-> "view", of |-> 0])
  <2>1. [account |-> a, kind |-> "view", of |-> 0]
          \in [account : Accounts, kind : Kinds, of : Nat]
    BY DEF Kinds
  <2> QED
    BY <1>2, <2>1, AppendType
<1> QED
  BY <1>1, <1>2 DEF JournalChanges

(* A dying process leaves a well-formed one. *)
LEMMA ProcessEndsType ==
  ASSUME ProcessEnds
  PROVE  OutsideType' /\ QueueType' /\ TimerType' /\ pass' \in PassType
<1>1. OutsideType' /\ QueueType'
  BY DEF ProcessEnds, OutsideType, QueueType
<1>2. TimerType'
  <2>1. RetryInitial \in RetryInitial .. RetryMax
    BY RetryAssumption
  <2> QED
    BY <2>1 DEF ProcessEnds, TimerType
<1> QED
  BY <1>1, <1>2, IdlePassType DEF ProcessEnds

LEMMA BackoffType ==
  ASSUME TypeOK PROVE Backoff \in RetryInitial .. RetryMax
  BY RetryAssumption, SMT DEF TypeOK, Backoff, NextInterval

(* One transaction keeps the catalog well formed. *)
LEMMA ApplyType ==
  ASSUME TypeOK, Scanning, NEW j \in Indices, IsMaximalRun(pass.at, j),
         UNCHANGED journal, Apply(pass.at, j)
  PROVE  applied' \in SUBSET Indices /\ checkpoint' \in Nat
<1>1. pass.at .. j \subseteq Indices
  BY LenProperties, SMT DEF TypeOK, PassType, IsMaximalRun, Indices
<1>2. applied' \in SUBSET Indices
  BY <1>1 DEF Apply, TypeOK
<1>3. checkpoint' \in Nat
  BY DEF Apply, Advance, MaxOf, TypeOK, Indices
<1> QED
  BY <1>2, <1>3

LEMMA SpentType ==
  ASSUME spent \in Budgets
  PROVE  /\ [spent EXCEPT !.aborts = @ + 1] \in Budgets
         /\ [spent EXCEPT !.failures = @ + 1] \in Budgets
         /\ [spent EXCEPT !.breaks = @ + 1] \in Budgets
         /\ [spent EXCEPT !.restarts = @ + 1] \in Budgets
  BY DEF Budgets

(* The run a scan is at lies inside the journal and has an account. *)
LEMMA RunType ==
  ASSUME TypeOK, Scanning, NEW j \in Indices, IsMaximalRun(pass.at, j)
  PROVE  /\ pass.at \in Indices /\ j + 1 \in Nat \ {0}
         /\ journal[pass.at].account \in Accounts
<1>1. Len(journal) \in Nat /\ pass.at \in Nat \ {0} /\ pass.end \in Nat
  BY LenProperties, PassFields DEF TypeOK
<1>2. pass.at \in Indices /\ j + 1 \in Nat \ {0}
  BY <1>1 DEF IsMaximalRun, Indices
<1>3. journal[pass.at] \in [account : Accounts, kind : Kinds, of : Nat]
  BY <1>2, ElementOfSeq DEF TypeOK, Indices
<1> QED
  BY <1>2, <1>3

LEMMA TypeStep ==
  ASSUME TypeOK, [Next]_vars
  PROVE  TypeOK'
<1> DEFINE Good == /\ DurableType' /\ OutsideType' /\ QueueType' /\ TimerType'
                   /\ pass' \in PassType /\ spent' \in Budgets
<1>1. /\ DurableType /\ OutsideType /\ QueueType /\ TimerType
      /\ pass \in PassType /\ spent \in Budgets
  BY TypeSplit
<1>2. Good => TypeOK'
  BY DEF TypeOK, DurableType, OutsideType, QueueType, TimerType
<1>3. /\ Len(journal) \in Nat /\ pass.held \in SUBSET Accounts
      /\ pass.done \in SUBSET Accounts /\ pass.todo \in SUBSET Accounts
      /\ pass.extracted \in SUBSET Nat
  BY <1>1, LenProperties, PassFields DEF DurableType
<1>4. ASSUME NEW j \in Indices, SkipRun(j) \/ HoldRun(j) PROVE Good
  <2>1. /\ UNCHANGED <<journal, catalogVars, bad>> /\ UNCHANGED <<owed, mode>>
        /\ UNCHANGED serviceVars /\ spent' = spent
        /\ Scanning /\ IsMaximalRun(pass.at, j)
    BY <1>4 DEF SkipRun, HoldRun
  <2>2. journal[pass.at].account \in Accounts /\ j + 1 \in Nat \ {0}
    BY <2>1, RunType
  <2>3. pass.held \cup {journal[pass.at].account} \in SUBSET Accounts
    BY <1>3, <2>2
  <2>4. \/ pass' = [pass EXCEPT !.at = j + 1]
        \/ pass' = [pass EXCEPT !.at = j + 1,
                                !.held = pass.held \cup {journal[pass.at].account}]
    BY <1>4 DEF SkipRun, HoldRun
  <2>5. pass' \in PassType
    <3>1. \A S \in SUBSET Accounts : [pass EXCEPT !.at = j + 1, !.held = S] \in PassType
      BY <1>1, <2>2, PassMoves
    <3>2. [pass EXCEPT !.at = j + 1] \in PassType
      BY <1>1, <2>2, PassMoves
    <3> QED
      BY <2>3, <2>4, <3>1, <3>2
  <2> QED
    BY <1>1, <2>1, <2>5, DurableKept, OutsideKept, ServiceKept
<1>5. ASSUME NEW j \in Indices, ApplyRun(j) PROVE Good
  <2>1. /\ UNCHANGED <<journal, refreshed, bad>> /\ UNCHANGED <<owed, mode>>
        /\ UNCHANGED serviceVars /\ spent' = spent
        /\ Scanning /\ IsMaximalRun(pass.at, j) /\ Apply(pass.at, j)
    BY <1>5 DEF ApplyRun
  <2>2. applied' \in SUBSET Indices /\ checkpoint' \in Nat
    BY <2>1, ApplyType
  <2>3. DurableType'
    BY <1>1, <2>1, <2>2 DEF DurableType, Indices
  <2>4. journal[pass.at].account \in Accounts /\ j + 1 \in Nat \ {0}
    BY <2>1, RunType
  <2>5. PICK S \in SUBSET Accounts : pass' = [pass EXCEPT !.at = j + 1, !.done = S]
    <3>1. pass' = [pass EXCEPT
                     !.at = j + 1,
                     !.done = IF journal[pass.at].kind = "view" THEN pass.done
                              ELSE pass.done \cup {journal[pass.at].account}]
      BY <1>5 DEF ApplyRun
    <3> QED
      BY <1>3, <2>4, <3>1
  <2>6. pass' \in PassType
    BY <1>1, <2>4, <2>5, PassMoves
  <2> QED
    BY <1>1, <2>1, <2>3, <2>6, OutsideKept, ServiceKept
<1>6. ASSUME EndFirstScan PROVE Good
  <2>1. /\ UNCHANGED <<journal, catalogVars, bad>> /\ UNCHANGED <<owed, mode>>
        /\ UNCHANGED <<retry, interval, failing>> /\ spent' = spent
    BY <1>6 DEF EndFirstScan
  <2>2. pending' \in SUBSET Accounts /\ pending' \ pass.held \in SUBSET Accounts
    BY <1>1, <1>3, <1>6 DEF EndFirstScan, QueueType
  <2>3. QueueType'
    BY <1>1, <1>6, <2>2 DEF EndFirstScan, QueueType
  <2>4. PICK S \in SUBSET Accounts : pass' = [pass EXCEPT !.phase = "extract", !.todo = S]
    BY <1>6, <2>2 DEF EndFirstScan
  <2>5. pass' \in PassType
    BY <1>1, <2>4, PassTodo
  <2> QED
    BY <1>1, <2>1, <2>3, <2>5, DurableKept, OutsideKept, TimerKept
<1>7. ASSUME NEW a \in Accounts, NEW i \in Indices, ExtractMessage(a, i) PROVE Good
  <2>1. [account |-> a, kind |-> "facts", of |-> i]
          \in [account : Accounts, kind : Kinds, of : Nat]
    BY DEF Kinds, Indices
  <2>2. /\ journal' \in Seq([account : Accounts, kind : Kinds, of : Nat])
        /\ Indices \subseteq Indices'
    BY <1>7, <2>1, AppendType DEF ExtractMessage
  <2>3. /\ UNCHANGED <<checkpoint, applied, refreshed, bad>>
        /\ UNCHANGED <<owed, mode>> /\ UNCHANGED serviceVars /\ spent' = spent
        /\ pass' = [pass EXCEPT !.extracted = pass.extracted \cup {i}]
    BY <1>7 DEF ExtractMessage, catalogVars
  <2>4. DurableType'
    BY <1>1, <2>2, <2>3 DEF DurableType
  <2>5. pass.extracted \cup {i} \in SUBSET Nat
    BY <1>3 DEF Indices
  <2>6. pass' \in PassType
    BY <1>1, <2>3, <2>5, PassExtracted
  <2> QED
    BY <1>1, <2>3, <2>4, <2>6, OutsideKept, ServiceKept
<1>8. ASSUME NEW a \in Accounts, ExtractDone(a) \/ ExtractFail(a) PROVE Good
  <2>1. /\ UNCHANGED <<journal, catalogVars, bad>> /\ UNCHANGED <<owed, mode>>
        /\ UNCHANGED <<retry, interval, failing>>
        /\ UNCHANGED <<holds, cursor, pending>>
        /\ refreshHolds' \in {refreshHolds, refreshHolds \cup {a}}
        /\ spent' \in {spent, [spent EXCEPT !.failures = @ + 1]}
        /\ pass' = [pass EXCEPT !.todo = pass.todo \ {a}]
    BY <1>8 DEF ExtractDone, ExtractFail, serviceVars
  <2>2. QueueType'
    BY <1>1, <2>1 DEF QueueType
  <2>3. spent' \in Budgets
    BY <1>1, <2>1, SpentType
  <2>4. pass' \in PassType
    BY <1>1, <1>3, <2>1, PassTodo
  <2> QED
    BY <1>1, <2>1, <2>2, <2>3, <2>4, DurableKept, OutsideKept, TimerKept
<1>9. ASSUME StartFollowUp PROVE Good
  <2>1. /\ UNCHANGED <<journal, catalogVars, bad>> /\ UNCHANGED <<owed, mode>>
        /\ UNCHANGED serviceVars /\ spent' = spent
        /\ pass' = StartScan(pass.kind, TRUE)
    BY <1>9 DEF StartFollowUp
  <2>2. pass' \in PassType
    BY <1>1, <2>1, StartScanType, PassFields
  <2> QED
    BY <1>1, <2>1, <2>2, DurableKept, OutsideKept, ServiceKept
<1>10. ASSUME StartRefresh PROVE Good
  <2>1. /\ UNCHANGED <<journal, catalogVars, bad>> /\ UNCHANGED <<owed, mode>>
        /\ UNCHANGED <<retry, interval, failing>> /\ spent' = spent
        /\ UNCHANGED <<holds, cursor, refreshHolds>>
        /\ pass' = [pass EXCEPT !.phase = "refresh",
                                !.todo = RefreshTodo(pending \cup pass.done)]
    BY <1>10 DEF StartRefresh
  <2>2. pending' \in SUBSET Accounts
    BY <1>1, <1>3, <1>10 DEF StartRefresh, QueueType
  <2>3. RefreshTodo(pending \cup pass.done) \in SUBSET Accounts
    BY <1>1, <1>3 DEF RefreshTodo, QueueType
  <2>4. pass' \in PassType
    BY <1>1, <2>1, <2>3, PassTodo
  <2>5. QueueType'
    BY <1>1, <2>1, <2>2 DEF QueueType
  <2> QED
    BY <1>1, <2>1, <2>4, <2>5, DurableKept, OutsideKept, TimerKept
<1>11. ASSUME NEW a \in Accounts, NEW m \in Indices \cup {0}, RefreshAccount(a, m)
       PROVE  Good
  <2>1. /\ UNCHANGED <<checkpoint, applied, bad>> /\ UNCHANGED <<owed, mode>>
        /\ UNCHANGED <<retry, interval, failing>> /\ spent' = spent
        /\ UNCHANGED <<holds, cursor, refreshHolds>> /\ pending' = pending \ {a}
        /\ pass' = [pass EXCEPT !.todo = pass.todo \ {a}]
        /\ refreshed' = [refreshed EXCEPT ![a] = m]
    BY <1>11 DEF RefreshAccount
  <2>3. /\ journal' \in Seq([account : Accounts, kind : Kinds, of : Nat])
        /\ Indices \subseteq Indices'
    BY <1>11, JournalChangesType DEF RefreshAccount
  <2>4. refreshed' \in [Accounts -> Nat]
    <3>1. refreshed \in [Accounts -> Nat] /\ m \in Nat
      BY <1>1 DEF DurableType, Indices
    <3> QED
      BY <2>1, <3>1, Zenon
  <2>5. DurableType'
    BY <1>1, <2>1, <2>3, <2>4 DEF DurableType
  <2>6. QueueType'
    BY <1>1, <2>1 DEF QueueType
  <2>7. pass' \in PassType
    BY <1>1, <1>3, <2>1, PassTodo
  <2> QED
    BY <1>1, <2>1, <2>5, <2>6, <2>7, OutsideKept, TimerKept
<1>12. ASSUME NEW a \in Accounts, NEW m, RefreshFail(a, m) PROVE Good
  <2>1. /\ UNCHANGED <<checkpoint, applied, refreshed, bad>>
        /\ UNCHANGED <<owed, mode>> /\ UNCHANGED <<retry, interval, failing>>
        /\ UNCHANGED <<holds, cursor, pending>>
        /\ refreshHolds' = refreshHolds \cup {a}
        /\ spent' = [spent EXCEPT !.failures = @ + 1]
        /\ pass' = [pass EXCEPT !.todo = pass.todo \ {a}]
    BY <1>12 DEF RefreshFail, catalogVars
  <2>2. /\ journal' \in Seq([account : Accounts, kind : Kinds, of : Nat])
        /\ Indices \subseteq Indices'
    BY <1>12, JournalChangesType DEF RefreshFail
  <2>3. DurableType' /\ QueueType'
    BY <1>1, <2>1, <2>2 DEF DurableType, QueueType
  <2>4. pass' \in PassType /\ spent' \in Budgets
    BY <1>1, <1>3, <2>1, PassTodo, SpentType
  <2> QED
    BY <1>1, <2>1, <2>3, <2>4, OutsideKept, TimerKept
<1>13. Released => OutsideType'
  BY <1>1 DEF Released, OutsideType
<1>14. Failed => TimerType' /\ pass' \in PassType
  BY <1>1, BackoffType, IdlePassType DEF Failed, Rearm, TimerType
<1>15. ASSUME FinishClean \/ FinishFailed PROVE Good
  <2>1. /\ UNCHANGED <<journal, catalogVars, bad>> /\ spent' = spent
        /\ UNCHANGED <<refreshHolds, pending>> /\ Released
    BY <1>15 DEF FinishClean, FinishFailed
  <2>2. TimerType' /\ pass' \in PassType
    <3>1. RetryInitial \in RetryInitial .. RetryMax
      BY RetryAssumption
    <3>2. CASE FinishClean
      BY <3>1, <3>2, IdlePassType DEF FinishClean, TimerType
    <3>3. CASE FinishFailed
      BY <1>14, <3>3 DEF FinishFailed
    <3> QED
      BY <1>15, <3>2, <3>3
  <2>3. NextCursor \in Nat
    BY <1>1, PassFields DEF NextCursor, ScannedThrough, QueueType
  <2>4. QueueType'
    BY <1>1, <1>3, <1>15, <2>1, <2>3 DEF FinishClean, FinishFailed, QueueType
  <2> QED
    BY <1>1, <1>13, <2>1, <2>2, <2>4, DurableKept
<1>16. ASSUME AbortPass PROVE Good
  <2>1. /\ UNCHANGED <<journal, catalogVars, bad>>
        /\ spent' = [spent EXCEPT !.aborts = @ + 1]
    BY <1>16 DEF AbortPass
  <2>2. DurableType' /\ spent' \in Budgets
    BY <1>1, <2>1, DurableKept, SpentType
  <2>3. CASE ProcessEnds
    BY <2>2, <2>3, ProcessEndsType
  <2>4. CASE cursor' = 0 /\ UNCHANGED <<holds, refreshHolds, pending>>
    <3>1. QueueType'
      BY <1>1, <2>4 DEF QueueType
    <3>2. \/ Failed /\ Released
          \/ /\ pass' = IdlePass
             /\ UNCHANGED <<owed, mode>> /\ UNCHANGED <<retry, interval, failing>>
          \/ ProcessEnds
      BY <1>16 DEF AbortPass
    <3>3. CASE Failed /\ Released
      BY <1>13, <1>14, <2>2, <3>1, <3>3
    <3> QED
      BY <1>1, <2>2, <2>3, <3>1, <3>2, <3>3, IdlePassType, OutsideKept, TimerKept
  <2> QED
    BY <1>16, <2>3, <2>4 DEF AbortPass
<1>17. ASSUME PostIngest \/ CatchUp \/ RetryFires PROVE Good
  <2>1. /\ UNCHANGED <<journal, catalogVars, bad>> /\ UNCHANGED <<owed, mode>>
        /\ UNCHANGED <<holds, cursor, refreshHolds, pending>>
        /\ UNCHANGED <<interval, failing>> /\ retry' \in {retry, FALSE}
        /\ spent' = spent
    BY <1>17 DEF PostIngest, CatchUp, RetryFires, serviceVars
  <2>2. TimerType'
    BY <1>1, <2>1 DEF TimerType
  <2>3. \E k \in PassKinds : pass' = StartScan(k, FALSE)
    BY <1>17 DEF PostIngest, CatchUp, RetryFires, BeginPass, PassKinds
  <2>4. pass' \in PassType
    BY <2>3, StartScanType
  <2> QED
    BY <1>1, <2>1, <2>2, <2>4, DurableKept, OutsideKept, QueueKept
<1>18. ASSUME Boot PROVE Good
  <2>1. /\ UNCHANGED <<journal, catalogVars, bad>> /\ owed' = owed
        /\ mode' = "starting" /\ UNCHANGED <<holds, cursor, refreshHolds>>
        /\ UNCHANGED <<retry, interval, failing>> /\ spent' = spent
        /\ pass' = StartScan("catchUp", FALSE)
    BY <1>18 DEF Boot, BeginPass
  <2>2. \A i \in applied : journal[i].account \in Accounts
    <3>1. ASSUME NEW i \in applied
          PROVE  journal[i] \in [account : Accounts, kind : Kinds, of : Nat]
      BY <1>1, ElementOfSeq DEF DurableType, Indices
    <3> QED
      BY <3>1
  <2>3. pending' \in SUBSET Accounts
    BY <1>18, <2>2 DEF Boot
  <2>4. OutsideType' /\ QueueType'
    BY <1>1, <2>1, <2>3 DEF OutsideType, QueueType
  <2>5. pass' \in PassType
    BY <2>1, StartScanType DEF PassKinds
  <2> QED
    BY <1>1, <2>1, <2>4, <2>5, DurableKept, TimerKept
<1>19. ASSUME NEW a \in Accounts, NEW k \in ClientKinds, ClientAppend(a, k) PROVE Good
  <2>1. [account |-> a, kind |-> k, of |-> 0]
          \in [account : Accounts, kind : Kinds, of : Nat]
    BY KindsAssumption DEF Kinds, MessageKinds
  <2>2. /\ journal' \in Seq([account : Accounts, kind : Kinds, of : Nat])
        /\ Indices \subseteq Indices'
    BY <1>19, <2>1, AppendType DEF ClientAppend
  <2>3. /\ UNCHANGED <<checkpoint, applied, refreshed, bad>>
        /\ UNCHANGED serviceVars /\ UNCHANGED <<mode, pass, spent>> /\ owed' = TRUE
    BY <1>19 DEF ClientAppend, catalogVars
  <2>4. DurableType' /\ OutsideType'
    BY <1>1, <2>2, <2>3 DEF DurableType, OutsideType
  <2> QED
    BY <1>1, <2>3, <2>4, ServiceKept
<1>20. ASSUME NEW i \in Indices, Break(i) \/ Repair(i) PROVE Good
  <2>1. /\ UNCHANGED <<journal, checkpoint, applied, refreshed>>
        /\ Indices' = Indices /\ UNCHANGED serviceVars /\ UNCHANGED <<owed, mode>>
        /\ pass' = pass /\ spent' \in {spent, [spent EXCEPT !.breaks = @ + 1]}
        /\ bad' \in {bad \cup {i}, bad \ {i}}
    BY <1>20 DEF Break, Repair, catalogVars, Indices
  <2>2. DurableType'
    BY <1>1, <2>1 DEF DurableType
  <2>3. spent' \in Budgets
    BY <1>1, <2>1, SpentType
  <2> QED
    BY <1>1, <2>1, <2>2, <2>3, OutsideKept, ServiceKept
<1>21. ASSUME Stop PROVE Good
  <2>1. /\ UNCHANGED <<journal, catalogVars, bad>> /\ UNCHANGED <<owed, pass>>
        /\ UNCHANGED <<holds, cursor, refreshHolds, pending>>
        /\ UNCHANGED <<interval, failing>> /\ retry' = FALSE /\ mode' = "stopped"
        /\ spent' = [spent EXCEPT !.restarts = @ + 1]
    BY <1>21 DEF Stop
  <2>2. OutsideType' /\ TimerType' /\ spent' \in Budgets
    BY <1>1, <2>1, SpentType DEF OutsideType, TimerType
  <2> QED
    BY <1>1, <2>1, <2>2, DurableKept, QueueKept
<1>22. ASSUME Exit \/ Crash PROVE Good
  <2>1. /\ UNCHANGED <<journal, catalogVars, bad>> /\ ProcessEnds
        /\ spent' \in {spent, [spent EXCEPT !.restarts = @ + 1]}
    BY <1>22 DEF Exit, Crash
  <2>2. spent' \in Budgets
    BY <1>1, <2>1, SpentType
  <2> QED
    BY <1>1, <2>1, <2>2, DurableKept, ProcessEndsType
<1>23. ASSUME RebuildCatalog PROVE Good
  <2>1. /\ UNCHANGED <<journal, bad>> /\ UNCHANGED <<owed, mode>>
        /\ UNCHANGED serviceVars /\ pass' = pass
        /\ spent' = [spent EXCEPT !.restarts = @ + 1]
        /\ checkpoint' = 0 /\ applied' = {} /\ refreshed' = [a \in Accounts |-> 0]
    BY <1>23 DEF RebuildCatalog
  <2>4. DurableType'
    BY <1>1, <2>1 DEF DurableType, Indices
  <2>5. spent' \in Budgets
    BY <1>1, <2>1, SpentType
  <2> QED
    BY <1>1, <2>1, <2>4, <2>5, OutsideKept, ServiceKept
<1>24. ASSUME UNCHANGED vars PROVE Good
  <2>1. /\ UNCHANGED <<journal, catalogVars, bad>> /\ UNCHANGED <<owed, mode>>
        /\ UNCHANGED serviceVars /\ UNCHANGED <<pass, spent>>
    BY <1>24 DEF vars, catalogVars, serviceVars
  <2> QED
    BY <1>1, <2>1, DurableKept, OutsideKept, ServiceKept
<1>25. ASSUME Next PROVE Good
  BY <1>4, <1>5, <1>6, <1>7, <1>8, <1>9, <1>10, <1>11, <1>12, <1>15, <1>16, <1>17,
     <1>18, <1>19, <1>20, <1>21, <1>22, <1>23, <1>25
     DEF Next, PassStep, ScanStep, ExtractStep, RefreshStep
<1> QED
  BY <1>2, <1>24, <1>25

(* The daemon's state keeps its shape: in particular the retry interval     *)
(* stays within its configured range, and the catalog holds only records    *)
(* of the journal, whatever fails.                                          *)
THEOREM TypeCorrect == Spec => []TypeOK
<1>1. Init => TypeOK
  BY InitTypeOK
<1>2. TypeOK /\ [Next]_vars => TypeOK'
  BY TypeStep
<1> QED
  BY <1>1, <1>2, PTL DEF Spec

-----------------------------------------------------------------------------
(* The inductive invariant.                                                *)

ClientRecords == Records(ClientKinds)

(* A running scan lies inside the journal and passed over no record but    *)
(* those of the accounts it holds; a post-ingest scan holds at least what   *)
(* it was given.                                                            *)
ScanInv ==
  ~Idle =>
    /\ pass.end <= Len(journal) /\ pass.at <= pass.end + 1
    /\ \A i \in Indices : i < pass.at /\ i \notin applied
                            => journal[i].account \in pass.held
    /\ pass.kind = "postIngest" => holds \subseteq pass.held
    /\ pass.phase # "scan" => pass.at > pass.end

(* The cursor points into the journal; a process that is not running has    *)
(* neither a cursor nor a pass.                                             *)
CursorInv ==
  cursor <= Len(journal) /\ (mode = "down" => Idle /\ cursor = 0)

(* A scan that did not start at the checkpoint holds an account; one that  *)
(* did and holds none has moved the checkpoint along.                       *)
CheckpointInv ==
  ~Idle => IF pass.fromCheckpoint THEN pass.held = {} => pass.at <= checkpoint + 1
                                  ELSE pass.held # {}

(* Client records are inside the range of the running pass unless they are *)
(* owed a pass of their own.                                                *)
OwedInv ==
  /\ pass.kind = "none" <=> Idle
  /\ mode \in {"down", "starting"} => ~owed
  /\ mode = "starting" => pass.kind = "catchUp"
  /\ pass.kind = "postIngest" => owed
  /\ pass.kind = "catchUp" => ~owed
  /\ ~Idle /\ (pass.kind # "retry" \/ ~owed) => ClientRecords \subseteq 1 .. pass.end

(* Without a failure, a request or a running pass that will tell, all      *)
(* client records are below the checkpoint; with a failure, a retry is due. *)
FailureInv ==
  mode = "serving" =>
    /\ ~owed /\ ~failing /\ pass.kind \in {"none", "catchUp"}
         => ClientRecords \subseteq 1 .. checkpoint
    /\ failing => retry \/ pass.kind = "retry"

IInv ==
  /\ TypeOK /\ CheckpointCovered /\ AppliedInOrder /\ CursorSkipsOnlyHeld
  /\ ScanInv /\ CursorInv /\ CheckpointInv /\ OwedInv /\ FailureInv

-----------------------------------------------------------------------------
(* How a step changes the state, by what the invariant looks at.           *)

(* The journal only grows, by one record at a time; only a client's append  *)
(* adds a client's record.                                                  *)
Grown ==
  /\ Len(journal) \in Nat /\ Len(journal') \in Nat /\ Len(journal) <= Len(journal')
  /\ \A i \in Indices : i \in Indices' /\ journal'[i] = journal[i]
  /\ \A i \in Indices' : i \in Indices \/ i = Len(journal) + 1

LEMMA AppendGrows ==
  ASSUME TypeOK, NEW rec \in [account : Accounts, kind : Kinds, of : Nat],
         AppendRecord(rec)
  PROVE  Grown /\ journal'[Len(journal) + 1] = rec
<1>1. journal \in Seq([account : Accounts, kind : Kinds, of : Nat])
      /\ journal' = Append(journal, rec)
  BY DEF TypeOK, AppendRecord
<1> QED
  BY <1>1, SMT DEF Grown, Indices

LEMMA SameJournalGrows ==
  ASSUME TypeOK, UNCHANGED journal PROVE Grown /\ Indices' = Indices
<1>1. Len(journal) \in Nat
  BY LenProperties DEF TypeOK
<1> QED
  BY <1>1 DEF Grown, Indices

(* The four ways a step treats journal and catalog. *)
StorageKept == UNCHANGED <<journal, applied, checkpoint>>
Appended ==
  /\ UNCHANGED <<applied, checkpoint>>
  /\ \E rec \in [account : Accounts, kind : Kinds, of : Nat] :
       /\ AppendRecord(rec)
       /\ rec.kind \in ClientKinds =>
            \E a \in Accounts, k \in ClientKinds : ClientAppend(a, k)

LEMMA StorageSteps ==
  ASSUME TypeOK, [Next]_vars
  PROVE  StorageKept \/ Appended \/ (\E j \in Indices : ApplyRun(j)) \/ RebuildCatalog
<1>1. ASSUME NEW a \in Accounts, NEW k \in ClientKinds, ClientAppend(a, k)
      PROVE  Appended
  <2>1. [account |-> a, kind |-> k, of |-> 0]
          \in [account : Accounts, kind : Kinds, of : Nat]
    BY KindsAssumption DEF Kinds, MessageKinds
  <2>2. /\ AppendRecord([account |-> a, kind |-> k, of |-> 0])
        /\ UNCHANGED <<applied, checkpoint>>
    BY <1>1 DEF ClientAppend, catalogVars
  <2> QED
    BY <1>1, <2>1, <2>2 DEF Appended
<1>2. ASSUME NEW a \in Accounts, NEW i \in Indices, ExtractMessage(a, i)
      PROVE  Appended
  <2>1. [account |-> a, kind |-> "facts", of |-> i]
          \in [account : Accounts, kind : Kinds, of : Nat]
    BY DEF Kinds, Indices
  <2>2. /\ AppendRecord([account |-> a, kind |-> "facts", of |-> i])
        /\ UNCHANGED <<applied, checkpoint>>
    BY <1>2 DEF ExtractMessage, catalogVars
  <2> QED
    BY KindsAssumption, <2>1, <2>2 DEF Appended
<1>3. ASSUME NEW a \in Accounts, NEW m, RefreshAccount(a, m) \/ RefreshFail(a, m)
      PROVE  StorageKept \/ Appended
  <2>1. [account |-> a, kind |-> "view", of |-> 0]
          \in [account : Accounts, kind : Kinds, of : Nat]
    BY DEF Kinds
  <2>2. /\ UNCHANGED <<applied, checkpoint>>
        /\ UNCHANGED journal \/ AppendRecord([account |-> a, kind |-> "view", of |-> 0])
    BY <1>3 DEF RefreshAccount, RefreshFail, JournalChanges, catalogVars
  <2> QED
    BY KindsAssumption, <2>1, <2>2 DEF StorageKept, Appended
<1>4. ASSUME NEW j \in Indices, SkipRun(j) \/ HoldRun(j) PROVE StorageKept
  BY <1>4 DEF SkipRun, HoldRun, catalogVars, StorageKept
<1>5. ASSUME NEW a, ExtractDone(a) \/ ExtractFail(a) PROVE StorageKept
  BY <1>5 DEF ExtractDone, ExtractFail, catalogVars, StorageKept
<1>6. ASSUME EndFirstScan \/ StartFollowUp \/ StartRefresh PROVE StorageKept
  BY <1>6 DEF EndFirstScan, StartFollowUp, StartRefresh, catalogVars, StorageKept
<1>7. ASSUME FinishClean \/ FinishFailed \/ AbortPass PROVE StorageKept
  BY <1>7 DEF FinishClean, FinishFailed, AbortPass, catalogVars, StorageKept
<1>8. ASSUME PostIngest \/ CatchUp \/ RetryFires \/ Boot PROVE StorageKept
  BY <1>8 DEF PostIngest, CatchUp, RetryFires, Boot, catalogVars, StorageKept
<1>9. ASSUME Stop \/ Exit \/ Crash \/ UNCHANGED vars PROVE StorageKept
  BY <1>9 DEF Stop, Exit, Crash, vars, catalogVars, StorageKept
<1>10. ASSUME NEW i, Break(i) \/ Repair(i) PROVE StorageKept
  BY <1>10 DEF Break, Repair, catalogVars, StorageKept
<1> QED
  BY <1>1, <1>2, <1>3, <1>4, <1>5, <1>6, <1>7, <1>8, <1>9, <1>10
     DEF Next, PassStep, ScanStep, ExtractStep, RefreshStep

LEMMA JournalGrows ==
  ASSUME TypeOK, [Next]_vars PROVE Grown
<1>1. CASE StorageKept
  BY <1>1, SameJournalGrows DEF StorageKept
<1>2. CASE Appended
  BY <1>2, AppendGrows DEF Appended
<1>3. CASE (\E j \in Indices : ApplyRun(j)) \/ RebuildCatalog
  BY <1>3, SameJournalGrows DEF ApplyRun, RebuildCatalog
<1> QED
  BY <1>1, <1>2, <1>3, StorageSteps

(* What the application of a run adds to the catalog. *)
LEMMA ApplyEffect ==
  ASSUME TypeOK, NEW j \in Indices, ApplyRun(j)
  PROVE  /\ UNCHANGED journal /\ applied' = applied \cup (pass.at .. j)
         /\ checkpoint' = Advance(j) /\ checkpoint \in Nat
         /\ pass.at \in Indices /\ j \in pass.at .. pass.end /\ ~Idle
         /\ \A n \in pass.at .. j : journal[n].account = journal[pass.at].account
         /\ journal[pass.at].account \notin pass.held
<1>1. Scanning /\ IsMaximalRun(pass.at, j) /\ Apply(pass.at, j) /\ UNCHANGED journal
      /\ journal[pass.at].account \notin pass.held
  BY DEF ApplyRun
<1>2. pass.at \in Indices
  BY <1>1, RunType
<1> QED
  BY <1>1, <1>2 DEF Scanning, IsMaximalRun, IsRun, Apply, Idle, TypeOK

-----------------------------------------------------------------------------
(* The catalog.                                                            *)

LEMMA CheckpointStep ==
  ASSUME IInv, [Next]_vars PROVE CheckpointCovered'
<1>1. TypeOK /\ CheckpointCovered /\ ScanInv
  BY DEF IInv
<1>2. CASE StorageKept \/ Appended
  BY <1>1, <1>2 DEF StorageKept, Appended, CheckpointCovered
<1>3. ASSUME NEW j \in Indices, ApplyRun(j) PROVE CheckpointCovered'
  <2>1. /\ applied' = applied \cup (pass.at .. j) /\ checkpoint' = Advance(j)
        /\ checkpoint \in Nat /\ pass.at \in Indices /\ ~Idle
    BY <1>1, <1>3, ApplyEffect
  <2>2. CASE checkpoint' = checkpoint
    BY <1>1, <2>1, <2>2 DEF CheckpointCovered
  <2>3. CASE pass.held = {} /\ checkpoint' = j
    <3>1. \A i \in Indices : i < pass.at => i \in applied
      BY <1>1, <2>1, <2>3 DEF ScanInv
    <3> QED
      BY <2>1, <2>3, <3>1 DEF CheckpointCovered, Indices
  <2> QED
    BY <2>1, <2>2, <2>3 DEF Advance, MaxOf
<1>4. CASE RebuildCatalog
  BY <1>4 DEF RebuildCatalog, CheckpointCovered
<1> QED
  BY <1>1, <1>2, <1>3, <1>4, StorageSteps

LEMMA OrderStep ==
  ASSUME IInv, [Next]_vars PROVE AppliedInOrder'
<1>1. TypeOK /\ AppliedInOrder /\ ScanInv /\ applied \in SUBSET Indices
  BY DEF IInv, TypeOK
<1>2. Grown
  BY <1>1, JournalGrows
<1>3. CASE StorageKept \/ Appended
  <2>1. applied' = applied
    BY <1>3 DEF StorageKept, Appended
  <2>2. ASSUME NEW i \in applied, NEW j \in Indices', j < i,
               journal'[j].account = journal'[i].account
        PROVE  j \in applied
    <3>1. i \in Indices /\ j \in Indices
      BY <1>1, <1>2, <2>2 DEF Grown, Indices
    <3>2. journal[j].account = journal[i].account
      BY <1>2, <2>2, <3>1 DEF Grown
    <3> QED
      BY <1>1, <2>2, <3>1, <3>2 DEF AppliedInOrder
  <2> QED
    BY <2>1, <2>2 DEF AppliedInOrder
<1>4. ASSUME NEW k \in Indices, ApplyRun(k) PROVE AppliedInOrder'
  <2>1. /\ UNCHANGED journal /\ applied' = applied \cup (pass.at .. k)
        /\ pass.at \in Indices /\ k \in pass.at .. pass.end /\ ~Idle
        /\ \A n \in pass.at .. k : journal[n].account = journal[pass.at].account
        /\ journal[pass.at].account \notin pass.held
    BY <1>1, <1>4, ApplyEffect
  <2>2. ASSUME NEW i \in applied \cup (pass.at .. k), NEW j \in Indices, j < i,
               journal[j].account = journal[i].account
        PROVE  j \in applied \cup (pass.at .. k)
    <3>1. CASE i \in applied
      BY <1>1, <2>2, <3>1 DEF AppliedInOrder
    <3>2. CASE i \in pass.at .. k /\ j < pass.at
      <4>1. journal[j].account \notin pass.held
        BY <2>1, <2>2, <3>2
      <4> QED
        BY <1>1, <2>1, <3>2, <4>1 DEF ScanInv
    <3>3. CASE i \in pass.at .. k /\ ~(j < pass.at)
      BY <2>1, <2>2, <3>3 DEF Indices
    <3> QED
      BY <3>1, <3>2, <3>3
  <2> QED
    BY <2>1, <2>2 DEF AppliedInOrder, Indices
<1>5. CASE RebuildCatalog
  BY <1>5 DEF RebuildCatalog, AppliedInOrder
<1> QED
  BY <1>1, <1>3, <1>4, <1>5, StorageSteps

-----------------------------------------------------------------------------
(* The cursor.                                                             *)

(* A step keeps cursor and holds, drops the cursor, or ends a failed pass. *)
LEMMA CursorSteps ==
  ASSUME TypeOK, CursorInv, [Next]_vars
  PROVE  \/ UNCHANGED <<cursor, holds>> /\ applied \subseteq applied'
         \/ cursor' = 0
         \/ FinishFailed
<1>1. CASE UNCHANGED <<cursor, holds>> /\ UNCHANGED <<journal, applied, checkpoint>>
  BY <1>1
<1>2. ASSUME NEW j \in Indices, SkipRun(j) \/ HoldRun(j) \/ ApplyRun(j)
      PROVE  UNCHANGED <<cursor, holds>>
  BY <1>2 DEF SkipRun, HoldRun, ApplyRun, serviceVars
<1>3. ASSUME EndFirstScan \/ StartFollowUp \/ StartRefresh PROVE UNCHANGED <<cursor, holds>>
  BY <1>3 DEF EndFirstScan, StartFollowUp, StartRefresh, serviceVars
<1>4. ASSUME NEW a \in Accounts, NEW i, \/ ExtractMessage(a, i) \/ ExtractDone(a) \/ ExtractFail(a)
                            \/ RefreshAccount(a, i) \/ RefreshFail(a, i)
      PROVE  UNCHANGED <<cursor, holds>>
  BY <1>4 DEF ExtractMessage, ExtractDone, ExtractFail, RefreshAccount, RefreshFail,
              serviceVars
<1>5. ASSUME FinishClean \/ AbortPass PROVE cursor' = 0
  BY <1>5 DEF FinishClean, AbortPass, ProcessEnds
<1>6. ASSUME PostIngest \/ CatchUp \/ RetryFires \/ Boot PROVE UNCHANGED <<cursor, holds>>
  BY <1>6 DEF PostIngest, CatchUp, RetryFires, Boot, serviceVars
<1>7. ASSUME NEW a, NEW k, ClientAppend(a, k) PROVE UNCHANGED <<cursor, holds>>
  BY <1>7 DEF ClientAppend, serviceVars
<1>8. ASSUME NEW i, Break(i) \/ Repair(i) PROVE UNCHANGED <<cursor, holds>>
  BY <1>8 DEF Break, Repair, serviceVars
<1>9. ASSUME Stop \/ UNCHANGED vars PROVE UNCHANGED <<cursor, holds>>
  BY <1>9 DEF Stop, vars
<1>10. ASSUME Exit \/ Crash PROVE cursor' = 0
  BY <1>10 DEF Exit, Crash, ProcessEnds
<1>11. ASSUME RebuildCatalog PROVE cursor' = 0
  BY <1>11 DEF RebuildCatalog, CursorInv, serviceVars
<1>12. UNCHANGED <<cursor, holds>> \/ cursor' = 0 \/ FinishFailed
  BY <1>2, <1>3, <1>4, <1>5, <1>6, <1>7, <1>8, <1>9, <1>10, <1>11
     DEF Next, PassStep, ScanStep, ExtractStep, RefreshStep
<1>13. applied \subseteq applied' \/ RebuildCatalog
  BY StorageSteps, ApplyEffect DEF StorageKept, Appended
<1> QED
  BY <1>11, <1>12, <1>13

LEMMA CursorStep ==
  ASSUME IInv, [Next]_vars PROVE CursorSkipsOnlyHeld' /\ cursor' <= Len(journal')
<1>1. /\ TypeOK /\ CursorSkipsOnlyHeld /\ CursorInv /\ ScanInv /\ cursor \in Nat
      /\ pass \in PassType
  BY DEF IInv, TypeOK
<1>2. Grown
  BY <1>1, JournalGrows
<1>3. CASE UNCHANGED <<cursor, holds>> /\ applied \subseteq applied'
  <2>1. ASSUME NEW i \in Indices', i <= cursor, i \notin applied
        PROVE  journal'[i].account \in holds
    <3>1. i \in Indices /\ journal'[i] = journal[i]
      BY <1>1, <1>2, <2>1 DEF Grown, CursorInv, Indices
    <3> QED
      BY <1>1, <2>1, <3>1 DEF CursorSkipsOnlyHeld
  <2> QED
    BY <1>1, <1>2, <1>3, <2>1 DEF CursorSkipsOnlyHeld, Grown, CursorInv
<1>4. CASE cursor' = 0
  BY <1>2, <1>4 DEF CursorSkipsOnlyHeld, Grown, Indices
<1>5. CASE FinishFailed
  <2>1. /\ UNCHANGED <<journal, applied>> /\ holds' = pass.held /\ cursor' = NextCursor
        /\ pass.phase = "refresh" /\ Indices' = Indices /\ ~Idle
    BY <1>5 DEF FinishFailed, catalogVars, Indices, Idle
  <2>2. /\ pass.end \in Nat /\ pass.at \in Nat /\ pass.at > pass.end
        /\ pass.end <= Len(journal)
        /\ pass.kind = "postIngest" => holds \subseteq pass.held
        /\ \A i \in Indices : i < pass.at /\ i \notin applied
                                => journal[i].account \in pass.held
    BY <1>1, <2>1, PassFields DEF ScanInv
  <2>3. CASE NextCursor = 0
    BY <1>2, <2>1, <2>3 DEF CursorSkipsOnlyHeld, Grown, Indices
  <2>4. CASE NextCursor = pass.end /\ pass.held # {}
    <3>1. ASSUME NEW i \in Indices, i <= pass.end, i \notin applied
          PROVE  journal[i].account \in pass.held
      BY <2>2, <3>1 DEF Indices
    <3> QED
      BY <2>1, <2>2, <2>4, <3>1 DEF CursorSkipsOnlyHeld
  <2>5. CASE NextCursor = cursor /\ pass.kind = "postIngest" /\ pass.held # {}
    BY <1>1, <2>1, <2>2, <2>5 DEF CursorSkipsOnlyHeld, CursorInv
  <2> QED
    BY <2>3, <2>4, <2>5 DEF NextCursor, ScannedThrough
<1> QED
  BY <1>1, <1>3, <1>4, <1>5, CursorSteps

-----------------------------------------------------------------------------
(* The running pass.                                                       *)

(* What the invariant reads of a pass, but for its phase. *)
Core(p) == <<p.kind, p.at, p.end, p.held, p.fromCheckpoint>>

LEMMA CoreKept ==
  ASSUME NEW p \in PassType, NEW S, NEW f
  PROVE  /\ Core([p EXCEPT !.todo = S]) = Core(p) /\ [p EXCEPT !.todo = S].phase = p.phase
         /\ Core([p EXCEPT !.extracted = S]) = Core(p)
         /\ [p EXCEPT !.extracted = S].phase = p.phase
         /\ Core([p EXCEPT !.phase = f, !.todo = S]) = Core(p)
         /\ [p EXCEPT !.phase = f, !.todo = S].phase = f
  BY DEF PassType, Core

LEMMA CoreMoves ==
  ASSUME NEW p \in PassType, NEW n, NEW S
  PROVE  /\ Core([p EXCEPT !.at = n]) = <<p.kind, n, p.end, p.held, p.fromCheckpoint>>
         /\ [p EXCEPT !.at = n].phase = p.phase
         /\ Core([p EXCEPT !.at = n, !.held = S]) = <<p.kind, n, p.end, S, p.fromCheckpoint>>
         /\ [p EXCEPT !.at = n, !.held = S].phase = p.phase
         /\ Core([p EXCEPT !.at = n, !.done = S])
              = <<p.kind, n, p.end, p.held, p.fromCheckpoint>>
         /\ [p EXCEPT !.at = n, !.done = S].phase = p.phase
  BY DEF PassType, Core

(* Extraction and refresh begin without moving the scan. *)
LEMMA PhaseBegins ==
  ASSUME pass \in PassType, EndFirstScan \/ StartRefresh
  PROVE  Core(pass') = Core(pass) /\ pass'.phase \in {"extract", "refresh"}
<1>1. CASE EndFirstScan
  <2>1. pass' = [pass EXCEPT !.phase = "extract",
                            !.todo = IF WirelogViews THEN pending' \ pass.held ELSE {}]
    BY <1>1 DEF EndFirstScan
  <2> QED
    BY <2>1 DEF PassType, Core
<1>2. CASE StartRefresh
  <2>1. pass' = [pass EXCEPT !.phase = "refresh",
                            !.todo = RefreshTodo(pending \cup pass.done)]
    BY <1>2 DEF StartRefresh
  <2> QED
    BY <2>1 DEF PassType, Core
<1> QED
  BY <1>1, <1>2

(* A step ends the pass or leaves it ended, starts a scan, moves the scan   *)
(* past a run, or changes nothing the invariant reads; only a scan that is  *)
(* through its records leaves the scan phase.                               *)
PassKept ==
  /\ Core(pass') = Core(pass) /\ UNCHANGED <<applied, checkpoint, holds>>
  /\ Idle' <=> Idle
  /\ pass'.phase # "scan" => pass.phase # "scan" \/ pass.at > pass.end
ScanStarted(k, f) ==
  pass' = StartScan(k, f) /\ StorageKept /\ UNCHANGED <<cursor, holds>>
ScanMoved(j) == SkipRun(j) \/ HoldRun(j) \/ ApplyRun(j)

LEMMA PassSteps ==
  ASSUME TypeOK, CursorInv, OwedInv, [Next]_vars
  PROVE  \/ pass' = IdlePass
         \/ \E k \in PassKinds, f \in BOOLEAN : ScanStarted(k, f)
         \/ \E j \in Indices : ScanMoved(j)
         \/ PassKept
         \/ Idle' /\ UNCHANGED pass
<1>1. pass \in PassType
  BY DEF TypeOK
<1>2. ASSUME NEW a, NEW i, ExtractMessage(a, i) PROVE PassKept
  <2>1. /\ pass' = [pass EXCEPT !.extracted = pass.extracted \cup {i}]
        /\ UNCHANGED <<applied, checkpoint, holds>> /\ pass.phase = "extract"
    BY <1>2 DEF ExtractMessage, serviceVars, catalogVars
  <2> QED
    BY <1>1, <2>1, CoreKept DEF PassKept, Idle
<1>3. ASSUME NEW a, NEW m, \/ ExtractDone(a) \/ ExtractFail(a) \/ RefreshAccount(a, m)
                           \/ RefreshFail(a, m)
      PROVE  PassKept
  <2>1. /\ pass' = [pass EXCEPT !.todo = pass.todo \ {a}] /\ pass.phase # "scan"
        /\ UNCHANGED <<applied, checkpoint, holds>> /\ pass.phase # "idle"
    BY <1>3 DEF ExtractDone, ExtractFail, RefreshAccount, RefreshFail, serviceVars,
                catalogVars
  <2> QED
    BY <1>1, <2>1, CoreKept DEF PassKept, Idle
<1>4. ASSUME EndFirstScan \/ StartRefresh PROVE PassKept
  <2>1. \/ pass.phase = "scan" /\ pass.at > pass.end
        \/ pass.phase = "extract"
    BY <1>4 DEF EndFirstScan, StartRefresh
  <2>2. UNCHANGED <<applied, checkpoint, holds>>
    BY <1>4 DEF EndFirstScan, StartRefresh, catalogVars
  <2>3. Core(pass') = Core(pass) /\ pass'.phase \in {"extract", "refresh"}
    BY <1>1, <1>4, PhaseBegins
  <2> QED
    BY <2>1, <2>2, <2>3 DEF PassKept, Idle
<1>5. ASSUME StartFollowUp PROVE \E k \in PassKinds, f \in BOOLEAN : ScanStarted(k, f)
  <2>1. pass.kind \in PassKinds
    BY <1>1, <1>5, PassFields DEF StartFollowUp, OwedInv, Idle
  <2>2. ScanStarted(pass.kind, TRUE)
    BY <1>5 DEF StartFollowUp, ScanStarted, StorageKept, catalogVars, serviceVars
  <2> QED
    BY <2>1, <2>2
<1>6. ASSUME PostIngest \/ CatchUp \/ RetryFires \/ Boot
      PROVE  \E k \in PassKinds, f \in BOOLEAN : ScanStarted(k, f)
  <2>1. StorageKept /\ UNCHANGED <<cursor, holds>>
    BY <1>6 DEF PostIngest, CatchUp, RetryFires, Boot, StorageKept, catalogVars,
                serviceVars
  <2>2. \E k \in PassKinds : pass' = StartScan(k, FALSE)
    BY <1>6 DEF PostIngest, CatchUp, RetryFires, Boot, BeginPass, PassKinds
  <2> QED
    BY <2>1, <2>2 DEF ScanStarted
<1>7. ASSUME FinishClean \/ FinishFailed \/ AbortPass PROVE pass' = IdlePass
  BY <1>7 DEF FinishClean, FinishFailed, AbortPass, Failed, ProcessEnds
<1>8. ASSUME Exit \/ Crash PROVE pass' = IdlePass
  BY <1>8 DEF Exit, Crash, ProcessEnds
<1>9. ASSUME UNCHANGED <<pass, applied, checkpoint, holds>> PROVE PassKept
  BY <1>9 DEF PassKept, Core, Idle
<1>10. ASSUME NEW a, NEW k, ClientAppend(a, k) PROVE PassKept
  BY <1>9, <1>10 DEF ClientAppend, serviceVars, catalogVars
<1>11. ASSUME NEW i, Break(i) \/ Repair(i) PROVE PassKept
  BY <1>9, <1>11 DEF Break, Repair, catalogVars, serviceVars
<1>12. ASSUME Stop \/ UNCHANGED vars PROVE PassKept
  BY <1>9, <1>12 DEF Stop, vars, catalogVars
<1>13. ASSUME RebuildCatalog PROVE Idle' /\ UNCHANGED pass
  BY <1>13 DEF RebuildCatalog, CursorInv, Idle
<1> QED
  BY <1>2, <1>3, <1>4, <1>5, <1>6, <1>7, <1>8, <1>10, <1>11, <1>12, <1>13
     DEF Next, PassStep, ScanStep, ExtractStep, RefreshStep, ScanMoved

(* A new scan has passed over nothing but records of accounts it holds.    *)
LEMMA ScanStarts ==
  ASSUME IInv, NEW k \in PassKinds, NEW f \in BOOLEAN, ScanStarted(k, f)
  PROVE  /\ ScanInv' /\ CheckpointInv' /\ pass'.kind = k /\ pass'.phase = "scan"
         /\ pass'.end = Len(journal)
<1>1. /\ TypeOK /\ CheckpointCovered /\ CursorSkipsOnlyHeld /\ CursorInv
      /\ Len(journal) \in Nat /\ cursor \in Nat /\ checkpoint \in Nat
  BY LenProperties DEF IInv, TypeOK
<1>2. UNCHANGED <<journal, applied, checkpoint, cursor, holds>> /\ Indices' = Indices
  BY DEF ScanStarted, StorageKept, Indices
<1> DEFINE start == IF Resumes(k) THEN cursor ELSE checkpoint
<1>3. /\ pass'.kind = k /\ pass'.phase = "scan" /\ pass'.at = start + 1
      /\ pass'.end = Len(journal) /\ pass'.held = CarriedHolds(k)
      /\ pass'.fromCheckpoint = FromCheckpoint(k)
  BY DEF ScanStarted, StartScan
<1>4. checkpoint <= Len(journal)
  BY <1>1 DEF CheckpointCovered, TypeOK, Indices
<1>5. start \in Nat /\ start <= Len(journal)
  BY <1>1, <1>4 DEF CursorInv
<1>6. \A i \in Indices : i <= start /\ i \notin applied
                          => journal[i].account \in CarriedHolds(k)
  <2>1. CASE Resumes(k)
    BY <1>1, <2>1 DEF CursorSkipsOnlyHeld, CarriedHolds, Resumes
  <2>2. CASE ~Resumes(k)
    BY <1>1, <2>2 DEF CheckpointCovered, Indices
  <2> QED
    BY <2>1, <2>2
<1>7. ScanInv'
  <2>1. \A i \in Indices : i < start + 1 /\ i \notin applied
                           => journal[i].account \in CarriedHolds(k)
    BY <1>5, <1>6 DEF Indices
  <2>2. start + 1 <= Len(journal) + 1
    BY <1>1, <1>5
  <2>3. k = "postIngest" => holds \subseteq CarriedHolds(k)
    BY DEF CarriedHolds
  <2> QED
    BY <1>1, <1>2, <1>3, <2>1, <2>2, <2>3 DEF ScanInv
<1>8. CheckpointInv'
  <2>1. FromCheckpoint(k) /\ CarriedHolds(k) = {} => start <= checkpoint
    BY <1>1 DEF FromCheckpoint
  <2>2. ~FromCheckpoint(k) => CarriedHolds(k) # {}
    BY <1>1 DEF FromCheckpoint, Resumes, CarriedHolds, CursorSkipsOnlyHeld
  <2>3. FromCheckpoint(k) /\ CarriedHolds(k) = {} => start + 1 <= checkpoint + 1
    BY <1>1, <1>5, <2>1
  <2> QED
    BY <1>2, <1>3, <2>2, <2>3 DEF CheckpointInv
<1> QED
  BY <1>3, <1>7, <1>8

(* A run that is skipped, held or applied keeps what was passed over        *)
(* applied or held.                                                         *)
LEMMA ScanMoves ==
  ASSUME IInv, NEW j \in Indices, ScanMoved(j)
  PROVE  ScanInv' /\ CheckpointInv' /\ pass'.kind = pass.kind /\ pass'.end = pass.end
         /\ pass'.phase = pass.phase /\ UNCHANGED <<journal, owed, mode, retry, failing>>
<1>1. TypeOK /\ ScanInv /\ CheckpointInv /\ pass \in PassType /\ checkpoint \in Nat
  BY DEF IInv, TypeOK
<1>2. /\ Scanning /\ IsMaximalRun(pass.at, j)
      /\ UNCHANGED <<journal, holds, owed, mode, retry, failing>> /\ Indices' = Indices
  BY DEF ScanMoved, SkipRun, HoldRun, ApplyRun, serviceVars, Indices
<1>3. /\ pass.at \in Indices /\ j \in pass.at .. pass.end /\ ~Idle
      /\ \A n \in pass.at .. j : journal[n].account = journal[pass.at].account
  BY <1>1, <1>2, RunType DEF Scanning, IsMaximalRun, IsRun, Idle
<1>4. /\ pass'.kind = pass.kind /\ pass'.end = pass.end /\ pass'.phase = pass.phase
      /\ pass'.at = j + 1 /\ pass'.fromCheckpoint = pass.fromCheckpoint
      /\ pass'.held = IF HoldRun(j) THEN pass.held \cup {journal[pass.at].account}
                      ELSE pass.held
  <2>1. CASE HoldRun(j)
    BY <1>1, <2>1, CoreMoves DEF HoldRun, Core
  <2>2. CASE ~HoldRun(j) /\ SkipRun(j)
    BY <1>1, <2>2, CoreMoves DEF SkipRun, Core
  <2>3. CASE ~HoldRun(j) /\ ApplyRun(j)
    <3>1. \E S : pass' = [pass EXCEPT !.at = j + 1, !.done = S]
      BY <2>3 DEF ApplyRun
    <3> QED
      BY <1>1, <2>3, <3>1, CoreMoves DEF Core
  <2> QED
    BY <2>1, <2>2, <2>3 DEF ScanMoved
<1>5. /\ applied' = IF ApplyRun(j) THEN applied \cup (pass.at .. j) ELSE applied
      /\ checkpoint' = IF ApplyRun(j) THEN Advance(j) ELSE checkpoint
  <2>1. CASE ApplyRun(j)
    BY <1>1, <2>1, ApplyEffect
  <2>2. CASE ~ApplyRun(j)
    BY <2>2 DEF ScanMoved, SkipRun, HoldRun, catalogVars
  <2> QED
    BY <2>1, <2>2
<1>6. /\ pass.end \in Nat /\ pass.at \in Nat /\ pass.at <= pass.end
      /\ pass.end <= Len(journal) /\ Len(journal) \in Nat
  BY <1>1, <1>3, PassFields, LenProperties DEF ScanInv, TypeOK
<1>7. ASSUME NEW i \in Indices, i < j + 1, i \notin applied'
      PROVE  journal[i].account \in pass'.held
  <2>1. i \notin applied
    BY <1>5, <1>7
  <2>2. CASE i < pass.at
    BY <1>1, <1>3, <1>4, <2>1, <2>2 DEF ScanInv
  <2>3. CASE ~(i < pass.at)
    <3>1. i \in pass.at .. j
      BY <1>3, <1>6, <1>7, <2>3 DEF Indices
    <3>2. journal[i].account = journal[pass.at].account /\ ~ApplyRun(j)
      BY <1>3, <1>5, <1>7, <3>1
    <3>3. CASE HoldRun(j)
      BY <1>4, <3>2, <3>3
    <3>4. CASE ~HoldRun(j)
      BY <1>4, <3>2, <3>4 DEF ScanMoved, SkipRun
    <3> QED
      BY <3>3, <3>4
  <2> QED
    BY <2>2, <2>3
<1>8. ScanInv'
  <2>1. pass.kind = "postIngest" => holds \subseteq pass'.held
    BY <1>1, <1>3, <1>4 DEF ScanInv
  <2>2. j + 1 <= pass.end + 1
    BY <1>3, <1>6
  <2>3. pass.phase = "scan"
    BY <1>2 DEF Scanning
  <2> QED
    BY <1>2, <1>4, <1>6, <1>7, <2>1, <2>2, <2>3 DEF ScanInv
<1>9. CheckpointInv'
  <2>1. CASE pass.fromCheckpoint /\ pass'.held = {}
    <3>1. ~HoldRun(j) /\ pass.held = {}
      BY <1>4, <2>1
    <3>2. ApplyRun(j)
      BY <3>1 DEF ScanMoved, SkipRun
    <3>3. checkpoint' = MaxOf(checkpoint, j)
      BY <1>5, <2>1, <3>1, <3>2 DEF Advance
    <3> QED
      BY <1>1, <1>3, <1>4, <1>6, <2>1, <3>3 DEF CheckpointInv, MaxOf
  <2>2. CASE ~pass.fromCheckpoint
    BY <1>1, <1>3, <1>4, <2>2 DEF CheckpointInv
  <2>3. CASE pass.fromCheckpoint /\ pass'.held # {}
    BY <1>4, <2>3 DEF CheckpointInv
  <2> QED
    BY <2>1, <2>2, <2>3
<1> QED
  BY <1>2, <1>4, <1>8, <1>9

(* Steps that change nothing the invariant reads of the pass. *)
LEMMA PassKeeps ==
  ASSUME IInv, Grown, PassKept
  PROVE  ScanInv' /\ CheckpointInv' /\ pass'.kind = pass.kind /\ pass'.end = pass.end
<1>1. /\ pass'.kind = pass.kind /\ pass'.at = pass.at /\ pass'.end = pass.end
      /\ pass'.held = pass.held /\ pass'.fromCheckpoint = pass.fromCheckpoint
      /\ UNCHANGED <<applied, checkpoint, holds>> /\ (Idle' <=> Idle)
      /\ pass'.phase # "scan" => pass.phase # "scan" \/ pass.at > pass.end
  BY DEF PassKept, Core
<1>2. TypeOK /\ ScanInv /\ CheckpointInv /\ pass.at \in Nat /\ pass.end \in Nat
  BY PassFields DEF IInv, TypeOK
<1>3. CheckpointInv'
  BY <1>1, <1>2 DEF CheckpointInv
<1>4. CASE Idle
  BY <1>1, <1>3, <1>4 DEF ScanInv
<1>5. CASE ~Idle
  <2>1. ASSUME NEW i \in Indices', i < pass.at, i \notin applied
        PROVE  journal'[i].account \in pass.held
    <3>1. i \in Indices /\ journal'[i] = journal[i]
      BY <1>2, <1>5, <2>1 DEF ScanInv, Grown, Indices
    <3> QED
      BY <1>2, <1>5, <2>1, <3>1 DEF ScanInv
  <2>2. pass.end <= Len(journal')
    BY <1>2, <1>5 DEF ScanInv, Grown
  <2> QED
    BY <1>1, <1>2, <1>3, <1>5, <2>1, <2>2 DEF ScanInv
<1> QED
  BY <1>1, <1>3, <1>4, <1>5

LEMMA PassStepInv ==
  ASSUME IInv, [Next]_vars PROVE ScanInv' /\ CheckpointInv'
<1>1. TypeOK /\ CursorInv /\ OwedInv /\ Grown
  BY JournalGrows DEF IInv
<1>2. CASE Idle'
  BY <1>2 DEF ScanInv, CheckpointInv
<1>3. CASE pass' = IdlePass
  BY <1>2, <1>3 DEF Idle, IdlePass
<1> QED
  BY <1>1, <1>2, <1>3, PassSteps, ScanStarts, ScanMoves, PassKeeps

-----------------------------------------------------------------------------
(* Requests, failures and retries.                                         *)

LEMMA ClientSteps ==
  ASSUME TypeOK, [Next]_vars
  PROVE  \/ ClientRecords' \subseteq ClientRecords
         \/ \E a \in Accounts, k \in ClientKinds : ClientAppend(a, k)
<1>1. CASE UNCHANGED journal
  BY <1>1 DEF ClientRecords, Records, Indices
<1>2. ASSUME NEW rec \in [account : Accounts, kind : Kinds, of : Nat], AppendRecord(rec),
             rec.kind \notin ClientKinds
      PROVE  ClientRecords' \subseteq ClientRecords
  <2>1. Grown /\ journal'[Len(journal) + 1] = rec
    BY <1>2, AppendGrows
  <2> QED
    BY <1>2, <2>1 DEF ClientRecords, Records, Grown
<1> QED
  BY <1>1, <1>2, StorageSteps DEF StorageKept, Appended, ApplyRun, RebuildCatalog

(* How a step changes what clients and the retry timer see. *)
Calm == UNCHANGED <<owed, mode, retry, failing>>

LEMMA OutsideSteps ==
  ASSUME TypeOK, [Next]_vars
  PROVE  \/ Calm /\ pass'.kind = pass.kind
         \/ \E a \in Accounts, k \in ClientKinds : ClientAppend(a, k)
         \/ FinishClean
         \/ Failed /\ Released /\ ~Idle
         \/ Calm /\ pass.kind = "catchUp" /\ pass' = IdlePass /\ mode # "starting"
         \/ Calm /\ (PostIngest \/ CatchUp)
         \/ RetryFires \/ Boot \/ Stop \/ ProcessEnds
<1>1. pass \in PassType
  BY DEF TypeOK
<1>2. ASSUME NEW a, NEW i, ExtractMessage(a, i) PROVE Calm /\ pass'.kind = pass.kind
  BY <1>1, <1>2, CoreKept DEF ExtractMessage, serviceVars, Calm, Core
<1>3. ASSUME NEW a, NEW m, \/ ExtractDone(a) \/ ExtractFail(a) \/ RefreshAccount(a, m)
                           \/ RefreshFail(a, m)
      PROVE  Calm /\ pass'.kind = pass.kind
  <2>1. pass' = [pass EXCEPT !.todo = pass.todo \ {a}] /\ Calm
    BY <1>3 DEF ExtractDone, ExtractFail, RefreshAccount, RefreshFail, serviceVars, Calm
  <2> QED
    BY <1>1, <2>1, CoreKept DEF Core
<1>4. ASSUME EndFirstScan \/ StartRefresh PROVE Calm /\ pass'.kind = pass.kind
  <2>1. Calm
    BY <1>4 DEF EndFirstScan, StartRefresh, Calm
  <2> QED
    BY <1>1, <1>4, <2>1, PhaseBegins DEF Core
<1>5. ASSUME StartFollowUp PROVE Calm /\ pass'.kind = pass.kind
  BY <1>5 DEF StartFollowUp, StartScan, serviceVars, Calm
<1>6. ASSUME NEW j \in Indices, ScanMoved(j) PROVE Calm /\ pass'.kind = pass.kind
  <2>1. CASE SkipRun(j)
    BY <1>1, <2>1 DEF SkipRun, PassType, serviceVars, Calm
  <2>2. CASE HoldRun(j)
    BY <1>1, <2>2 DEF HoldRun, PassType, serviceVars, Calm
  <2>3. CASE ApplyRun(j)
    BY <1>1, <2>3 DEF ApplyRun, PassType, serviceVars, Calm
  <2> QED
    BY <1>6, <2>1, <2>2, <2>3 DEF ScanMoved
<1>7. FinishFailed => Failed /\ Released /\ ~Idle
  BY DEF FinishFailed, Idle
<1>8. ASSUME AbortPass
      PROVE  \/ Failed /\ Released /\ ~Idle
             \/ Calm /\ pass.kind = "catchUp" /\ pass' = IdlePass /\ mode # "starting"
             \/ ProcessEnds
  BY <1>8 DEF AbortPass, Idle, Calm
<1>9. ASSUME PostIngest \/ CatchUp PROVE Calm
  BY <1>9 DEF PostIngest, CatchUp, serviceVars, Calm
<1>10. ASSUME NEW i, Break(i) \/ Repair(i) PROVE Calm /\ pass'.kind = pass.kind
  BY <1>10 DEF Break, Repair, serviceVars, Calm
<1>11. ASSUME RebuildCatalog \/ UNCHANGED vars PROVE Calm /\ pass'.kind = pass.kind
  BY <1>11 DEF RebuildCatalog, vars, serviceVars, Calm
<1>12. Exit \/ Crash => ProcessEnds
  BY DEF Exit, Crash
<1> QED
  BY <1>2, <1>3, <1>4, <1>5, <1>6, <1>7, <1>8, <1>9, <1>10, <1>11, <1>12
     DEF Next, PassStep, ScanStep, ExtractStep, RefreshStep, ScanMoved

(* A running pass was running before with the same end, or ends where the   *)
(* journal ends.                                                            *)
LEMMA PassEnds ==
  ASSUME IInv, [Next]_vars
  PROVE  /\ pass'.kind = "none" <=> Idle'
         /\ \/ Idle'
            \/ UNCHANGED journal /\ pass'.end = Len(journal)
            \/ pass'.end = pass.end /\ pass'.kind = pass.kind /\ ~Idle
<1>1. TypeOK /\ CursorInv /\ OwedInv /\ Grown
  BY JournalGrows DEF IInv
<1>2. CASE pass' = IdlePass
  BY <1>2 DEF IdlePass, Idle
<1>3. ASSUME NEW k \in PassKinds, NEW f \in BOOLEAN, ScanStarted(k, f)
      PROVE  pass'.kind # "none" /\ ~Idle' /\ UNCHANGED journal /\ pass'.end = Len(journal)
  BY <1>3, ScanStarts DEF PassKinds, ScanStarted, StorageKept, Idle
<1>4. ASSUME NEW j \in Indices, ScanMoved(j)
      PROVE  pass'.kind = pass.kind /\ pass'.end = pass.end /\ ~Idle /\ ~Idle'
  <2>1. pass.phase = "scan"
    BY <1>4 DEF ScanMoved, SkipRun, HoldRun, ApplyRun, Scanning
  <2> QED
    BY <1>4, <2>1, ScanMoves DEF Idle
<1>5. CASE PassKept
  <2>1. pass'.kind = pass.kind /\ pass'.end = pass.end /\ (Idle' <=> Idle)
    BY <1>1, <1>5, PassKeeps DEF PassKept
  <2> QED
    BY <1>1, <2>1 DEF OwedInv
<1>6. CASE Idle' /\ UNCHANGED pass
  BY <1>1, <1>6 DEF OwedInv, Idle
<1> QED
  BY <1>1, <1>2, <1>3, <1>4, <1>5, <1>6, PassSteps DEF OwedInv

LEMMA OwedStep ==
  ASSUME IInv, [Next]_vars PROVE OwedInv' /\ (mode' = "down" => Idle' /\ cursor' = 0)
<1>1. TypeOK /\ CursorInv /\ OwedInv /\ ScanInv /\ Grown
  BY JournalGrows DEF IInv
<1>2. pass'.kind = "none" <=> Idle'
  BY PassEnds
<1> DEFINE Roles == /\ mode' \in {"down", "starting"} => ~owed'
                    /\ mode' = "starting" => pass'.kind = "catchUp"
                    /\ pass'.kind = "postIngest" => owed'
                    /\ pass'.kind = "catchUp" => ~owed'
                    /\ mode' = "down" => Idle' /\ cursor' = 0
                    /\ Idle' \/ owed' = owed
                         \/ \E a \in Accounts, k \in ClientKinds : ClientAppend(a, k)
<1>3. ASSUME Calm, pass'.kind = pass.kind PROVE Roles
  <2>1. mode = "down" => cursor' = 0
    BY <1>1, CursorSteps DEF CursorInv, FinishFailed, Idle
  <2> QED
    BY <1>1, <1>2, <1>3, <2>1 DEF Calm, OwedInv, CursorInv
<1>4. ASSUME NEW a \in Accounts, NEW k \in ClientKinds, ClientAppend(a, k) PROVE Roles
  BY <1>1, <1>4 DEF ClientAppend, RouteFree, OwedInv
<1>5. ASSUME Released, pass' = IdlePass, ~Idle PROVE Roles
  BY <1>1, <1>2, <1>5 DEF Released, IdlePass, CursorInv, Idle
<1>6. ASSUME Calm, pass.kind = "catchUp", pass' = IdlePass, mode # "starting" PROVE Roles
  BY <1>1, <1>2, <1>6 DEF Calm, IdlePass, OwedInv, CursorInv, Idle
<1>7. ASSUME PostIngest PROVE Roles
  BY <1>1, <1>7 DEF PostIngest, BeginPass, StartScan
<1>8. ASSUME CatchUp PROVE Roles
  BY <1>1, <1>8 DEF CatchUp, BeginPass, StartScan, RouteFree
<1>9. ASSUME RetryFires PROVE Roles
  BY <1>1, <1>9 DEF RetryFires, BeginPass, StartScan
<1>10. ASSUME Boot PROVE Roles
  BY <1>1, <1>10 DEF Boot, BeginPass, StartScan, OwedInv
<1>11. ASSUME Stop PROVE Roles
  BY <1>1, <1>11 DEF Stop, OwedInv, Idle
<1>12. ASSUME ProcessEnds PROVE Roles
  BY <1>12 DEF ProcessEnds, IdlePass, Idle
<1>13. Roles
  <2>1. ASSUME FinishClean PROVE Released /\ pass' = IdlePass /\ ~Idle
    BY <2>1 DEF FinishClean, Idle
  <2>2. ASSUME Failed PROVE pass' = IdlePass
    BY <2>2 DEF Failed
  <2> QED
    BY <1>1, <1>3, <1>4, <1>5, <1>6, <1>7, <1>8, <1>9, <1>10, <1>11, <1>12, <2>1, <2>2,
       OutsideSteps
<1>14. ASSUME ~Idle', pass'.kind # "retry" \/ ~owed'
       PROVE  ClientRecords' \subseteq 1 .. pass'.end
  <2>1. CASE UNCHANGED journal /\ pass'.end = Len(journal)
    BY <2>1 DEF ClientRecords, Records, Indices
  <2>2. CASE pass'.end = pass.end /\ pass'.kind = pass.kind /\ ~Idle
    <3>1. ASSUME NEW a \in Accounts, NEW k \in ClientKinds, ClientAppend(a, k)
          PROVE  FALSE
      <4>1. owed' /\ ~owed /\ pass.kind \notin {"catchUp", "retry"}
        BY <1>14, <2>2, <3>1 DEF ClientAppend, RouteFree
      <4>2. pass.kind \in PassKinds
        BY <1>1, <2>2, PassFields DEF TypeOK, OwedInv
      <4> QED
        BY <1>1, <4>1, <4>2 DEF OwedInv, PassKinds
    <3>2. ClientRecords' \subseteq ClientRecords /\ owed' = owed
      BY <1>1, <1>13, <1>14, <3>1, ClientSteps
    <3> QED
      BY <1>1, <1>14, <2>2, <3>2 DEF OwedInv
  <2> QED
    BY <1>14, <2>1, <2>2, PassEnds
<1> QED
  BY <1>2, <1>13, <1>14 DEF OwedInv

LEMMA FailureStep ==
  ASSUME IInv, [Next]_vars PROVE FailureInv'
<1>1. /\ TypeOK /\ CursorInv /\ OwedInv /\ ScanInv /\ CheckpointInv /\ FailureInv
      /\ checkpoint \in Nat /\ pass \in PassType
  BY DEF IInv, TypeOK
<1>2. mode # "down" => checkpoint' \in Nat /\ checkpoint <= checkpoint'
  <2>1. CASE StorageKept \/ Appended
    BY <1>1, <2>1 DEF StorageKept, Appended
  <2>2. ASSUME NEW j \in Indices, ApplyRun(j) PROVE checkpoint' \in Nat /\ checkpoint <= checkpoint'
    BY <1>1, <2>2, ApplyEffect DEF Advance, MaxOf, Indices
  <2>3. RebuildCatalog => mode = "down"
    BY DEF RebuildCatalog
  <2> QED
    BY <1>1, <2>1, <2>2, <2>3, StorageSteps
<1>3. ASSUME NEW a \in Accounts, NEW k \in ClientKinds, ClientAppend(a, k) PROVE FailureInv'
  BY <1>1, <1>3 DEF ClientAppend, FailureInv, serviceVars
<1>4. ASSUME ClientRecords' \subseteq ClientRecords, Calm,
             pass'.kind = pass.kind \/ (pass.kind \in {"none", "catchUp"} /\ pass'.kind # "retry")
      PROVE  FailureInv'
  <2>1. CASE mode = "serving"
    <3>1. 1 .. checkpoint \subseteq 1 .. checkpoint'
      BY <1>1, <1>2, <2>1
    <3>2. pass'.kind \in {"none", "catchUp"} => pass.kind \in {"none", "catchUp"}
      BY <1>4
    <3> QED
      BY <1>1, <1>4, <2>1, <3>1, <3>2 DEF FailureInv, Calm
  <2>2. CASE mode # "serving"
    BY <1>4, <2>2 DEF FailureInv, Calm
  <2> QED
    BY <2>1, <2>2
<1>5. ASSUME FinishClean PROVE FailureInv'
  <2>1. /\ pass.phase = "refresh" /\ pass.held = {} /\ failing' = FALSE
        /\ UNCHANGED <<journal, checkpoint>> /\ Released /\ ~Idle
    BY <1>5 DEF FinishClean, catalogVars, Idle
  <2>2. pass.end <= checkpoint /\ pass.end \in Nat
    BY <1>1, <2>1, PassFields DEF ScanInv, CheckpointInv
  <2>3. ~owed' => ClientRecords \subseteq 1 .. pass.end
    BY <1>1, <2>1 DEF OwedInv, Released
  <2>4. ClientRecords' = ClientRecords
    BY <2>1 DEF ClientRecords, Records, Indices
  <2>5. 1 .. pass.end \subseteq 1 .. checkpoint'
    BY <1>1, <2>1, <2>2
  <2> QED
    BY <2>1, <2>3, <2>4, <2>5 DEF FailureInv
<1>6. ASSUME Failed, Released PROVE FailureInv'
  BY <1>6 DEF Failed, Released, Rearm, FailureInv
<1>7. ASSUME RetryFires PROVE FailureInv'
  BY <1>7 DEF RetryFires, BeginPass, StartScan, FailureInv
<1>8. ASSUME Boot \/ Stop \/ ProcessEnds PROVE FailureInv'
  BY <1>8 DEF Boot, Stop, ProcessEnds, FailureInv
<1>9. ASSUME Calm, PostIngest \/ CatchUp PROVE Calm /\ pass.kind = "none" /\ pass'.kind # "retry"
  BY <1>1, <1>9 DEF PostIngest, CatchUp, BeginPass, StartScan, OwedInv
<1>10. pass' = IdlePass => pass'.kind # "retry"
  BY DEF IdlePass
<1> QED
  BY <1>1, <1>3, <1>4, <1>5, <1>6, <1>7, <1>8, <1>9, <1>10, OutsideSteps, ClientSteps

-----------------------------------------------------------------------------
(* The theorems.                                                           *)

LEMMA InitIInv == Init => IInv
<1> SUFFICES ASSUME Init PROVE IInv
  OBVIOUS
<1>1. TypeOK
  BY InitTypeOK
<1>2. /\ Idle /\ pass.kind = "none" /\ Len(journal) = 0 /\ cursor = 0 /\ checkpoint = 0
      /\ applied = {} /\ mode = "down" /\ ~owed /\ Indices = {}
  BY DEF Init, IdlePass, Idle, Indices
<1>3. CheckpointCovered /\ AppliedInOrder /\ CursorSkipsOnlyHeld
  BY <1>2 DEF CheckpointCovered, AppliedInOrder, CursorSkipsOnlyHeld
<1>4. ScanInv /\ CursorInv /\ CheckpointInv /\ OwedInv /\ FailureInv
  BY <1>2 DEF ScanInv, CursorInv, CheckpointInv, OwedInv, FailureInv
<1> QED
  BY <1>1, <1>3, <1>4 DEF IInv

LEMMA StepIInv == IInv /\ [Next]_vars => IInv'
<1> SUFFICES ASSUME IInv, [Next]_vars PROVE IInv'
  OBVIOUS
<1>1. TypeOK'
  BY TypeStep DEF IInv
<1>2. CheckpointCovered' /\ AppliedInOrder' /\ CursorSkipsOnlyHeld'
  BY CheckpointStep, OrderStep, CursorStep
<1>3. ScanInv' /\ CheckpointInv' /\ OwedInv' /\ FailureInv'
  BY PassStepInv, OwedStep, FailureStep
<1>4. CursorInv'
  BY CursorStep, OwedStep DEF CursorInv
<1> QED
  BY <1>1, <1>2, <1>3, <1>4 DEF IInv

LEMMA Invariant == Spec => []IInv
  BY InitIInv, StepIInv, PTL DEF Spec

(* Whatever is held, aborted, lost in a crash or rebuilt, the persisted     *)
(* checkpoint never leads a record the catalog lacks: a daemon that starts  *)
(* from it (materialize_account_inboxes_resumed) skips nothing.             *)
THEOREM CheckpointNeverLeads == Spec => []CheckpointCovered
<1>1. IInv => CheckpointCovered
  BY DEF IInv
<1> QED
  BY <1>1, Invariant, PTL

(* An account's records reach the catalog in journal order without a gap,   *)
(* though other accounts go on while it is held.                            *)
THEOREM AccountsAreReplayedInOrder == Spec => []AppliedInOrder
<1>1. IInv => AppliedInOrder
  BY DEF IInv
<1> QED
  BY <1>1, Invariant, PTL

(* The in-memory cursor of post-ingest passes skips only records of held    *)
(* accounts, and is gone when nothing is held.                              *)
THEOREM CursorLosesNothing == Spec => []CursorSkipsOnlyHeld
<1>1. IInv => CursorSkipsOnlyHeld
  BY DEF IInv
<1> QED
  BY <1>1, Invariant, PTL

(* A client's record that its own pass could not apply always has a retry   *)
(* armed or running while the daemon serves.                                *)
THEOREM MissingRecordsAreRetried == Spec => []MissingIsRetried
<1>1. IInv => MissingIsRetried
  <2> SUFFICES ASSUME IInv, mode = "serving", ~owed, ClientRecords \ applied # {}
               PROVE  retry \/ pass.kind \in {"retry", "postIngest"}
    BY DEF MissingIsRetried, ClientRecords
  <2>1. FailureInv /\ CheckpointCovered /\ pass.kind \in PassKinds \cup {"none"}
    BY PassFields DEF IInv, TypeOK
  <2>2. CASE failing
    BY <2>1, <2>2 DEF FailureInv
  <2>3. CASE ~failing
    BY <2>1, <2>3 DEF FailureInv, CheckpointCovered, PassKinds
  <2> QED
    BY <2>2, <2>3
<1> QED
  BY <1>1, Invariant, PTL

(* When the daemon serves, no request is under way and materialization      *)
(* reports OK, every client's record is at or below the checkpoint.         *)
THEOREM OkIsCheckpointed == Spec => []OkMeansCheckpointed
<1>1. IInv => OkMeansCheckpointed
  BY DEF IInv, FailureInv, OwedInv, OkMeansCheckpointed, ClientRecords
<1> QED
  BY <1>1, Invariant, PTL
-----------------------------------------------------------------------------
(* Extracted facts.                                                        *)

Facts == Records({"facts"})

(* A record of facts names a message of its account.  A scan has all of    *)
(* them in range; an extraction has, besides those, only its own, and      *)
(* looks at no account that the scan held records of.                      *)
FactsInv ==
  /\ \A f \in Facts : /\ journal[f].of \in Indices
                      /\ journal[journal[f].of].account = journal[f].account
  /\ pass.phase = "scan" => \A f \in Facts : f <= pass.end
  /\ pass.phase = "extract" =>
       /\ pass.todo \cap pass.held = {}
       /\ \A f \in Facts : f <= pass.end \/ journal[f].of \in pass.extracted

(* Who writes to the journal. *)
LEMMA JournalSteps ==
  ASSUME TypeOK, [Next]_vars
  PROVE  \/ UNCHANGED journal
         \/ \E a \in Accounts, k \in ClientKinds : ClientAppend(a, k)
         \/ \E a \in Accounts, i \in Indices : ExtractMessage(a, i)
         \/ \E a \in Accounts, m \in Indices \cup {0} :
              RefreshAccount(a, m) \/ RefreshFail(a, m)
<1>1. ASSUME NEW j \in Indices, SkipRun(j) \/ HoldRun(j) \/ ApplyRun(j) PROVE UNCHANGED journal
  BY <1>1 DEF SkipRun, HoldRun, ApplyRun
<1>2. ASSUME NEW a, ExtractDone(a) \/ ExtractFail(a) PROVE UNCHANGED journal
  BY <1>2 DEF ExtractDone, ExtractFail
<1>3. ASSUME EndFirstScan \/ StartFollowUp \/ StartRefresh PROVE UNCHANGED journal
  BY <1>3 DEF EndFirstScan, StartFollowUp, StartRefresh
<1>4. ASSUME FinishClean \/ FinishFailed \/ AbortPass PROVE UNCHANGED journal
  BY <1>4 DEF FinishClean, FinishFailed, AbortPass
<1>5. ASSUME PostIngest \/ CatchUp \/ RetryFires \/ Boot \/ RebuildCatalog
      PROVE  UNCHANGED journal
  BY <1>5 DEF PostIngest, CatchUp, RetryFires, Boot, RebuildCatalog
<1>6. ASSUME Stop \/ Exit \/ Crash \/ UNCHANGED vars PROVE UNCHANGED journal
  BY <1>6 DEF Stop, Exit, Crash, vars
<1>7. ASSUME NEW i, Break(i) \/ Repair(i) PROVE UNCHANGED journal
  BY <1>7 DEF Break, Repair
<1> QED
  BY <1>1, <1>2, <1>3, <1>4, <1>5, <1>6, <1>7
     DEF Next, PassStep, ScanStep, ExtractStep, RefreshStep

(* Only an extraction journals facts. *)
LEMMA FactSteps ==
  ASSUME TypeOK, [Next]_vars
  PROVE  \/ \E a \in Accounts, i \in Indices : ExtractMessage(a, i)
         \/ Facts' \subseteq Facts
<1>1. ASSUME UNCHANGED journal PROVE Facts' \subseteq Facts
  BY <1>1 DEF Facts, Records, Indices
<1>2. ASSUME NEW rec \in [account : Accounts, kind : Kinds, of : Nat], AppendRecord(rec),
             rec.kind # "facts"
      PROVE  Facts' \subseteq Facts
  <2>1. Grown /\ journal'[Len(journal) + 1] = rec
    BY <1>2, AppendGrows
  <2> QED
    BY <1>2, <2>1 DEF Facts, Records, Grown
<1>3. ASSUME NEW a \in Accounts, NEW k \in ClientKinds, ClientAppend(a, k)
      PROVE  Facts' \subseteq Facts
  <2> DEFINE rec == [account |-> a, kind |-> k, of |-> 0]
  <2>1. rec \in [account : Accounts, kind : Kinds, of : Nat] /\ rec.kind # "facts"
    BY KindsAssumption DEF Kinds, MessageKinds
  <2>2. AppendRecord(rec)
    BY <1>3 DEF ClientAppend
  <2> HIDE DEF rec
  <2> QED
    BY <1>2, <2>1, <2>2
<1>4. ASSUME NEW a \in Accounts, NEW m, RefreshAccount(a, m) \/ RefreshFail(a, m)
      PROVE  Facts' \subseteq Facts
  <2> DEFINE rec == [account |-> a, kind |-> "view", of |-> 0]
  <2>1. rec \in [account : Accounts, kind : Kinds, of : Nat] /\ rec.kind # "facts"
    BY DEF Kinds
  <2>2. UNCHANGED journal \/ AppendRecord(rec)
    BY <1>4 DEF RefreshAccount, RefreshFail, JournalChanges
  <2> HIDE DEF rec
  <2> QED
    BY <1>1, <1>2, <2>1, <2>2
<1> QED
  BY <1>1, <1>3, <1>4, JournalSteps

(* How a step that extracts nothing changes what FactsInv reads of a pass. *)
LEMMA ExtractionSteps ==
  ASSUME TypeOK, CursorInv, OwedInv, [Next]_vars
  PROVE  \/ \E a \in Accounts, i \in Indices : ExtractMessage(a, i)
         \/ pass'.phase \in {"idle", "refresh"}
         \/ \E k \in PassKinds, f \in BOOLEAN : ScanStarted(k, f)
         \/ pass'.phase = "scan" /\ pass.phase = "scan" /\ pass'.end = pass.end
         \/ EndFirstScan
         \/ /\ pass'.phase = "extract" /\ pass.phase = "extract"
            /\ pass'.end = pass.end /\ pass'.held = pass.held
            /\ pass'.extracted = pass.extracted /\ pass'.todo \subseteq pass.todo
<1>1. pass \in PassType
  BY DEF TypeOK
<1>2. CASE UNCHANGED pass
  BY <1>1, <1>2 DEF PassType
<1>3. ASSUME NEW j \in Indices, ScanMoved(j)
      PROVE  pass'.phase = "scan" /\ pass.phase = "scan" /\ pass'.end = pass.end
  <2>1. CASE SkipRun(j)
    BY <1>1, <2>1 DEF SkipRun, Scanning, PassType
  <2>2. CASE HoldRun(j)
    BY <1>1, <2>2 DEF HoldRun, Scanning, PassType
  <2>3. CASE ApplyRun(j)
    BY <1>1, <2>3 DEF ApplyRun, Scanning, PassType
  <2> QED
    BY <1>3, <2>1, <2>2, <2>3 DEF ScanMoved
<1>4. ASSUME NEW a, ExtractDone(a) \/ ExtractFail(a)
      PROVE  /\ pass'.phase = "extract" /\ pass.phase = "extract"
             /\ pass'.end = pass.end /\ pass'.held = pass.held
             /\ pass'.extracted = pass.extracted /\ pass'.todo \subseteq pass.todo
  <2>1. pass' = [pass EXCEPT !.todo = pass.todo \ {a}] /\ pass.phase = "extract"
    BY <1>4 DEF ExtractDone, ExtractFail
  <2> QED
    BY <1>1, <2>1 DEF PassType
<1>5. ASSUME NEW a, NEW m, RefreshAccount(a, m) \/ RefreshFail(a, m)
      PROVE  pass'.phase = "refresh"
  <2>1. pass' = [pass EXCEPT !.todo = pass.todo \ {a}] /\ pass.phase = "refresh"
    BY <1>5 DEF RefreshAccount, RefreshFail
  <2> QED
    BY <1>1, <2>1 DEF PassType
<1>6. ASSUME StartRefresh PROVE pass'.phase = "refresh"
  <2>1. \E S : pass' = [pass EXCEPT !.phase = "refresh", !.todo = S]
    BY <1>6 DEF StartRefresh
  <2> QED
    BY <1>1, <2>1 DEF PassType
<1>7. ASSUME FinishClean \/ FinishFailed \/ AbortPass \/ Exit \/ Crash
      PROVE  pass'.phase = "idle"
  BY <1>7 DEF FinishClean, FinishFailed, AbortPass, Failed, Exit, Crash, ProcessEnds,
              IdlePass
<1>8. ASSUME StartFollowUp PROVE \E k \in PassKinds, f \in BOOLEAN : ScanStarted(k, f)
  <2>1. pass.kind \in PassKinds
    BY <1>1, <1>8, PassFields DEF StartFollowUp, OwedInv, Idle
  <2>2. ScanStarted(pass.kind, TRUE)
    BY <1>8 DEF StartFollowUp, ScanStarted, StorageKept, catalogVars, serviceVars
  <2> QED
    BY <2>1, <2>2
<1>9. ASSUME PostIngest \/ CatchUp \/ RetryFires \/ Boot
      PROVE  \E k \in PassKinds, f \in BOOLEAN : ScanStarted(k, f)
  <2>1. StorageKept /\ UNCHANGED <<cursor, holds>>
    BY <1>9 DEF PostIngest, CatchUp, RetryFires, Boot, StorageKept, catalogVars,
                serviceVars
  <2>2. \E k \in PassKinds : pass' = StartScan(k, FALSE)
    BY <1>9 DEF PostIngest, CatchUp, RetryFires, Boot, BeginPass, PassKinds
  <2> QED
    BY <2>1, <2>2 DEF ScanStarted
<1>10. ASSUME NEW a, NEW k, ClientAppend(a, k) \/ Break(a) \/ Repair(a) PROVE UNCHANGED pass
  BY <1>10 DEF ClientAppend, Break, Repair
<1>11. ASSUME Stop \/ RebuildCatalog \/ UNCHANGED vars PROVE UNCHANGED pass
  BY <1>11 DEF Stop, RebuildCatalog, vars
<1> QED
  BY <1>2, <1>3, <1>4, <1>5, <1>6, <1>7, <1>8, <1>9, <1>10, <1>11
     DEF Next, PassStep, ScanStep, ExtractStep, RefreshStep, ScanMoved

(* No extracted message has facts in the journal that the extraction       *)
(* cannot see: not in the catalog, not its own.                            *)
LEMMA FactsSeen ==
  ASSUME IInv, FactsInv, NEW a \in Accounts, NEW i \in Indices, ExtractMessage(a, i),
         NEW f \in Facts
  PROVE  journal[f].of # i
<1> SUFFICES ASSUME journal[f].of = i PROVE FALSE
  OBVIOUS
<1>1. /\ pass.phase = "extract" /\ a \in pass.todo /\ i \in Unextracted(a)
      /\ pass.at \in Nat /\ pass.end \in Nat /\ f \in Indices /\ f \in Nat
  <2>1. pass.phase = "extract" /\ a \in pass.todo /\ i \in Unextracted(a)
    BY DEF ExtractMessage
  <2>2. pass.at \in Nat /\ pass.end \in Nat
    BY PassFields DEF IInv, TypeOK
  <2>3. f \in Indices /\ f \in Nat
    BY DEF Facts, Records, Indices
  <2> QED
    BY <2>1, <2>2, <2>3
<1>2. journal[i].account = a /\ i \notin pass.extracted
      /\ i \notin {journal[g].of : g \in applied \cap Facts}
  BY <1>1 DEF Unextracted, AccountRecords, Facts
<1>3. f <= pass.end /\ journal[f].account = a /\ a \notin pass.held
  BY <1>1, <1>2 DEF FactsInv
<1>4. f < pass.at /\ ~Idle
  BY <1>1, <1>3 DEF IInv, ScanInv, Idle
<1>5. f \in applied
  BY <1>1, <1>3, <1>4 DEF IInv, ScanInv
<1> QED
  BY <1>2, <1>5

LEMMA FactsStep ==
  ASSUME IInv, FactsInv, ExtractedOnce, [Next]_vars
  PROVE  FactsInv' /\ ExtractedOnce'
<1>1. /\ TypeOK /\ CursorInv /\ OwedInv /\ Grown /\ pass \in PassType
      /\ pass.end \in Nat /\ Len(journal) \in Nat
  BY JournalGrows, PassFields DEF IInv, TypeOK, Grown
<1>2. CASE \E a \in Accounts, i \in Indices : ExtractMessage(a, i)
  <2>1. PICK a \in Accounts, i \in Indices : ExtractMessage(a, i)
    BY <1>2
  <2>2. /\ AppendRecord([account |-> a, kind |-> "facts", of |-> i])
        /\ pass' = [pass EXCEPT !.extracted = pass.extracted \cup {i}]
        /\ pass.phase = "extract" /\ i \in AccountRecords(a)
    BY <2>1 DEF ExtractMessage, Unextracted
  <2>3. [account |-> a, kind |-> "facts", of |-> i]
          \in [account : Accounts, kind : Kinds, of : Nat]
    BY DEF Kinds, Indices
  <2>4. journal'[Len(journal) + 1] = [account |-> a, kind |-> "facts", of |-> i]
    BY <1>1, <2>2, <2>3, AppendGrows
  <2>5. /\ pass'.phase = "extract" /\ pass'.end = pass.end /\ pass'.held = pass.held
        /\ pass'.todo = pass.todo /\ pass'.extracted = pass.extracted \cup {i}
    BY <1>1, <2>2 DEF PassType
  <2>6. ASSUME NEW f \in Facts'
        PROVE  \/ f \in Facts /\ journal'[f] = journal[f]
               \/ f = Len(journal) + 1
    BY <1>1 DEF Facts, Records, Grown
  <2>7. journal[i].account = a /\ i \in Indices' /\ journal'[i] = journal[i]
    BY <1>1, <2>2 DEF AccountRecords, Grown
  <2>8. ASSUME NEW f \in Facts'
        PROVE  /\ journal'[f].of \in Indices'
               /\ journal'[journal'[f].of].account = journal'[f].account
               /\ f <= pass'.end \/ journal'[f].of \in pass'.extracted
    <3>1. CASE f \in Facts /\ journal'[f] = journal[f]
      <4>1. journal[f].of \in Indices /\ journal[journal[f].of].account = journal[f].account
            /\ (f <= pass.end \/ journal[f].of \in pass.extracted)
        BY <2>2, <3>1 DEF FactsInv
      <4> QED
        BY <1>1, <2>5, <3>1, <4>1 DEF Grown
    <3>2. CASE f = Len(journal) + 1
      BY <2>4, <2>5, <2>7, <3>2
    <3> QED
      BY <2>6, <3>1, <3>2
  <2>9. FactsInv'
    BY <2>2, <2>5, <2>8 DEF FactsInv
  <2>10. ASSUME NEW f \in Facts', NEW g \in Facts', journal'[f].of = journal'[g].of
         PROVE  f = g
    <3>1. \A h \in Facts : journal[h].of # i
      BY <2>1, FactsSeen
    <3> QED
      BY <2>4, <2>6, <2>10, <3>1 DEF ExtractedOnce, Facts
  <2> QED
    BY <2>9, <2>10 DEF ExtractedOnce, Facts
<1>3. CASE Facts' \subseteq Facts /\ ~ \E a \in Accounts, i \in Indices : ExtractMessage(a, i)
  <2>1. ASSUME NEW f \in Facts'
        PROVE  f \in Facts /\ f \in Indices /\ journal'[f] = journal[f]
    BY <1>1, <1>3 DEF Facts, Records, Grown
  <2>2. ExtractedOnce'
    BY <2>1 DEF ExtractedOnce, Facts
  <2>3. \A f \in Facts' : /\ journal'[f].of \in Indices'
                          /\ journal'[journal'[f].of].account = journal'[f].account
    BY <1>1, <2>1 DEF FactsInv, Grown
  <2>4. pass'.phase = "scan" => \A f \in Facts' : f <= pass'.end
    <3>1. ASSUME NEW k \in PassKinds, NEW b \in BOOLEAN, ScanStarted(k, b)
          PROVE  pass'.end = Len(journal)
      BY <3>1 DEF ScanStarted, StartScan
    <3>2. \A f \in Facts' : f <= Len(journal)
      BY <2>1 DEF Indices
    <3>3. CASE \E k \in PassKinds, b \in BOOLEAN : ScanStarted(k, b)
      BY <3>1, <3>2, <3>3
    <3>4. CASE pass.phase = "scan" /\ pass'.end = pass.end
      BY <2>1, <3>4 DEF FactsInv
    <3>5. EndFirstScan => pass'.phase = "extract"
      <4>1. ASSUME EndFirstScan
            PROVE  \E S : pass' = [pass EXCEPT !.phase = "extract", !.todo = S]
        BY <4>1 DEF EndFirstScan
      <4> QED
        BY <1>1, <4>1 DEF PassType
    <3> QED
      BY <1>1, <1>3, <3>3, <3>4, <3>5, ExtractionSteps
  <2>5. ASSUME pass'.phase = "extract"
        PROVE  /\ pass'.todo \cap pass'.held = {}
               /\ \A f \in Facts' : f <= pass'.end \/ journal'[f].of \in pass'.extracted
    <3>1. CASE EndFirstScan
      <4>1. pass' = [pass EXCEPT !.phase = "extract",
                                 !.todo = IF WirelogViews THEN pending' \ pass.held ELSE {}]
            /\ pass.phase = "scan"
        BY <3>1 DEF EndFirstScan
      <4>2. /\ pass'.end = pass.end /\ pass'.held = pass.held
            /\ pass'.todo = IF WirelogViews THEN pending' \ pass.held ELSE {}
        BY <1>1, <4>1 DEF PassType
      <4> QED
        BY <2>1, <4>1, <4>2 DEF FactsInv
    <3>2. ASSUME NEW k \in PassKinds, NEW b \in BOOLEAN, ScanStarted(k, b) PROVE FALSE
      BY <2>5, <3>2 DEF ScanStarted, StartScan
    <3>3. CASE /\ pass.phase = "extract"
               /\ pass'.end = pass.end /\ pass'.held = pass.held
               /\ pass'.extracted = pass.extracted /\ pass'.todo \subseteq pass.todo
      BY <2>1, <3>3 DEF FactsInv
    <3> QED
      BY <1>1, <1>3, <2>5, <3>1, <3>2, <3>3, ExtractionSteps
  <2> QED
    BY <2>2, <2>3, <2>4, <2>5 DEF FactsInv
<1> QED
  BY <1>1, <1>2, <1>3, FactSteps

(* Facts of a message are journaled once: extraction works from the rows   *)
(* of the catalog, and what it journaled is applied by a scan before the   *)
(* account is extracted again, or the account is held.                     *)
THEOREM FactsAreExtractedOnce == Spec => []ExtractedOnce
<1>1. Init => FactsInv /\ ExtractedOnce
  <2> SUFFICES ASSUME Init PROVE FactsInv /\ ExtractedOnce
    OBVIOUS
  <2>1. Facts = {} /\ pass.phase = "idle"
    BY DEF Init, Facts, Records, Indices, IdlePass
  <2> QED
    BY <2>1 DEF FactsInv, ExtractedOnce, Facts
<1>2. IInv /\ (FactsInv /\ ExtractedOnce) /\ [Next]_vars => (FactsInv /\ ExtractedOnce)'
  BY FactsStep
<1> QED
  BY <1>1, <1>2, Invariant, PTL DEF Spec

-----------------------------------------------------------------------------
(* Virtual mailboxes.                                                      *)

Shown == Records(Kinds \ {"view"})
Seen(a) == applied \cap AccountRecords(a) \cap Shown
Stale == {a \in Accounts : ~IsLatest(a, refreshed[a])}

(* An account's views were refreshed to one of its records.                *)
RefreshedInv == \A a \in Accounts : refreshed[a] \in Seen(a) \cup {0}

(* Stale views are queued, or about to be by the running scan.             *)
StaleInv ==
  WirelogViews /\ spent.aborts = 0 /\ mode # "down" =>
    \A a \in Stale : a \in pending \/ (pass.phase = "scan" /\ a \in pass.done)

(* A service that reports success has nothing queued: the refresh at the   *)
(* end of a pass takes everything that is not held.                        *)
QueuedInv ==
  /\ WirelogViews /\ pass.phase = "refresh" =>
       pending \subseteq pass.todo \cup pass.held \cup refreshHolds
  /\ WirelogViews /\ spent.aborts = 0 /\ mode # "down" /\ Idle /\ ~failing =>
       pending = {}

ViewsInv == RefreshedInv /\ StaleInv /\ QueuedInv

(* A step that leaves the views, their queue and the stages of the pass.   *)
Quiet ==
  /\ UNCHANGED <<applied, refreshed, pending, failing>>
  /\ pass'.phase = pass.phase /\ pass'.done = pass.done
  /\ pass.phase = "refresh" => /\ UNCHANGED refreshHolds
                               /\ pass'.todo = pass.todo /\ pass'.held = pass.held
  /\ spent'.aborts = spent.aborts
  /\ mode' = mode \/ mode = "serving"

(* A scan that begins: of a new pass, or the follow-up.                    *)
Scans ==
  /\ UNCHANGED <<applied, refreshed, pending, mode>>
  /\ pass.phase \in {"idle", "extract"} /\ pass'.phase = "scan"
  /\ spent'.aborts = spent.aborts

(* The memory of the process is lost, or the pass is aborted.              *)
Lost ==
  /\ UNCHANGED <<journal, applied, refreshed>> /\ pass'.phase = "idle"
  /\ mode' = "down" \/ spent'.aborts # 0

LEMMA ViewSteps ==
  ASSUME TypeOK, [Next]_vars
  PROVE  \/ Quiet \/ Scans \/ Lost \/ Boot \/ RebuildCatalog
         \/ \E j \in Indices : ApplyRun(j)
         \/ EndFirstScan \/ StartRefresh \/ FinishClean \/ FinishFailed
         \/ \E a \in Accounts, m \in Indices \cup {0} :
              RefreshAccount(a, m) \/ RefreshFail(a, m)
<1>1. /\ pass \in PassType /\ spent \in Budgets /\ spent.aborts \in Nat
      /\ [spent EXCEPT !.failures = @ + 1].aborts = spent.aborts
      /\ [spent EXCEPT !.breaks = @ + 1].aborts = spent.aborts
      /\ [spent EXCEPT !.restarts = @ + 1].aborts = spent.aborts
      /\ [spent EXCEPT !.aborts = @ + 1].aborts = spent.aborts + 1
  BY DEF TypeOK, Budgets
<1>2. ASSUME UNCHANGED <<applied, refreshed, pending, failing, refreshHolds, pass>>,
             spent'.aborts = spent.aborts, mode' = mode \/ mode = "serving"
      PROVE  Quiet
  BY <1>2 DEF Quiet
<1>3. ASSUME NEW a, NEW k, ClientAppend(a, k) PROVE Quiet
  BY <1>2, <1>3 DEF ClientAppend, serviceVars, catalogVars
<1>4. ASSUME NEW i, Break(i) \/ Repair(i) PROVE Quiet
  BY <1>1, <1>2, <1>4 DEF Break, Repair, serviceVars, catalogVars
<1>5. ASSUME Stop PROVE Quiet
  BY <1>1, <1>2, <1>5 DEF Stop, catalogVars
<1>6. ASSUME UNCHANGED vars PROVE Quiet
  BY <1>2, <1>6 DEF vars
<1>7. ASSUME NEW j \in Indices, SkipRun(j) \/ HoldRun(j) PROVE Quiet
  <2>1. /\ UNCHANGED <<applied, refreshed, pending, failing, mode, spent>>
        /\ pass.phase = "scan"
    BY <1>7 DEF SkipRun, HoldRun, Scanning, serviceVars, catalogVars
  <2>2. pass'.phase = pass.phase /\ pass'.done = pass.done
    <3>1. CASE SkipRun(j)
      BY <1>1, <3>1 DEF SkipRun, PassType
    <3>2. CASE HoldRun(j)
      BY <1>1, <3>2 DEF HoldRun, PassType
    <3> QED
      BY <1>7, <3>1, <3>2
  <2> QED
    BY <2>1, <2>2 DEF Quiet
<1>8. ASSUME NEW a, NEW i, ExtractMessage(a, i) \/ ExtractDone(a) \/ ExtractFail(a)
      PROVE  Quiet
  <2>1. UNCHANGED <<applied, refreshed, pending, failing, mode>> /\ pass.phase = "extract"
    BY <1>8 DEF ExtractMessage, ExtractDone, ExtractFail, serviceVars, catalogVars
  <2>2. spent'.aborts = spent.aborts
    BY <1>1, <1>8 DEF ExtractMessage, ExtractDone, ExtractFail
  <2>3. pass'.phase = pass.phase /\ pass'.done = pass.done
    <3>1. \/ \E S : pass' = [pass EXCEPT !.todo = S]
          \/ \E S : pass' = [pass EXCEPT !.extracted = S]
      BY <1>8 DEF ExtractMessage, ExtractDone, ExtractFail
    <3> QED
      BY <1>1, <3>1 DEF PassType
  <2> QED
    BY <2>1, <2>2, <2>3 DEF Quiet
<1>9. ASSUME PostIngest \/ CatchUp \/ RetryFires \/ StartFollowUp PROVE Scans
  <2>1. UNCHANGED <<applied, refreshed, pending, mode, spent>>
    BY <1>9 DEF PostIngest, CatchUp, RetryFires, StartFollowUp, serviceVars, catalogVars
  <2>2. /\ pass.phase \in {"idle", "extract"}
        /\ \E k, f : pass' = StartScan(k, f)
    BY <1>9 DEF PostIngest, CatchUp, RetryFires, StartFollowUp, BeginPass, Idle
  <2>3. pass'.phase = "scan"
    BY <2>2 DEF StartScan
  <2> QED
    BY <2>1, <2>2, <2>3 DEF Scans
<1>10. ASSUME Exit \/ Crash PROVE Lost
  BY <1>10 DEF Exit, Crash, ProcessEnds, IdlePass, catalogVars, Lost
<1>11. ASSUME AbortPass PROVE Lost
  <2>1. UNCHANGED <<journal, applied, refreshed>> /\ spent'.aborts # 0
    BY <1>1, <1>11 DEF AbortPass, catalogVars
  <2>2. pass'.phase = "idle"
    BY <1>11 DEF AbortPass, Failed, ProcessEnds, IdlePass
  <2> QED
    BY <2>1, <2>2 DEF Lost
<1> QED
  BY <1>3, <1>4, <1>5, <1>6, <1>7, <1>8, <1>9, <1>10, <1>11
     DEF Next, PassStep, ScanStep, ExtractStep, RefreshStep

(* Staleness, by what an account shows.                                    *)
Latest(S, m) == m \in S \cup {0} /\ \A n \in S : n <= m

LEMMA StaleIs ==
  /\ \A a : IsLatest(a, refreshed[a]) <=> Latest(Seen(a), refreshed[a])
  /\ Stale = {a \in Accounts : ~Latest(Seen(a), refreshed[a])}
  /\ Stale' = {a \in Accounts : ~Latest(Seen(a)', refreshed'[a])}
  BY DEF Stale, IsLatest, Latest, Seen, Shown

(* What an account shows changes only with the catalog.                    *)
LEMMA SeenKept ==
  ASSUME TypeOK, Grown, applied' = applied, NEW a
  PROVE  Seen(a)' = Seen(a)
<1>1. applied \subseteq Indices /\ Indices \subseteq Indices'
      /\ \A i \in applied : journal'[i] = journal[i]
  BY DEF TypeOK, Grown
<1> QED
  BY <1>1 DEF Seen, Shown, AccountRecords, Records

LEMMA StaleKept ==
  ASSUME TypeOK, Grown, UNCHANGED <<applied, refreshed>>
  PROVE  Stale' = Stale /\ (RefreshedInv => RefreshedInv')
  BY SeenKept, StaleIs DEF RefreshedInv

(* A refreshed account is not stale, the others are as before.             *)
LEMMA StaleRefreshed ==
  ASSUME TypeOK, Grown, NEW a \in Accounts, NEW m \in Indices \cup {0}, RefreshAccount(a, m)
  PROVE  Stale' \subseteq Stale \ {a} /\ (RefreshedInv => RefreshedInv')
<1>1. /\ refreshed' = [refreshed EXCEPT ![a] = m] /\ applied' = applied
      /\ refreshed \in [Accounts -> Nat] /\ Latest(Seen(a), m)
  BY DEF RefreshAccount, TypeOK, IsLatest, Latest, Seen, Shown
<1>2. \A b \in Accounts : refreshed'[b] = IF b = a THEN m ELSE refreshed[b]
  BY <1>1
<1>3. \A b \in Accounts : Seen(b)' = Seen(b)
  BY <1>1, SeenKept
<1>4. m \in Seen(a) \cup {0}
  BY <1>1 DEF Latest
<1> QED
  BY <1>1, <1>2, <1>3, <1>4, StaleIs DEF RefreshedInv

(* A run that is applied makes only its own account's views stale, and     *)
(* only if it is not a view's record; the pass notes that account.         *)
LEMMA StaleApplied ==
  ASSUME TypeOK, NEW j \in Indices, ApplyRun(j)
  PROVE  /\ \A a \in Stale' : a \in Stale \/ a \in pass'.done
         /\ RefreshedInv => RefreshedInv'
         /\ pass.phase = "scan" /\ pass'.phase = "scan" /\ pass.done \subseteq pass'.done
<1>1. /\ UNCHANGED <<journal, refreshed>> /\ Indices' = Indices
      /\ applied' = applied \cup (pass.at .. j)
      /\ pass.at \in Indices /\ j \in pass.at .. pass.end
      /\ \A n \in pass.at .. j : journal[n].account = journal[pass.at].account
  BY ApplyEffect DEF ApplyRun, Indices
<1> DEFINE b == journal[pass.at].account
           view == journal[pass.at].kind = "view"
<1>2. /\ pass.phase = "scan" /\ pass'.phase = "scan"
      /\ pass'.done = IF view THEN pass.done ELSE pass.done \cup {b}
  <2>1. pass \in PassType
    BY DEF TypeOK
  <2>2. pass' = [pass EXCEPT !.at = j + 1,
                             !.done = IF view THEN pass.done ELSE pass.done \cup {b}]
    BY DEF ApplyRun
  <2>3. pass.phase = "scan"
    BY DEF ApplyRun, Scanning
  <2> QED
    BY <2>1, <2>2, <2>3 DEF PassType
<1>3. ASSUME NEW a \in Accounts, a # b \/ view PROVE Seen(a)' = Seen(a)
  <2>1. Seen(a)' = Seen(a) \cup ((pass.at .. j) \cap AccountRecords(a) \cap Shown)
    BY <1>1 DEF Seen, Shown, AccountRecords, Records
  <2>2. CASE a # b
    BY <1>1, <2>1, <2>2 DEF AccountRecords
  <2>3. CASE view
    <3>1. IsRun(pass.at, j)
      BY DEF ApplyRun, IsMaximalRun
    <3>2. pass.at = j
      <4>1. pass.at \in pass.at .. j
        BY <1>1 DEF Indices
      <4> QED
        BY <2>3, <3>1, <4>1 DEF IsRun
    <3>3. \A n \in pass.at .. j : n = j
      BY <1>1, <3>2 DEF Indices
    <3> QED
      BY <2>1, <2>3, <3>2, <3>3 DEF Shown, Records
  <2> QED
    BY <1>3, <2>2, <2>3
<1>4. \A a \in Accounts : Seen(a) \subseteq Seen(a)'
  BY <1>1 DEF Seen, Shown, AccountRecords, Records
<1>5. ASSUME NEW a \in Stale' PROVE a \in Stale \/ a \in pass'.done
  <2>1. a \in Accounts
    BY <1>5, StaleIs
  <2> QED
    BY <1>1, <1>2, <1>3, <1>5, <2>1, StaleIs
<1>6. RefreshedInv => RefreshedInv'
  BY <1>1, <1>4 DEF RefreshedInv
<1> QED
  BY <1>2, <1>5, <1>6

(* The catalog a process starts with: the accounts it has nothing of were  *)
(* never refreshed.                                                        *)
LEMMA BootQueues ==
  ASSUME TypeOK, RefreshedInv, WirelogViews, Boot
  PROVE  Stale \subseteq pending'
<1>1. pending' = {journal[i].account : i \in applied}
  BY DEF Boot
<1>2. ASSUME NEW a \in Accounts, a \notin pending' PROVE Latest(Seen(a), refreshed[a])
  <2>1. Seen(a) = {}
    BY <1>1, <1>2 DEF Seen, AccountRecords
  <2> QED
    BY <2>1 DEF RefreshedInv, Latest
<1> QED
  BY <1>2, StaleIs

LEMMA RefreshedStep ==
  ASSUME IInv, RefreshedInv, [Next]_vars
  PROVE  RefreshedInv'
<1>1. TypeOK /\ Grown
  BY JournalGrows DEF IInv
<1>2. CASE UNCHANGED <<applied, refreshed>>
  BY <1>1, <1>2, StaleKept
<1>3. CASE RebuildCatalog
  BY <1>3 DEF RebuildCatalog, RefreshedInv
<1>4. CASE \E a \in Accounts, m \in Indices \cup {0} : RefreshAccount(a, m)
  BY <1>1, <1>4, StaleRefreshed
<1>5. CASE \E j \in Indices : ApplyRun(j)
  BY <1>1, <1>5, StaleApplied
<1>6. Quiet \/ Scans \/ Lost => UNCHANGED <<applied, refreshed>>
  BY DEF Quiet, Scans, Lost
<1>7. Boot \/ EndFirstScan \/ StartRefresh \/ FinishClean \/ FinishFailed
        => UNCHANGED <<applied, refreshed>>
  BY DEF Boot, EndFirstScan, StartRefresh, FinishClean, FinishFailed, catalogVars
<1>8. ASSUME NEW a, NEW m, RefreshFail(a, m) PROVE UNCHANGED <<applied, refreshed>>
  BY <1>8 DEF RefreshFail, catalogVars
<1> QED
  BY <1>1, <1>2, <1>3, <1>4, <1>5, <1>6, <1>7, <1>8, ViewSteps

(* What a step that moves the pass into or through the refresh does to it. *)
LEMMA RefreshPhase ==
  ASSUME TypeOK
  PROVE  /\ EndFirstScan => pass'.phase = "extract"
         /\ StartRefresh =>
              /\ pass'.phase = "refresh" /\ pass'.held = pass.held
              /\ pass'.todo = RefreshTodo(pending \cup pass.done)
         /\ \A a, m : RefreshAccount(a, m) \/ RefreshFail(a, m) =>
              /\ pass.phase = "refresh" /\ pass'.phase = "refresh"
              /\ pass'.held = pass.held /\ pass'.todo = pass.todo \ {a}
<1>1. pass \in PassType
  BY DEF TypeOK
<1>2. ASSUME EndFirstScan PROVE pass'.phase = "extract"
  <2>1. \E S : pass' = [pass EXCEPT !.phase = "extract", !.todo = S]
    BY <1>2 DEF EndFirstScan
  <2> QED
    BY <1>1, <2>1 DEF PassType
<1>3. ASSUME StartRefresh
      PROVE  /\ pass'.phase = "refresh" /\ pass'.held = pass.held
             /\ pass'.todo = RefreshTodo(pending \cup pass.done)
  <2>1. pass' = [pass EXCEPT !.phase = "refresh",
                            !.todo = RefreshTodo(pending \cup pass.done)]
    BY <1>3 DEF StartRefresh
  <2> QED
    BY <1>1, <2>1 DEF PassType
<1>4. ASSUME NEW a, NEW m, RefreshAccount(a, m) \/ RefreshFail(a, m)
      PROVE  /\ pass.phase = "refresh" /\ pass'.phase = "refresh"
             /\ pass'.held = pass.held /\ pass'.todo = pass.todo \ {a}
  <2>1. pass' = [pass EXCEPT !.todo = pass.todo \ {a}] /\ pass.phase = "refresh"
    BY <1>4 DEF RefreshAccount, RefreshFail
  <2> QED
    BY <1>1, <2>1 DEF PassType
<1> QED
  BY <1>2, <1>3, <1>4

LEMMA StaleStep ==
  ASSUME IInv, ViewsInv, [Next]_vars
  PROVE  StaleInv'
<1>1. /\ TypeOK /\ Grown /\ RefreshedInv /\ StaleInv /\ CursorInv
      /\ pass \in PassType /\ spent.aborts \in Nat
  BY JournalGrows DEF IInv, ViewsInv, TypeOK, Budgets
<1> SUFFICES ASSUME WirelogViews, spent'.aborts = 0, mode' # "down", NEW a \in Stale'
             PROVE  a \in pending' \/ (pass'.phase = "scan" /\ a \in pass'.done)
  BY DEF StaleInv
<1> DEFINE Was == mode # "down" /\ spent.aborts = 0
<1>2. Was => \A b \in Stale : b \in pending \/ (pass.phase = "scan" /\ b \in pass.done)
  BY <1>1 DEF StaleInv
<1>3. UNCHANGED <<applied, refreshed>> => Stale' = Stale
  BY <1>1, StaleKept
<1>4. CASE Quiet
  <2>1. Was
    BY <1>4 DEF Quiet
  <2> QED
    BY <1>2, <1>3, <1>4, <2>1 DEF Quiet
<1>5. CASE Scans
  BY <1>2, <1>3, <1>5 DEF Scans
<1>6. CASE Lost
  BY <1>6 DEF Lost
<1>7. CASE Boot
  <2>1. UNCHANGED <<applied, refreshed>>
    BY <1>7 DEF Boot, catalogVars
  <2> QED
    BY <1>1, <1>3, <1>7, <2>1, BootQueues
<1>8. CASE RebuildCatalog
  BY <1>8 DEF RebuildCatalog
<1>9. ASSUME NEW j \in Indices, ApplyRun(j)
      PROVE  a \in pending' \/ (pass'.phase = "scan" /\ a \in pass'.done)
  <2>1. UNCHANGED <<pending, mode, spent>>
    BY <1>9 DEF ApplyRun, serviceVars
  <2> QED
    BY <1>1, <1>2, <1>9, <2>1, StaleApplied
<1>10. CASE EndFirstScan
  <2>1. /\ UNCHANGED <<applied, refreshed, mode, spent>> /\ pending' = pending \cup pass.done
        /\ pass.phase = "scan"
    BY <1>10 DEF EndFirstScan, catalogVars
  <2> QED
    BY <1>2, <1>3, <2>1
<1>11. CASE StartRefresh
  <2>1. /\ UNCHANGED <<applied, refreshed, mode, spent>> /\ pending' = pending \cup pass.done
    BY <1>11 DEF StartRefresh, catalogVars
  <2> QED
    BY <1>2, <1>3, <2>1
<1>12. CASE FinishClean \/ FinishFailed
  <2>1. UNCHANGED <<applied, refreshed, pending, spent>> /\ pass.phase = "refresh" /\ ~Idle
    BY <1>12 DEF FinishClean, FinishFailed, catalogVars, Idle
  <2>2. mode # "down"
    BY <1>1, <2>1 DEF CursorInv
  <2> QED
    BY <1>2, <1>3, <2>1, <2>2
<1>13. ASSUME NEW b \in Accounts, NEW m \in Indices \cup {0}, RefreshAccount(b, m)
       PROVE  a \in pending' \/ (pass'.phase = "scan" /\ a \in pass'.done)
  <2>1. /\ UNCHANGED <<mode, spent>> /\ pending' = pending \ {b} /\ pass.phase = "refresh"
    BY <1>13 DEF RefreshAccount
  <2>2. a \in Stale /\ a # b
    BY <1>1, <1>13, StaleRefreshed
  <2> QED
    BY <1>2, <2>1, <2>2
<1>14. ASSUME NEW b \in Accounts, NEW m \in Indices \cup {0}, RefreshFail(b, m)
       PROVE  a \in pending' \/ (pass'.phase = "scan" /\ a \in pass'.done)
  <2>1. /\ UNCHANGED <<applied, refreshed, mode, pending>> /\ pass.phase = "refresh"
        /\ spent' = [spent EXCEPT !.failures = @ + 1]
    BY <1>14 DEF RefreshFail, catalogVars
  <2>2. spent'.aborts = spent.aborts
    BY <1>1, <2>1 DEF TypeOK, Budgets
  <2> QED
    BY <1>2, <1>3, <2>1, <2>2
<1> QED
  BY <1>1, <1>4, <1>5, <1>6, <1>7, <1>8, <1>9, <1>10, <1>11, <1>12, <1>13, <1>14,
     ViewSteps

LEMMA QueuedStep ==
  ASSUME IInv, ViewsInv, [Next]_vars
  PROVE  QueuedInv'
<1>1. TypeOK /\ QueuedInv /\ CursorInv /\ pass \in PassType
  BY DEF IInv, ViewsInv, TypeOK
<1> SUFFICES ASSUME WirelogViews
             PROVE  /\ pass'.phase = "refresh" =>
                         pending' \subseteq pass'.todo \cup pass'.held \cup refreshHolds'
                    /\ spent'.aborts = 0 /\ mode' # "down" /\ pass'.phase = "idle" /\ ~failing'
                         => pending' = {}
  BY DEF QueuedInv, Idle
<1>2. CASE Quiet
  <2>1. pass.phase = "refresh" => pending \subseteq pass.todo \cup pass.held \cup refreshHolds
    BY <1>1 DEF QueuedInv
  <2>2. spent.aborts = 0 /\ mode # "down" /\ pass.phase = "idle" /\ ~failing => pending = {}
    BY <1>1 DEF QueuedInv, Idle
  <2>3. mode' # "down" => mode # "down"
    BY <1>2 DEF Quiet
  <2>4. /\ UNCHANGED <<pending, failing>> /\ pass'.phase = pass.phase
        /\ spent'.aborts = spent.aborts
        /\ pass.phase = "refresh" => /\ refreshHolds' = refreshHolds
                                     /\ pass'.todo = pass.todo /\ pass'.held = pass.held
    BY <1>2 DEF Quiet
  <2> QED
    BY <2>1, <2>2, <2>3, <2>4
<1>3. CASE Scans \/ Lost
  BY <1>3 DEF Scans, Lost
<1>4. CASE Boot
  BY <1>4 DEF Boot, BeginPass, StartScan
<1>5. CASE RebuildCatalog
  BY <1>1, <1>5 DEF RebuildCatalog, CursorInv, Idle
<1>6. CASE \E j \in Indices : ApplyRun(j)
  BY <1>1, <1>6, StaleApplied
<1>7. CASE EndFirstScan
  BY <1>1, <1>7, RefreshPhase
<1>8. CASE StartRefresh
  <2>1. /\ pass'.phase = "refresh" /\ pass'.held = pass.held
        /\ pass'.todo = RefreshTodo(pending \cup pass.done)
    BY <1>1, <1>8, RefreshPhase
  <2>2. pending' = pending \cup pass.done /\ refreshHolds' = refreshHolds
    BY <1>8 DEF StartRefresh
  <2> QED
    BY <2>1, <2>2 DEF RefreshTodo
<1>9. CASE FinishClean
  <2>1. /\ pass.phase = "refresh" /\ pass.todo = {} /\ pass.held = {} /\ refreshHolds = {}
        /\ pending' = pending /\ pass'.phase = "idle"
    BY <1>9 DEF FinishClean, IdlePass
  <2> QED
    BY <1>1, <2>1 DEF QueuedInv
<1>10. CASE FinishFailed
  BY <1>10 DEF FinishFailed, Failed, IdlePass
<1>11. ASSUME NEW b \in Accounts, NEW m \in Indices \cup {0},
              RefreshAccount(b, m) \/ RefreshFail(b, m)
       PROVE  /\ pass'.phase = "refresh"
              /\ pending' \subseteq pass'.todo \cup pass'.held \cup refreshHolds'
  <2>1. /\ pass.phase = "refresh" /\ pass'.phase = "refresh"
        /\ pass'.held = pass.held /\ pass'.todo = pass.todo \ {b}
    BY <1>1, <1>11, RefreshPhase
  <2>2. pending \subseteq pass.todo \cup pass.held \cup refreshHolds
    BY <1>1, <2>1 DEF QueuedInv
  <2>3. \/ pending' = pending \ {b} /\ refreshHolds' = refreshHolds
        \/ pending' = pending /\ refreshHolds' = refreshHolds \cup {b}
    BY <1>11 DEF RefreshAccount, RefreshFail
  <2> QED
    BY <2>1, <2>2, <2>3
<1> QED
  BY <1>1, <1>2, <1>3, <1>4, <1>5, <1>6, <1>7, <1>8, <1>9, <1>10, <1>11, ViewSteps

(* Unless a pass was aborted by an error, a daemon that serves and reports *)
(* no failure shows views that cover every record of the catalog, whatever *)
(* was held, failed to extract or to refresh, or was lost in a crash.      *)
THEOREM ViewsAreFreshUnlessAborted == Spec => []ViewsFreshUnlessAborted
<1>1. Init => ViewsInv
  <2> SUFFICES ASSUME Init PROVE ViewsInv
    OBVIOUS
  <2>1. /\ mode = "down" /\ pass.phase = "idle" /\ refreshed = [a \in Accounts |-> 0]
    BY DEF Init, IdlePass
  <2> QED
    BY <2>1 DEF ViewsInv, RefreshedInv, StaleInv, QueuedInv
<1>2. IInv /\ ViewsInv /\ [Next]_vars => ViewsInv'
  BY RefreshedStep, StaleStep, QueuedStep DEF ViewsInv
<1>3. ViewsInv => ViewsFreshUnlessAborted
  <2> SUFFICES ASSUME ViewsInv, spent.aborts = 0, WirelogViews, mode = "serving", Idle,
                      ~failing, NEW a \in Accounts
               PROVE  IsLatest(a, refreshed[a])
    BY DEF ViewsFreshUnlessAborted, ViewsFresh
  <2>1. pending = {} /\ pass.phase # "scan"
    BY DEF ViewsInv, QueuedInv, Idle
  <2>2. a \notin Stale
    BY <2>1 DEF ViewsInv, StaleInv
  <2> QED
    BY <2>2 DEF Stale
<1> QED
  BY <1>1, <1>2, <1>3, Invariant, PTL DEF Spec

-----------------------------------------------------------------------------
(* The promise of AccountReplay.                                           *)

(* What a client appends, the promise accepts.                             *)
LEMMA AppendIsPromised ==
  ASSUME NEW a \in Accounts, NEW k \in ClientKinds, ClientAppend(a, k)
  PROVE  Promise!Submit
<1>1. k \in {"delivery", "append", "update"}
  BY KindsAssumption
<1>2. /\ journal' = Append(journal, [account |-> a, kind |-> k, of |-> 0])
      /\ UNCHANGED applied
  BY DEF ClientAppend, AppendRecord, catalogVars
<1> QED
  BY <1>1, <1>2 DEF Promise!Submit

(* The facts of a message are those of a message of the catalog, and no    *)
(* record, applied or not, has them already.                               *)
LEMMA ExtractIsPromised ==
  ASSUME IInv, FactsInv, NEW a \in Accounts, NEW i \in Indices, ExtractMessage(a, i)
  PROVE  Promise!Describe
<1>1. /\ journal' = Append(journal, [account |-> a, kind |-> "facts", of |-> i])
      /\ UNCHANGED applied /\ i \in Unextracted(a)
  BY DEF ExtractMessage, AppendRecord, catalogVars
<1>2. DOMAIN journal = Indices
  BY LenProperties DEF IInv, TypeOK, Indices
<1>3. i \in applied \cap Promise!Messages /\ journal[i].account = a
  BY <1>1, <1>2 DEF Unextracted, Records, AccountRecords, MessageKinds, Promise!Messages
<1>4. i \notin Promise!Described
  <2>1. \A f \in Facts : journal[f].of # i
    BY FactsSeen
  <2> QED
    BY <1>2, <2>1 DEF Facts, Records, Promise!Described
<1> QED
  BY <1>1, <1>3, <1>4 DEF Promise!Describe

(* A refresh journals a change of views only for what the catalog has.     *)
LEMMA RefreshIsPromised ==
  ASSUME TypeOK, NEW a \in Accounts, NEW m \in Indices \cup {0},
         RefreshAccount(a, m) \/ RefreshFail(a, m)
  PROVE  Promise!ChangeView \/ UNCHANGED <<journal, applied>>
<1>1. IsLatest(a, m) /\ JournalChanges(a, m) /\ UNCHANGED applied
  BY DEF RefreshAccount, RefreshFail, catalogVars
<1>2. DOMAIN journal = Indices /\ m \in Nat /\ refreshed[a] \in Nat
  BY LenProperties DEF TypeOK, Indices
<1>3. CASE /\ refreshed[a] < m
           /\ journal' = Append(journal, [account |-> a, kind |-> "view", of |-> 0])
  <2>1. m # 0
    BY <1>2, <1>3
  <2>2. m \in applied \cap AccountRecords(a) \cap Records(Kinds \ {"view"})
    BY <1>1, <2>1 DEF IsLatest
  <2>3. m \in applied \cap Promise!OfAccount(a) /\ journal[m].kind # "view"
    BY <1>2, <2>2 DEF AccountRecords, Records, Promise!OfAccount
  <2> QED
    BY <1>1, <1>3, <2>3 DEF Promise!ChangeView
<1> QED
  BY <1>1, <1>3 DEF JournalChanges, AppendRecord

(* A transaction shows the next records of one account.                    *)
LEMMA RunIsPromised ==
  ASSUME IInv, NEW k \in Indices, ApplyRun(k)
  PROVE  Promise!Replay
<1> DEFINE a == journal[pass.at].account
           next == (pass.at .. k) \ applied
<1>1. TypeOK /\ DOMAIN journal = Indices /\ Len(journal) \in Nat
  BY LenProperties DEF IInv, TypeOK, Indices
<1>2. /\ UNCHANGED journal /\ applied' = applied \cup next
      /\ \A n \in pass.at .. k : journal[n].account = a
      /\ pass.at \in Indices /\ a \in Accounts
  BY <1>1, ApplyEffect, RunType DEF ApplyRun
<1>3. next \in SUBSET (Promise!OfAccount(a) \ applied)
  BY <1>1, <1>2 DEF Indices, Promise!OfAccount
<1>4. ASSUME NEW i \in next, NEW j \in Promise!OfAccount(a), j < i
      PROVE  j \in applied \cup next
  <2>1. AppliedInOrder' /\ i \in applied' /\ Indices' = Indices
    BY <1>2, OrderStep DEF Next, PassStep, ScanStep, Indices
  <2>2. j \in Indices /\ journal'[j].account = journal'[i].account
    BY <1>1, <1>2 DEF Promise!OfAccount
  <2> QED
    BY <1>2, <1>4, <2>1, <2>2 DEF AppliedInOrder
<1> HIDE DEF a, next
<1> QED
  BY <1>2, <1>3, <1>4 DEF Promise!Replay

(* Who changes the catalog.                                                *)
LEMMA CatalogSteps ==
  ASSUME TypeOK, [Next]_vars
  PROVE  applied' = applied \/ (\E j \in Indices : ApplyRun(j)) \/ RebuildCatalog
  BY StorageSteps DEF StorageKept, Appended

(* Every step is a step of the promise, or leaves alone what it is about.  *)
LEMMA StepIsPromised ==
  ASSUME IInv, FactsInv, [Next]_vars
  PROVE  Promise!Next \/ UNCHANGED Promise!vars
<1>1. TypeOK
  BY DEF IInv
<1>2. CASE \E j \in Indices : ApplyRun(j)
  BY <1>2, RunIsPromised DEF Promise!Next
<1>3. CASE RebuildCatalog
  BY <1>3 DEF RebuildCatalog, Promise!Rebuild, Promise!Next
<1>4. CASE applied' = applied
  <2>1. CASE UNCHANGED journal
    BY <1>4, <2>1 DEF Promise!vars
  <2>2. CASE \E a \in Accounts, k \in ClientKinds : ClientAppend(a, k)
    BY <2>2, AppendIsPromised DEF Promise!Next
  <2>3. CASE \E a \in Accounts, i \in Indices : ExtractMessage(a, i)
    BY <2>3, ExtractIsPromised DEF Promise!Next
  <2>4. CASE \E a \in Accounts, m \in Indices \cup {0} :
               RefreshAccount(a, m) \/ RefreshFail(a, m)
    BY <1>1, <2>4, RefreshIsPromised DEF Promise!Next, Promise!vars
  <2> QED
    BY <1>1, <2>1, <2>2, <2>3, <2>4, JournalSteps
<1> QED
  BY <1>1, <1>2, <1>3, <1>4, CatalogSteps

(* Materialization implements AccountReplay: whatever is held, aborted,    *)
(* retried or rebuilt, the records of an account become visible in order   *)
(* and without a gap, the facts of a message are journaled once and behind *)
(* its application, and views change only with what the catalog shows.     *)
THEOREM ReplayIsImplemented == Spec => ImplementsAccountReplay
<1>1. Init => FactsInv
  BY DEF Init, FactsInv, Facts, Records, Indices, IdlePass
<1>2. Spec => []FactsInv
  <2>1. Init => FactsInv /\ ExtractedOnce
    BY <1>1 DEF Init, ExtractedOnce, Records, Indices
  <2>2. IInv /\ (FactsInv /\ ExtractedOnce) /\ [Next]_vars => (FactsInv /\ ExtractedOnce)'
    BY FactsStep
  <2> QED
    BY <2>1, <2>2, Invariant, PTL DEF Spec
<1>3. Init => Promise!Init
  BY DEF Init, Promise!Init
<1>4. IInv /\ FactsInv /\ [Next]_vars => [Promise!Next]_(Promise!vars)
  BY StepIsPromised
<1> QED
  BY <1>2, <1>3, <1>4, Invariant, PTL DEF Spec, ImplementsAccountReplay, Promise!Spec

=============================================================================
