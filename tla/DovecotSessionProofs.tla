------------------------ MODULE DovecotSessionProofs ------------------------
(***************************************************************************)
(* Proofs about an IMAP session: for any number of messages, flags, lost   *)
(* answers, rebuilt catalogs and changes of the mailbox beside it, the     *)
(* client is told UIDs that the daemon gave, the index shows what the      *)
(* daemon accepted, and messages disappear only when some client asked for *)
(* it. The exceptions are UIDs that a rebuilt catalog gave anew.           *)
(***************************************************************************)
EXTENDS DovecotSession, FiniteSetTheorems, TLAPS

-----------------------------------------------------------------------------
(* UIDs in ascending order.                                                *)

LEMMA Positions ==
  ASSUME NEW U \in SUBSET Nat, IsFiniteSet(U)
  PROVE  /\ Cardinality(U) \in Nat
         /\ \A u \in U : Position(U, u) \in 1 .. Cardinality(U)
         /\ \A u, v \in U : u < v => Position(U, u) < Position(U, v)
         /\ \A n \in 1 .. Cardinality(U) : \E u \in U : Position(U, u) = n
<1> DEFINE below(u) == {v \in U : v <= u}
           f == [u \in U |-> Cardinality(below(u))]
<1>1. Cardinality(U) \in Nat
  BY FS_CardinalityType
<1>2. \A u \in U : /\ IsFiniteSet(below(u)) /\ Cardinality(below(u)) \in Nat
                   /\ Cardinality(below(u)) <= Cardinality(U) /\ Cardinality(below(u)) # 0
  <2> SUFFICES ASSUME NEW u \in U
               PROVE  /\ IsFiniteSet(below(u)) /\ Cardinality(below(u)) \in Nat
                      /\ Cardinality(below(u)) <= Cardinality(U)
                      /\ Cardinality(below(u)) # 0
    OBVIOUS
  <2>1. IsFiniteSet(below(u)) /\ Cardinality(below(u)) <= Cardinality(U)
    BY FS_Subset
  <2>2. u \in below(u)
    OBVIOUS
  <2> QED
    BY <2>1, <2>2, FS_CardinalityType, FS_EmptySet
<1>3. ASSUME NEW u \in U, NEW v \in U, u < v
      PROVE  Cardinality(below(u)) < Cardinality(below(v))
  <2>0. u \in Nat /\ v \in Nat /\ ~(v <= u)
    BY <1>3
  <2>a. \A w \in U : w <= u => w <= v
    BY <1>3, <2>0
  <2>b. below(u) \subseteq below(v)
    BY <2>a
  <2>1. below(u) \subseteq below(v) /\ v \in below(v) /\ v \notin below(u)
    <3>1. v \in below(v)
      BY <2>0
    <3>2. v \notin below(u)
      BY <2>0
    <3> QED
      BY <2>b, <3>1, <3>2
  <2>2. /\ IsFiniteSet(below(v)) /\ below(u) \in SUBSET below(v)
        /\ below(u) # below(v)
    BY <1>2, <2>1
  <2> HIDE DEF below
  <2>3. /\ Cardinality(below(u)) <= Cardinality(below(v))
        /\ Cardinality(below(u)) # Cardinality(below(v))
    BY <2>2, FS_Subset
  <2> QED
    BY <1>2, <2>3
<1>4. f \in [U -> 1 .. Cardinality(U)]
  BY <1>1, <1>2
<1>5. \A u, v \in U : f[u] = f[v] => u = v
  <2> SUFFICES ASSUME NEW u \in U, NEW v \in U, f[u] = f[v], u # v PROVE FALSE
    OBVIOUS
  <2>1. u < v \/ v < u
    OBVIOUS
  <2> QED
    BY <1>2, <1>3, <2>1
<1>6. f \in Surjection(U, 1 .. Cardinality(U))
  <2>1. f \in Injection(U, 1 .. Cardinality(U))
    BY <1>4, <1>5 DEF Injection, IsInjective
  <2>2. IsFiniteSet(1 .. Cardinality(U)) /\ Cardinality(1 .. Cardinality(U)) = Cardinality(U)
    BY <1>1, FS_Interval
  <2> QED
    BY <2>1, <2>2, FS_Injection
<1>7. \A n \in 1 .. Cardinality(U) : \E u \in U : f[u] = n
  BY <1>6 DEF Surjection
<1> QED
  BY <1>1, <1>3, <1>4, <1>7 DEF Position

LEMMA NthIs ==
  ASSUME NEW U \in SUBSET Nat, IsFiniteSet(U)
  PROVE  /\ \A n \in 1 .. Cardinality(U) : Nth(U, n) \in U /\ Position(U, Nth(U, n)) = n
         /\ \A u \in U : Nth(U, Position(U, u)) = u
<1>1. \A n \in 1 .. Cardinality(U) : Nth(U, n) \in U /\ Position(U, Nth(U, n)) = n
  BY Positions DEF Nth
<1>2. ASSUME NEW u \in U PROVE Nth(U, Position(U, u)) = u
  <2> DEFINE v == Nth(U, Position(U, u))
  <2>1. v \in U /\ Position(U, v) = Position(U, u)
    BY <1>1, Positions
  <2> HIDE DEF v
  <2>2. Position(U, u) \in Nat
    BY Positions
  <2>3. ~(u < v) /\ ~(v < u)
    BY <2>1, <2>2, Positions
  <2>4. v \in Nat /\ u \in Nat
    BY <2>1
  <2>5. v = u
    BY <2>3, <2>4
  <2> QED
    BY <2>5 DEF v
<1> QED
  BY <1>1, <1>2

(* The UIDs of a batch are consecutive.                                    *)
LEMMA Consecutive ==
  ASSUME NEW a \in Nat, NEW k \in Nat
  PROVE  /\ IsFiniteSet(a .. a + k - 1) /\ Cardinality(a .. a + k - 1) = k
         /\ \A n \in 1 .. k : Nth(a .. a + k - 1, n) = a + n - 1
<1> DEFINE S == a .. a + k - 1
<1>1. S \in SUBSET Nat /\ IsFiniteSet(S) /\ Cardinality(S) = k
  BY FS_Interval
<1>2. ASSUME NEW n \in 1 .. k PROVE Nth(S, n) = a + n - 1
  <2>1. {w \in S : w <= a + n - 1} = a .. a + n - 1
    OBVIOUS
  <2>2. Cardinality(a .. a + n - 1) = n
    BY FS_Interval
  <2>3. Position(S, a + n - 1) = n
    BY <2>1, <2>2 DEF Position
  <2> QED
    BY <1>1, <2>3, NthIs
<1> QED
  BY <1>1, <1>2

-----------------------------------------------------------------------------
(* The mailbox                                                             *)

Uids == Nat \ {0}
Memberships == [msg : Messages, flags : SUBSET Flags, gone : BOOLEAN]
RowMaps == UNION {[D -> Memberships] : D \in {E \in SUBSET Uids : IsFiniteSet(E)}}

Deliveries == [type : {"delivered"}, msg : Messages]
Appends == [type : {"appended"}, rows : RowMaps]
Copies == [type : {"copied", "moved"}, uids : SUBSET Uids, rows : RowMaps,
           source : UNION {[D -> Uids] : D \in SUBSET Uids}]
Expunges == [type : {"expunged"}, uids : SUBSET Uids]
FlagChanges == [type : {"flags"}, uid : Uids, mode : {"set", "clear"}, flags : SUBSET Flags]
Records == Deliveries \cup Appends \cup Copies \cup Expunges \cup FlagChanges
Adding == {"appended", "copied", "moved"}

Boxes == [journal : Seq(Records), done : Nat, held : BOOLEAN, next : Uids, rows : RowMaps,
          given : SUBSET (Uids \X Messages)]

ReusedIn(G) == {a[1] : a \in {x \in G : \E y \in G : x[1] = y[1] /\ x[2] # y[2]}}

(* The UIDs in a record were given to its messages, a MOVE removes what it *)
(* copies, and an EXPUNGE names UIDs of messages that a client asked to    *)
(* remove.                                                                 *)
RecordOf(G, A, r) ==
  /\ r.type \in Adding =>
       \A u \in DOMAIN r.rows : <<u, r.rows[u].msg>> \in G /\ ~r.rows[u].gone
  /\ r.type = "moved" => \A u \in r.uids : \E v \in DOMAIN r.rows : r.source[v] = u
  /\ r.type = "expunged" => \A u \in r.uids : \E m \in A : <<u, m>> \in G

(* What has a UID is in some record.                                       *)
InJournal(b, m) == \E i \in 1 .. Len(b.journal) : m \in MessagesOf(b.journal[i])

(* Every message that has a UID is there, or waits in the journal, or      *)
(* somebody asked to remove it, or it had a UID of another message.        *)
Shown(b, m) == \E u \in DOMAIN b.rows : ~b.rows[u].gone /\ b.rows[u].msg = m
Awaited(b, m) == \E i \in 1 .. Len(b.journal) : i > b.done /\ m \in MessagesOf(b.journal[i])
Astray(G, m) == \E a \in G : a[2] = m /\ a[1] \in ReusedIn(G)
Kept(b, A) ==
  \A a \in b.given : a[2] \in A \/ Shown(b, a[2]) \/ Awaited(b, a[2]) \/ Astray(b.given, a[2])

Sound(b, A) ==
  /\ b \in Boxes /\ b.done <= Len(b.journal)
  /\ \A u \in DOMAIN b.rows : <<u, b.rows[u].msg>> \in b.given
  /\ \A i \in 1 .. Len(b.journal) : RecordOf(b.given, A, b.journal[i])
  /\ \A a \in b.given : InJournal(b, a[2])
  /\ Kept(b, A)

(* A request or a rebuild: more is given, and no membership appears.       *)
Grows(c, A) ==
  /\ Sound(c, A) /\ box.given \subseteq c.given
  /\ c.rows = box.rows \/ DOMAIN c.rows = {}

LEMMA ReusedAre ==
  ASSUME NEW G, NEW u
  PROVE  u \in ReusedIn(G) <=> \E x, y \in G : x[1] = u /\ y[1] = u /\ x[2] # y[2]
  BY DEF ReusedIn

LEMMA ReusedGrow ==
  ASSUME NEW G, NEW H, G \subseteq H
  PROVE  /\ ReusedIn(G) \subseteq ReusedIn(H)
         /\ \A m : Astray(G, m) => Astray(H, m)
<1>1. ReusedIn(G) \subseteq ReusedIn(H)
  BY ReusedAre
<1> QED
  BY <1>1 DEF Astray

LEMMA RowMapsAre ==
  ASSUME NEW f
  PROVE  f \in RowMaps <=> /\ DOMAIN f \subseteq Uids /\ IsFiniteSet(DOMAIN f)
                           /\ f \in [DOMAIN f -> Memberships]
  BY DEF RowMaps

LEMMA RowsOf ==
  ASSUME NEW f \in RowMaps, NEW u \in DOMAIN f
  PROVE  /\ u \in Uids /\ f[u] \in Memberships
         /\ f[u].msg \in Messages /\ f[u].flags \subseteq Flags /\ f[u].gone \in BOOLEAN
  BY RowMapsAre DEF Memberships

LEMMA EmptyRows == <<>> \in RowMaps /\ DOMAIN <<>> = {}
<1>1. DOMAIN <<>> = {} /\ <<>> \in [DOMAIN <<>> -> Memberships]
  OBVIOUS
<1> QED
  BY <1>1, RowMapsAre, FS_EmptySet

LEMMA OverIs ==
  ASSUME NEW f, NEW g
  PROVE  /\ DOMAIN Over(f, g) = DOMAIN f \cup DOMAIN g
         /\ \A x \in DOMAIN f : Over(f, g)[x] = f[x]
         /\ \A x \in DOMAIN g \ DOMAIN f : Over(f, g)[x] = g[x]
         /\ f \in RowMaps /\ g \in RowMaps => Over(f, g) \in RowMaps
<1>1. /\ DOMAIN Over(f, g) = DOMAIN f \cup DOMAIN g
      /\ \A x \in DOMAIN f : Over(f, g)[x] = f[x]
      /\ \A x \in DOMAIN g \ DOMAIN f : Over(f, g)[x] = g[x]
  BY DEF Over
<1>2. ASSUME f \in RowMaps, g \in RowMaps PROVE Over(f, g) \in RowMaps
  <2>1. DOMAIN f \cup DOMAIN g \subseteq Uids /\ IsFiniteSet(DOMAIN f \cup DOMAIN g)
    BY <1>2, RowMapsAre, FS_Union
  <2>2. \A x \in DOMAIN f \cup DOMAIN g : (IF x \in DOMAIN f THEN f[x] ELSE g[x]) \in Memberships
    BY <1>2, RowsOf
  <2>3. Over(f, g) \in [DOMAIN f \cup DOMAIN g -> Memberships]
    BY <2>2 DEF Over
  <2> QED
    BY <1>1, <2>1, <2>3, RowMapsAre
<1> QED
  BY <1>1, <1>2

LEMMA MaxOfFinite ==
  ASSUME NEW U \in SUBSET Nat, IsFiniteSet(U), U # {}
  PROVE  Max(U) \in U /\ \A v \in U : v <= Max(U)
<1>1. Cardinality(U) \in Nat /\ Cardinality(U) # 0
  BY FS_CardinalityType, FS_EmptySet
<1>2. Cardinality(U) \in 1 .. Cardinality(U)
  BY <1>1
<1>3. PICK u \in U : Position(U, u) = Cardinality(U)
  BY <1>2, Positions
<1>4. \A v \in U : v <= u
  <2> SUFFICES ASSUME NEW v \in U, ~(v <= u) PROVE FALSE
    OBVIOUS
  <2>1. u < v /\ Position(U, v) \in 1 .. Cardinality(U)
    BY Positions
  <2>2. Position(U, u) < Position(U, v)
    BY <2>1, Positions
  <2> QED
    BY <1>1, <1>3, <2>1, <2>2
<1> QED
  BY <1>4 DEF Max

-----------------------------------------------------------------------------
(* Applying a record                                                       *)

LEMMA AddedIs ==
  ASSUME box \in Boxes, NEW r \in Records, NEW A, RecordOf(box.given, A, r)
  PROVE  /\ Added(r) \in RowMaps
         /\ \A u \in DOMAIN Added(r) :
              ~Added(r)[u].gone /\ Added(r)[u].msg \in MessagesOf(r)
         /\ \A m \in MessagesOf(r) : \E u \in DOMAIN Added(r) : Added(r)[u].msg = m
<1>1. CASE r \in Deliveries
  <2>1. r.type = "delivered" /\ r.msg \in Messages
    BY <1>1 DEF Deliveries
  <2> DEFINE f == [u \in {box.next} |-> Row(r.msg, {})]
  <2>2. Added(r) = f
    BY <2>1 DEF Added
  <2>3. Row(r.msg, {}) \in Memberships /\ Row(r.msg, {}).msg = r.msg /\ ~Row(r.msg, {}).gone
    BY <2>1 DEF Row, Memberships
  <2>4. DOMAIN f = {box.next} /\ f[box.next] = Row(r.msg, {}) /\ f \in [{box.next} -> Memberships]
    BY <2>3
  <2>5. {box.next} \subseteq Uids /\ IsFiniteSet({box.next})
    BY FS_Singleton DEF Boxes
  <2> HIDE DEF f
  <2>6. f \in RowMaps
    BY <2>4, <2>5, RowMapsAre
  <2>7. MessagesOf(r) = {r.msg}
    BY <2>1 DEF MessagesOf
  <2> QED
    BY <2>2, <2>3, <2>4, <2>6, <2>7
<1>2. CASE r \in Appends \cup Copies
  <2>1. r.type \in Adding /\ r.type # "delivered" /\ r.rows \in RowMaps
    BY <1>2 DEF Appends, Copies, Adding
  <2>2. Added(r) = r.rows /\ MessagesOf(r) = {r.rows[u].msg : u \in DOMAIN r.rows}
    BY <2>1 DEF Added, MessagesOf, Adding
  <2>3. \A u \in DOMAIN r.rows : ~r.rows[u].gone
    BY <2>1 DEF RecordOf
  <2> QED
    BY <2>1, <2>2, <2>3
<1>3. CASE r \in Expunges \cup FlagChanges
  <2>1. r.type \notin Adding \cup {"delivered"}
    BY <1>3 DEF Expunges, FlagChanges, Adding
  <2>2. Added(r) = <<>> /\ MessagesOf(r) = {}
    BY <2>1 DEF Added, MessagesOf, Adding
  <2> QED
    BY <2>2, EmptyRows
<1> QED
  BY <1>1, <1>2, <1>3 DEF Records

LEMMA RaisedIs ==
  ASSUME box \in Boxes, NEW U \in SUBSET Uids, IsFiniteSet(U)
  PROVE  RaisedUidnext(U) \in Uids
<1> DEFINE V == {u + 1 : u \in U}
           W == {box.next} \cup V
<1>1. box.next \in Uids
  BY DEF Boxes
<1>2. V \subseteq Nat /\ 0 \notin V
  BY DEF Uids
<1>3. IsFiniteSet(V)
  <2> DEFINE f == [u \in U |-> u + 1]
  <2>1. f \in Surjection(U, V)
    BY DEF Surjection
  <2> QED
    BY <2>1, FS_Surjection
<1>4. IsFiniteSet(W)
  BY <1>3, FS_Singleton, FS_Union
<1>5. W \in SUBSET Nat /\ W # {} /\ 0 \notin W
  BY <1>1, <1>2 DEF Uids
<1>6. RaisedUidnext(U) = Max(W)
  BY DEF RaisedUidnext
<1> HIDE DEF W
<1>7. Max(W) \in W
  BY <1>4, <1>5, MaxOfFinite
<1> QED
  BY <1>5, <1>6, <1>7 DEF Uids

LEMMA AfterRecordIs ==
  ASSUME box \in Boxes, NEW r \in Records, NEW A, RecordOf(box.given, A, r), Fits(r),
         NEW c, c = AfterRecord(r)
  PROVE  /\ c \in Boxes /\ c.journal = box.journal /\ c.done = box.done + 1
         /\ c.given = box.given \cup {<<u, Added(r)[u].msg>> : u \in DOMAIN Added(r)}
         /\ DOMAIN c.rows = DOMAIN Added(r) \cup DOMAIN box.rows
         /\ \A u \in DOMAIN Added(r) : c.rows[u] = Added(r)[u] /\ u \notin DOMAIN box.rows
         /\ \A u \in DOMAIN box.rows : /\ c.rows[u].msg = box.rows[u].msg
                                       /\ c.rows[u].gone = (box.rows[u].gone \/ u \in Hidden(r))
<1> DEFINE add == Added(r)
           new == {<<u, add[u].msg>> : u \in DOMAIN add}
           marked == [u \in DOMAIN box.rows |-> Marked(r, box.rows[u], u)]
           rows == Over(add, marked)
<1>1. add \in RowMaps /\ \A u \in DOMAIN add : add[u].msg \in Messages /\ u \in Uids
  BY AddedIs, RowsOf
<1>2. box.rows \in RowMaps /\ box.done \in Nat
  BY DEF Boxes
<1>3. ASSUME NEW u \in DOMAIN box.rows
      PROVE  /\ Marked(r, box.rows[u], u) \in Memberships
             /\ Marked(r, box.rows[u], u).msg = box.rows[u].msg
             /\ Marked(r, box.rows[u], u).gone = (box.rows[u].gone \/ u \in Hidden(r))
  <2> DEFINE row == box.rows[u]
             g == row.gone \/ u \in Hidden(r)
             F == IF r.type = "flags" /\ u = r.uid
                  THEN IF r.mode = "set" THEN row.flags \cup r.flags ELSE row.flags \ r.flags
                  ELSE row.flags
  <2>1. row \in Memberships /\ row.flags \subseteq Flags
    BY <1>2, RowsOf
  <2>2. r.type = "flags" => r.flags \subseteq Flags
    BY DEF Records, Deliveries, Appends, Copies, Expunges, FlagChanges
  <2>3. F \subseteq Flags /\ g \in BOOLEAN
    <3>1. CASE r.type = "flags" /\ u = r.uid
      BY <2>1, <2>2, <3>1
    <3>2. CASE ~(r.type = "flags" /\ u = r.uid)
      BY <2>1, <3>2
    <3> QED
      BY <3>1, <3>2
  <2>4. Marked(r, row, u) = [row EXCEPT !.gone = g, !.flags = F]
    BY <2>1 DEF Marked, Memberships
  <2> HIDE DEF F, g
  <2>5. /\ Marked(r, row, u) \in Memberships /\ Marked(r, row, u).msg = row.msg
        /\ Marked(r, row, u).gone = g
    BY <2>1, <2>3, <2>4 DEF Memberships
  <2> QED
    BY <2>5 DEF g
<1>4. marked \in RowMaps /\ DOMAIN marked = DOMAIN box.rows
  <2>1. marked \in [DOMAIN box.rows -> Memberships]
    BY <1>3
  <2>2. DOMAIN marked = DOMAIN box.rows
    OBVIOUS
  <2>3. DOMAIN box.rows \subseteq Uids /\ IsFiniteSet(DOMAIN box.rows)
    BY <1>2, RowMapsAre
  <2> QED
    BY <2>1, <2>2, <2>3, RowMapsAre
<1>5. \A u \in DOMAIN box.rows : marked[u] = Marked(r, box.rows[u], u)
  OBVIOUS
<1>6. c = [box EXCEPT !.done = @ + 1, !.next = RaisedUidnext(DOMAIN add), !.rows = rows,
                      !.given = @ \cup new]
  BY DEF AfterRecord, Boxes
<1>7. DOMAIN add \cap DOMAIN box.rows = {}
  BY DEF Fits
<1> HIDE DEF marked, add
<1>8. /\ DOMAIN rows = DOMAIN add \cup DOMAIN box.rows /\ rows \in RowMaps
      /\ \A u \in DOMAIN add : rows[u] = add[u]
      /\ \A u \in DOMAIN box.rows : rows[u] = marked[u]
  <2>1. /\ DOMAIN Over(add, marked) = DOMAIN add \cup DOMAIN marked
        /\ \A x \in DOMAIN add : Over(add, marked)[x] = add[x]
        /\ \A x \in DOMAIN marked \ DOMAIN add : Over(add, marked)[x] = marked[x]
        /\ add \in RowMaps /\ marked \in RowMaps => Over(add, marked) \in RowMaps
    BY OverIs
  <2> QED
    BY <1>1, <1>4, <1>7, <2>1
<1> HIDE DEF rows
<1>9. RaisedUidnext(DOMAIN add) \in Uids
  BY <1>1, RowMapsAre, RaisedIs
<1>10. new \subseteq Uids \X Messages
  BY <1>1
<1> HIDE DEF new
<1>11. c \in Boxes
  <2> DEFINE n == RaisedUidnext(DOMAIN add)
  <2>1. n \in Uids /\ rows \in RowMaps /\ box.done + 1 \in Nat
    BY <1>2, <1>8, <1>9
  <2>2. c = [box EXCEPT !.done = box.done + 1, !.next = n, !.rows = rows,
                        !.given = box.given \cup new]
    BY <1>6
  <2> HIDE DEF n
  <2> QED
    BY <1>10, <2>1, <2>2 DEF Boxes
<1>12. c.journal = box.journal /\ c.done = box.done + 1 /\ c.rows = rows /\ c.given = box.given \cup new
  BY <1>6 DEF Boxes
<1> QED
  BY <1>3, <1>5, <1>7, <1>8, <1>11, <1>12 DEF new, add

(* A record that is applied loses no message: a MOVE shows what it hides,  *)
(* and what an EXPUNGE hides was named by its client, or had the UID of    *)
(* what the client named.                                                  *)
LEMMA AppliedIsSound ==
  ASSUME Sound(box, asked), box.done < Len(box.journal), NEW r,
         r = box.journal[box.done + 1], Fits(r), NEW c, c = AfterRecord(r)
  PROVE  Sound(c, asked) /\ box.given \subseteq c.given
<1>1. /\ box \in Boxes /\ box.journal \in Seq(Records) /\ box.done \in Nat
      /\ box.done + 1 \in 1 .. Len(box.journal)
  BY DEF Sound, Boxes
<1>2. r \in Records /\ RecordOf(box.given, asked, r)
  BY <1>1 DEF Sound
<1> DEFINE add == Added(r)
<1>3. /\ add \in RowMaps
      /\ \A u \in DOMAIN add : ~add[u].gone /\ add[u].msg \in MessagesOf(r)
      /\ \A m \in MessagesOf(r) : \E u \in DOMAIN add : add[u].msg = m
  BY <1>1, <1>2, AddedIs
<1>4. /\ c \in Boxes /\ c.journal = box.journal /\ c.done = box.done + 1
      /\ c.given = box.given \cup {<<u, add[u].msg>> : u \in DOMAIN add}
      /\ DOMAIN c.rows = DOMAIN add \cup DOMAIN box.rows
      /\ \A u \in DOMAIN add : c.rows[u] = add[u] /\ u \notin DOMAIN box.rows
      /\ \A u \in DOMAIN box.rows : /\ c.rows[u].msg = box.rows[u].msg
                                    /\ c.rows[u].gone = (box.rows[u].gone \/ u \in Hidden(r))
  BY <1>1, <1>2, AfterRecordIs
<1> HIDE DEF add
<1>5. box.given \subseteq c.given /\ \A u \in DOMAIN add : <<u, add[u].msg>> \in c.given
  BY <1>4
<1>6. \A u \in DOMAIN c.rows : <<u, c.rows[u].msg>> \in c.given
  BY <1>4, <1>5 DEF Sound
<1>7. \A i \in 1 .. Len(c.journal) : RecordOf(c.given, asked, c.journal[i])
  BY <1>4, <1>5 DEF Sound, RecordOf
<1>8. \A a \in c.given : a \in box.given \/ \E u \in DOMAIN add : a = <<u, add[u].msg>>
  BY <1>4
<1>9. \A a \in c.given : InJournal(c, a[2])
  <2> SUFFICES ASSUME NEW a \in c.given PROVE InJournal(c, a[2])
    OBVIOUS
  <2>1. CASE a \in box.given
    BY <1>4, <2>1 DEF Sound, InJournal
  <2>2. CASE \E u \in DOMAIN add : a = <<u, add[u].msg>>
    BY <1>1, <1>3, <1>4, <2>2 DEF InJournal
  <2> QED
    BY <1>8, <2>1, <2>2
<1>10. \A m \in MessagesOf(r) : Shown(c, m)
  BY <1>3, <1>4 DEF Shown
<1>11. ASSUME NEW u \in DOMAIN box.rows, ~box.rows[u].gone, u \in Hidden(r)
       PROVE  LET m == box.rows[u].msg
              IN  Shown(c, m) \/ m \in asked \/ Astray(c.given, m)
  <2> DEFINE m == box.rows[u].msg
  <2>0. <<u, m>> \in box.given
    BY DEF Sound
  <2>1. CASE r.type = "moved"
    <3>1. u \in r.uids
      BY <1>11, <2>1 DEF Hidden
    <3>2. PICK v \in DOMAIN r.rows : r.source[v] = u
      BY <1>2, <2>1, <3>1 DEF RecordOf
    <3>3. r.rows[v].msg = box.rows[u].msg
      BY <2>1, <3>2 DEF Fits
    <3>4. m \in MessagesOf(r)
      BY <2>1, <3>2, <3>3 DEF MessagesOf
    <3> QED
      BY <1>10, <3>4
  <2>2. CASE r.type = "expunged"
    <3>1. PICK n \in asked : <<u, n>> \in box.given
      BY <1>2, <1>11, <2>2 DEF Hidden, RecordOf
    <3>2. CASE n = m
      BY <3>2
    <3>3. CASE n # m
      <4>1. u \in ReusedIn(c.given)
        <5>1. <<u, n>> \in c.given /\ <<u, m>> \in c.given
          BY <1>5, <2>0, <3>1
        <5>2. <<u, n>>[1] = u /\ <<u, m>>[1] = u /\ <<u, n>>[2] # <<u, m>>[2]
          BY <3>3
        <5> QED
          BY <5>1, <5>2, ReusedAre
      <4>2. <<u, m>> \in c.given /\ <<u, m>>[1] = u /\ <<u, m>>[2] = m
        BY <1>5, <2>0
      <4> QED
        BY <4>1, <4>2 DEF Astray
    <3> QED
      BY <3>2, <3>3
  <2> QED
    BY <1>11, <2>1, <2>2 DEF Hidden
<1>12. Kept(c, asked)
  <2> SUFFICES ASSUME NEW a \in c.given
               PROVE  \/ a[2] \in asked \/ Shown(c, a[2]) \/ Awaited(c, a[2])
                      \/ Astray(c.given, a[2])
    BY DEF Kept
  <2>1. CASE \E u \in DOMAIN add : a = <<u, add[u].msg>>
    BY <1>3, <1>10, <2>1
  <2>2. CASE a \in box.given /\ Shown(box, a[2])
    <3>1. PICK u \in DOMAIN box.rows : ~box.rows[u].gone /\ box.rows[u].msg = a[2]
      BY <2>2 DEF Shown
    <3>2. CASE u \in Hidden(r)
      BY <1>11, <3>1, <3>2
    <3>3. CASE u \notin Hidden(r)
      BY <1>4, <3>1, <3>3 DEF Shown
    <3> QED
      BY <3>2, <3>3
  <2>3. CASE a \in box.given /\ Awaited(box, a[2])
    <3>1. PICK i \in 1 .. Len(box.journal) : i > box.done /\ a[2] \in MessagesOf(box.journal[i])
      BY <2>3 DEF Awaited
    <3>2. CASE i = box.done + 1
      BY <1>10, <3>1, <3>2
    <3>3. CASE i # box.done + 1
      <4>1. i > box.done + 1
        BY <1>1, <3>1, <3>3
      <4> QED
        BY <1>4, <3>1, <4>1 DEF Awaited
    <3> QED
      BY <3>2, <3>3
  <2>4. CASE a \in box.given /\ (a[2] \in asked \/ Astray(box.given, a[2]))
    BY <1>5, <2>4, ReusedGrow DEF Astray
  <2> QED
    BY <1>8, <2>1, <2>2, <2>3, <2>4 DEF Sound, Kept
<1>13. c.done <= Len(c.journal)
  BY <1>1, <1>4
<1> QED
  BY <1>4, <1>5, <1>6, <1>7, <1>9, <1>12, <1>13 DEF Sound

LEMMA BoxWith ==
  ASSUME box \in Boxes, NEW d \in Nat, NEW h \in BOOLEAN, NEW n \in Uids, NEW rows \in RowMaps
  PROVE  [box EXCEPT !.done = d, !.held = h, !.next = n, !.rows = rows] \in Boxes
  BY DEF Boxes

(* The catalog is built anew: all its messages wait in the journal.        *)
LEMMA RebuildIsSound ==
  ASSUME Sound(box, asked), NEW c,
         c = [box EXCEPT !.done = 0, !.held = FALSE, !.next = 1, !.rows = <<>>]
  PROVE  Grows(c, asked)
<1>1. box \in Boxes
  BY DEF Sound
<1>2. c \in Boxes
  <2>1. 0 \in Nat /\ 1 \in Uids /\ FALSE \in BOOLEAN
    BY DEF Uids
  <2> QED
    BY <1>1, <2>1, EmptyRows, BoxWith
<1>3. c.journal = box.journal /\ c.given = box.given /\ c.rows = <<>> /\ c.done = 0
  BY <1>1 DEF Boxes
<1>4. DOMAIN c.rows = {}
  BY <1>3, EmptyRows
<1>5. \A a \in c.given : Awaited(c, a[2]) /\ InJournal(c, a[2])
  BY <1>3 DEF Sound, InJournal, Awaited
<1>6. \A i \in 1 .. Len(c.journal) : RecordOf(c.given, asked, c.journal[i])
  BY <1>3 DEF Sound
<1>7. c.done <= Len(c.journal)
  BY <1>2, <1>3 DEF Boxes
<1> QED
  BY <1>2, <1>3, <1>4, <1>5, <1>6, <1>7 DEF Grows, Sound, Kept

LEMMA BoxStays ==
  ASSUME Sound(box, asked), NEW A, asked \subseteq A, NEW c, c \in Boxes,
         c.journal = box.journal, c.done = box.done, c.rows = box.rows, c.given = box.given
  PROVE  Grows(c, A)
  BY DEF Grows, Sound, Kept, RecordOf, InJournal, Shown, Awaited

-----------------------------------------------------------------------------
(* Requests to the daemon                                                  *)

Pairs(rows) == {<<u, rows[u].msg>> : u \in DOMAIN rows}

LEMMA ReservedIs ==
  ASSUME Sound(box, asked), NEW A, asked \subseteq A, NEW n \in Nat
  PROVE  /\ Reserved(n) \in Boxes /\ Grows(Reserved(n), A)
         /\ Reserved(n).journal = box.journal /\ Reserved(n).done = box.done
         /\ Reserved(n).rows = box.rows /\ Reserved(n).given = box.given
<1>1. box \in Boxes
  BY DEF Sound
<1>2. /\ Reserved(n) \in Boxes
      /\ Reserved(n).journal = box.journal /\ Reserved(n).done = box.done
      /\ Reserved(n).rows = box.rows /\ Reserved(n).given = box.given
  BY <1>1 DEF Reserved, Boxes, Uids
<1> QED
  BY <1>2, BoxStays

LEMMA RecordedIs ==
  ASSUME Sound(box, asked), NEW A, asked \subseteq A, NEW r \in Records, NEW rows \in RowMaps,
         RecordOf(box.given \cup Pairs(rows), A, r),
         \A u \in DOMAIN rows : rows[u].msg \in MessagesOf(r), NEW uids
  PROVE  /\ \A o \in Accepted(r, rows, uids) :
              /\ Grows(o.box, A) /\ Grows(o.partly, A) /\ o.class = "ok" /\ o.uids = uids
              /\ Pairs(rows) \subseteq o.box.given
<1> DEFINE n == Cardinality(DOMAIN rows)
           c == Recorded(r, rows)
           new == Pairs(rows)
<1>0. box \in Boxes /\ box.journal \in Seq(Records)
  BY DEF Sound, Boxes
<1>1. n \in Nat
  BY RowMapsAre, FS_CardinalityType
<1>2. /\ Reserved(n) \in Boxes /\ Grows(Reserved(n), A)
      /\ Reserved(n).journal = box.journal /\ Reserved(n).done = box.done
      /\ Reserved(n).rows = box.rows /\ Reserved(n).given = box.given
  BY <1>1, ReservedIs
<1>3. c = [Reserved(n) EXCEPT !.journal = Append(@, r), !.given = @ \cup new]
  BY DEF Recorded, Pairs
<1>4. new \subseteq Uids \X Messages
  BY RowsOf DEF Pairs
<1>5. Append(box.journal, r) \in Seq(Records)
  BY <1>0
<1> HIDE DEF new, n
<1>6. /\ c \in Boxes /\ c.journal = Append(box.journal, r) /\ c.done = box.done
      /\ c.rows = box.rows /\ c.given = box.given \cup new
  BY <1>2, <1>3, <1>4, <1>5 DEF Boxes
<1> HIDE DEF c
<1>7. /\ Len(c.journal) = Len(box.journal) + 1 /\ Len(box.journal) \in Nat
      /\ \A i \in 1 .. Len(box.journal) : c.journal[i] = box.journal[i]
      /\ c.journal[Len(box.journal) + 1] = r
  BY <1>0, <1>6
<1>8. /\ \A m : InJournal(box, m) => InJournal(c, m)
      /\ \A m : Awaited(box, m) => Awaited(c, m)
      /\ \A m : Shown(box, m) => Shown(c, m)
      /\ \A m \in MessagesOf(r) : InJournal(c, m)
  <2>1. \A m : InJournal(box, m) => InJournal(c, m)
    BY <1>7 DEF InJournal
  <2>2. \A m : Awaited(box, m) => Awaited(c, m)
    BY <1>6, <1>7 DEF Awaited
  <2>3. \A m : Shown(box, m) => Shown(c, m)
    BY <1>6 DEF Shown
  <2>4. \A m \in MessagesOf(r) : InJournal(c, m)
    <3>1. Len(box.journal) + 1 \in 1 .. Len(c.journal)
      BY <1>7
    <3> QED
      BY <1>7, <3>1 DEF InJournal
  <2> QED
    BY <2>1, <2>2, <2>3, <2>4
<1>9. ASSUME NEW a \in new PROVE a[2] \in MessagesOf(r)
  BY <1>9 DEF new, Pairs
<1>10. \A i \in 1 .. Len(c.journal) : RecordOf(c.given, A, c.journal[i])
  <2> SUFFICES ASSUME NEW i \in 1 .. Len(c.journal) PROVE RecordOf(c.given, A, c.journal[i])
    OBVIOUS
  <2>1. CASE i \in 1 .. Len(box.journal)
    <3>1. RecordOf(box.given, asked, box.journal[i])
      BY <2>1 DEF Sound
    <3> QED
      BY <1>6, <1>7, <2>1, <3>1 DEF RecordOf
  <2>2. CASE i = Len(box.journal) + 1
    BY <1>6, <1>7, <2>2 DEF new
  <2> QED
    BY <1>7, <2>1, <2>2
<1>11. \A a \in c.given : InJournal(c, a[2])
  BY <1>6, <1>8, <1>9 DEF Sound
<1>12. Kept(c, A)
  <2> SUFFICES ASSUME NEW a \in c.given
               PROVE  \/ a[2] \in A \/ Shown(c, a[2]) \/ Awaited(c, a[2])
                      \/ Astray(c.given, a[2])
    BY DEF Kept
  <2>1. CASE a \in box.given
    <3>1. Astray(box.given, a[2]) => Astray(c.given, a[2])
      BY <1>6, ReusedGrow DEF Astray
    <3> QED
      BY <1>8, <2>1, <3>1 DEF Sound, Kept
  <2>2. CASE a \in new
    <3>1. a[2] \in MessagesOf(r)
      BY <1>9, <2>2
    <3>2. box.done <= Len(box.journal) /\ box.done \in Nat
      BY DEF Sound, Boxes
    <3>3. Len(c.journal) > c.done /\ Len(c.journal) \in 1 .. Len(c.journal)
      BY <1>6, <1>7, <3>2
    <3> QED
      BY <1>7, <3>1, <3>3 DEF Awaited
  <2> QED
    BY <1>6, <2>1, <2>2
<1>13. Grows(c, A)
  <2>1. c.done <= Len(c.journal)
    BY <1>6, <1>7 DEF Sound, Boxes
  <2>2. \A u \in DOMAIN c.rows : <<u, c.rows[u].msg>> \in c.given
    BY <1>6 DEF Sound
  <2> QED
    BY <1>6, <1>10, <1>11, <1>12, <2>1, <2>2 DEF Grows, Sound
<1>14. \A o \in Accepted(r, rows, uids) :
         o = [class |-> "ok", box |-> c, partly |-> Reserved(n), uids |-> uids]
  BY DEF Accepted, c, n
<1> QED
  BY <1>2, <1>6, <1>13, <1>14 DEF new

LEMMA NoPairs == Pairs(<<>>) = {} /\ Cardinality(DOMAIN <<>>) = 0
<1>1. DOMAIN <<>> = {}
  BY EmptyRows
<1> QED
  BY <1>1, FS_EmptySet DEF Pairs

(* Whatever becomes of a request, the mailbox stays sound.                 *)
Outcome(o, A) == Grows(o.box, A) /\ Grows(o.partly, A)

LEMMA RefusedIs ==
  ASSUME Sound(box, asked), NEW A, asked \subseteq A, NEW class, NEW o \in Refused(class)
  PROVE  Outcome(o, A) /\ o.class = class /\ o.uids = <<>>
<1>1. o = [class |-> class, box |-> box, partly |-> box, uids |-> <<>>]
  BY DEF Refused
<1>2. o.box = box /\ o.partly = box /\ o.class = class /\ o.uids = <<>>
  BY <1>1
<1>3. box \in Boxes
  BY DEF Sound
<1>4. Grows(box, A)
  BY <1>3, BoxStays
<1> QED
  BY <1>2, <1>4 DEF Outcome

LEMMA DeliverIsSound ==
  ASSUME Sound(box, asked), NEW m \in Messages, NEW c,
         c = [box EXCEPT !.journal = Append(@, [type |-> "delivered", msg |-> m])]
  PROVE  Grows(c, asked)
<1> DEFINE r == [type |-> "delivered", msg |-> m]
           none == <<>>
<1>1. r \in Records /\ RecordOf(box.given \cup Pairs(none), asked, r)
  BY DEF Records, Deliveries, RecordOf, Adding
<1>2. none \in RowMaps /\ DOMAIN none = {}
  BY EmptyRows
<1>3. box \in Boxes
  BY DEF Sound
<1>4. Pairs(none) = {} /\ Cardinality(DOMAIN none) = 0
  BY NoPairs
<1> HIDE DEF r, none
<1>5. \A o \in Accepted(r, none, none) : Grows(o.box, asked)
  BY <1>1, <1>2, RecordedIs
<1>6. Recorded(r, none) = [box EXCEPT !.journal = Append(@, r)]
  <2>1. {<<u, none[u].msg>> : u \in DOMAIN none} = {}
    BY <1>2
  <2>2. Reserved(0) = box
    BY <1>3 DEF Reserved, Boxes, Uids
  <2>3. Recorded(r, none) = [box EXCEPT !.journal = Append(@, r), !.given = @ \cup {}]
    BY <1>4, <2>1, <2>2 DEF Recorded
  <2> QED
    BY <1>3, <2>3 DEF Boxes
<1>7. [class |-> "ok", box |-> Recorded(r, none), partly |-> Reserved(Cardinality(DOMAIN none)),
       uids |-> none] \in Accepted(r, none, none)
  BY DEF Accepted
<1>8. Grows(Recorded(r, none), asked)
  BY <1>5, <1>7
<1> QED
  BY <1>6, <1>8 DEF r

LEMMA FlagsOutcome ==
  ASSUME Sound(box, asked), NEW u, NEW mode \in {"set", "clear"}, NEW F \in SUBSET Flags,
         NEW o \in DaemonFlags(u, mode, F)
  PROVE  Outcome(o, asked)
<1>1. CASE u \notin Visible
  BY <1>1, RefusedIs DEF DaemonFlags
<1>2. CASE u \in Visible
  <2> DEFINE r == [type |-> "flags", uid |-> u, mode |-> mode, flags |-> F]
             none == <<>>
  <2>1. u \in Uids
    BY <1>2, RowsOf DEF Sound, Boxes, Visible
  <2>2. r \in Records /\ RecordOf(box.given \cup Pairs(none), asked, r)
    BY <2>1 DEF Records, FlagChanges, RecordOf, Adding
  <2>3. none \in RowMaps /\ DOMAIN none = {}
    BY EmptyRows
  <2>4. o \in Accepted(r, none, none)
    BY <1>2 DEF DaemonFlags
  <2> HIDE DEF r, none
  <2>5. \A p \in Accepted(r, none, none) : Grows(p.box, asked) /\ Grows(p.partly, asked)
    BY <2>2, <2>3, RecordedIs
  <2> QED
    BY <2>4, <2>5 DEF Outcome
<1> QED
  BY <1>1, <1>2

(* An expunge that a client asked for.                                     *)
LEMMA ExpungeOutcome ==
  ASSUME Sound(box, asked), NEW A, asked \subseteq A, NEW U,
         \A u \in U : \E m \in A : <<u, m>> \in box.given,
         NEW o \in DaemonExpunge(U)
  PROVE  Outcome(o, A)
<1>1. CASE U \cap Visible # {}
  <2> DEFINE r == [type |-> "expunged", uids |-> U \cap Visible]
             none == <<>>
  <2>1. U \cap Visible \subseteq Uids
    BY RowsOf DEF Sound, Boxes, Visible
  <2>2. r \in Records /\ RecordOf(box.given \cup Pairs(none), A, r)
    BY <2>1 DEF Records, Expunges, RecordOf, Adding
  <2>3. none \in RowMaps /\ DOMAIN none = {}
    BY EmptyRows
  <2>4. o \in Accepted(r, none, none)
    BY <1>1 DEF DaemonExpunge
  <2> HIDE DEF r, none
  <2>5. \A p \in Accepted(r, none, none) : Grows(p.box, A) /\ Grows(p.partly, A)
    BY <2>2, <2>3, RecordedIs
  <2> QED
    BY <2>4, <2>5 DEF Outcome
<1>2. CASE U \cap Visible = {}
  <2>1. o \in Refused("ok") \/ o \in Refused("not_found")
    BY <1>2 DEF DaemonExpunge
  <2> QED
    BY <2>1, RefusedIs
<1> QED
  BY <1>1, <1>2

LEMMA AppendOutcome ==
  ASSUME Sound(box, asked), NEW m \in Messages, NEW o \in DaemonAppend(m)
  PROVE  /\ Outcome(o, asked) /\ o.class = "ok" /\ o.uids = NewUid
         /\ <<box.next, m>> \in o.box.given
<1> DEFINE rows == [u \in {box.next} |-> Row(m, {})]
           r == [type |-> "appended", rows |-> rows]
<1>1. box.next \in Uids
  BY DEF Sound, Boxes
<1>2. Row(m, {}) \in Memberships /\ Row(m, {}).msg = m /\ ~Row(m, {}).gone
  BY DEF Row, Memberships
<1>3. /\ DOMAIN rows = {box.next} /\ rows[box.next] = Row(m, {})
      /\ rows \in [{box.next} -> Memberships]
  BY <1>2
<1>4. o \in Accepted(r, rows, NewUid)
  BY DEF DaemonAppend
<1>5. r.type = "appended" /\ r.rows = rows
  OBVIOUS
<1> HIDE DEF rows
<1>6. rows \in RowMaps => r \in Records
  BY DEF Records, Appends
<1> HIDE DEF r
<1>7. rows \in RowMaps
  <2>1. DOMAIN rows \subseteq Uids /\ IsFiniteSet(DOMAIN rows)
    BY <1>1, <1>3, FS_Singleton
  <2>2. rows \in [DOMAIN rows -> Memberships]
    BY <1>3
  <2> QED
    BY <2>1, <2>2, RowMapsAre
<1>8. \A u \in DOMAIN rows : rows[u].msg \in MessagesOf(r)
  BY <1>5 DEF MessagesOf
<1>9. <<box.next, m>> \in Pairs(rows)
  BY <1>2, <1>3 DEF Pairs
<1>10. RecordOf(box.given \cup Pairs(rows), asked, r)
  BY <1>2, <1>3, <1>5 DEF RecordOf, Pairs
<1>11. \A p \in Accepted(r, rows, NewUid) :
         /\ Grows(p.box, asked) /\ Grows(p.partly, asked) /\ p.class = "ok" /\ p.uids = NewUid
         /\ Pairs(rows) \subseteq p.box.given
  BY <1>6, <1>7, <1>8, <1>10, RecordedIs
<1> QED
  BY <1>4, <1>9, <1>11 DEF Outcome

(* A batch of copies gets consecutive UIDs, in the order of the sources.   *)
LEMMA CopiedAre ==
  ASSUME Sound(box, asked), NEW U \in SUBSET Visible
  PROVE  LET k == Cardinality(U)
             dest == CopyUids(U)
             rows == CopiedRows(U)
         IN  /\ k \in Nat /\ rows \in RowMaps /\ DOMAIN rows = Range(dest)
             /\ Range(dest) = box.next .. (box.next + k - 1)
             /\ \A v \in Range(dest) : SourceOf(U, v) \in U /\ rows[v].msg = box.rows[SourceOf(U, v)].msg
             /\ \A v \in Range(dest) : ~rows[v].gone
             /\ \A u \in U : \E v \in Range(dest) : SourceOf(U, v) = u
             /\ \A n \in 1 .. k : /\ Nth(U, n) \in U /\ box.next + n - 1 \in DOMAIN rows
                                  /\ rows[box.next + n - 1].msg = box.rows[Nth(U, n)].msg
<1> DEFINE k == Cardinality(U)
           dest == CopyUids(U)
           rows == CopiedRows(U)
<1>a. dest = [u \in U |-> box.next + Position(U, u) - 1]
  BY DEF CopyUids
<1>b. rows = [v \in Range(dest) |-> Row(box.rows[SourceOf(U, v)].msg,
                                        box.rows[SourceOf(U, v)].flags)]
  BY DEF CopiedRows
<1>c. \A v : SourceOf(U, v) = CHOOSE u \in U : dest[u] = v
  BY DEF SourceOf
<1> HIDE DEF dest, rows
<1>1. box.next \in Nat /\ box.next >= 1 /\ box.rows \in RowMaps
  BY DEF Sound, Boxes, Uids
<1>2. U \in SUBSET Nat /\ IsFiniteSet(U) /\ U \subseteq DOMAIN box.rows
  <2>1. DOMAIN box.rows \subseteq Nat /\ IsFiniteSet(DOMAIN box.rows)
    BY <1>1, RowMapsAre DEF Uids
  <2>2. U \subseteq DOMAIN box.rows
    BY DEF Visible
  <2> QED
    BY <2>1, <2>2, FS_Subset
<1>3. /\ k \in Nat
      /\ \A u \in U : Position(U, u) \in 1 .. k /\ Nth(U, Position(U, u)) = u
      /\ \A n \in 1 .. k : Nth(U, n) \in U /\ Position(U, Nth(U, n)) = n
  BY <1>2, Positions, NthIs
<1> HIDE DEF k
<1>4. \A u \in U : dest[u] \in box.next .. (box.next + k - 1)
  <2>1. \A p \in 1 .. k : box.next + p - 1 \in box.next .. (box.next + k - 1)
    BY <1>1, <1>3
  <2> QED
    BY <1>a, <1>3, <2>1
<1>5. \A n \in 1 .. k : dest[Nth(U, n)] = box.next + n - 1
  BY <1>a, <1>3
<1>6. Range(dest) = box.next .. (box.next + k - 1)
  <2>1. ASSUME NEW v \in box.next .. (box.next + k - 1) PROVE v \in Range(dest)
    <3>1. v - box.next + 1 \in 1 .. k /\ box.next + (v - box.next + 1) - 1 = v
      BY <1>1, <1>3
    <3>2. dest[Nth(U, v - box.next + 1)] = v /\ Nth(U, v - box.next + 1) \in U
      BY <1>3, <1>5, <3>1
    <3> QED
      BY <1>a, <3>2 DEF Range
  <2>2. Range(dest) \subseteq box.next .. (box.next + k - 1)
    BY <1>a, <1>4 DEF Range
  <2> QED
    BY <2>1, <2>2
<1>7. ASSUME NEW u \in U
      PROVE  dest[u] \in Range(dest) /\ SourceOf(U, dest[u]) = u
  <2>1. dest[u] \in Range(dest)
    BY <1>a DEF Range
  <2>2. \A w \in U : dest[w] = dest[u] => w = u
    <3>1. \A p, q \in 1 .. k : box.next + p - 1 = box.next + q - 1 => p = q
      BY <1>1, <1>3
    <3> QED
      BY <1>a, <1>3, <3>1
  <2>3. (CHOOSE w \in U : dest[w] = dest[u]) = u
    BY <2>2
  <2> QED
    BY <1>c, <2>1, <2>3
<1>8. ASSUME NEW v \in Range(dest)
      PROVE  /\ SourceOf(U, v) \in U /\ rows[v] \in Memberships /\ ~rows[v].gone
             /\ rows[v].msg = box.rows[SourceOf(U, v)].msg
  <2>1. PICK u \in U : dest[u] = v
    BY <1>a DEF Range
  <2>2. SourceOf(U, v) = u
    BY <1>7, <2>1
  <2>3. rows[v] = Row(box.rows[u].msg, box.rows[u].flags)
    BY <1>b, <2>2
  <2>4. box.rows[u].msg \in Messages /\ box.rows[u].flags \subseteq Flags
    BY <1>1, <1>2, RowsOf
  <2> QED
    BY <2>2, <2>3, <2>4 DEF Row, Memberships
<1>9. DOMAIN rows = Range(dest)
  BY <1>b
<1>10. rows \in RowMaps
  <2>1. rows \in [DOMAIN rows -> Memberships]
    BY <1>b, <1>8
  <2>2. DOMAIN rows \subseteq Uids
    BY <1>1, <1>3, <1>6, <1>9 DEF Uids
  <2>3. IsFiniteSet(DOMAIN rows)
    BY <1>1, <1>3, <1>6, <1>9, Consecutive
  <2> QED
    BY <2>1, <2>2, <2>3, RowMapsAre
<1>11. \A u \in U : \E v \in Range(dest) : SourceOf(U, v) = u
  BY <1>7
<1>12. ASSUME NEW n \in 1 .. k
       PROVE  /\ Nth(U, n) \in U /\ box.next + n - 1 \in DOMAIN rows
              /\ rows[box.next + n - 1].msg = box.rows[Nth(U, n)].msg
  <2>1. Nth(U, n) \in U /\ dest[Nth(U, n)] = box.next + n - 1
    BY <1>3, <1>5
  <2>2. dest[Nth(U, n)] \in Range(dest) /\ SourceOf(U, dest[Nth(U, n)]) = Nth(U, n)
    BY <1>7, <2>1
  <2> QED
    BY <1>8, <1>9, <2>1, <2>2
<1> QED
  BY <1>3, <1>6, <1>8, <1>9, <1>10, <1>11, <1>12 DEF k, dest, rows

LEMMA CopyOutcome ==
  ASSUME Sound(box, asked), NEW U, NEW moving \in BOOLEAN, NEW o \in DaemonCopyMove(U, moving)
  PROVE  /\ Outcome(o, asked)
         /\ o.class = "ok" =>
              /\ U \subseteq Visible
              /\ \A n \in 1 .. Cardinality(U) :
                   <<Nth(Range(o.uids), n), box.rows[Nth(U, n)].msg>> \in o.box.given
<1>1. CASE ~ U \subseteq Visible
  BY <1>1, RefusedIs DEF DaemonCopyMove
<1>2. CASE U \subseteq Visible
  <2> DEFINE k == Cardinality(U)
             dest == CopyUids(U)
             rows == CopiedRows(U)
             r == CopyRecord(U, moving)
             from == [v \in Range(CopyUids(U)) |-> SourceOf(U, v)]
  <2>1. /\ k \in Nat /\ rows \in RowMaps /\ DOMAIN rows = Range(dest)
        /\ Range(dest) = box.next .. (box.next + k - 1)
        /\ \A v \in Range(dest) : SourceOf(U, v) \in U
        /\ \A v \in Range(dest) : ~rows[v].gone
        /\ \A u \in U : \E v \in Range(dest) : SourceOf(U, v) = u
        /\ \A n \in 1 .. k : /\ Nth(U, n) \in U /\ box.next + n - 1 \in DOMAIN rows
                             /\ rows[box.next + n - 1].msg = box.rows[Nth(U, n)].msg
    BY <1>2, CopiedAre
  <2>2. box.next \in Nat /\ U \subseteq Uids
    BY <1>2, RowsOf DEF Sound, Boxes, Uids, Visible
  <2>3. /\ r.type \in {"copied", "moved"} /\ r.uids = U /\ r.rows = rows /\ r.source = from
        /\ r = [type |-> r.type, uids |-> U, rows |-> rows, source |-> from]
    BY DEF CopyRecord
  <2>4. DOMAIN from = Range(dest) /\ \A v \in Range(dest) : from[v] = SourceOf(U, v)
    OBVIOUS
  <2>5. o \in Accepted(r, rows, dest)
    BY <1>2 DEF DaemonCopyMove
  <2>6. from \in [Range(dest) -> Uids] /\ Range(dest) \subseteq Uids
    <3>1. \A v \in Range(dest) : SourceOf(U, v) \in Uids
      BY <2>1, <2>2
    <3>2. DOMAIN rows \subseteq Uids
      BY <2>1, RowMapsAre
    <3> QED
      BY <2>1, <3>1, <3>2
  <2> HIDE DEF k, dest, rows, r, from
  <2>7. r \in Records
    BY <2>1, <2>2, <2>3, <2>6 DEF Records, Copies
  <2>8. \A u \in DOMAIN rows : rows[u].msg \in MessagesOf(r)
    BY <2>3 DEF MessagesOf
  <2>9. RecordOf(box.given \cup Pairs(rows), asked, r)
    BY <2>1, <2>3, <2>4 DEF RecordOf, Pairs
  <2>10. \A p \in Accepted(r, rows, dest) :
           /\ Grows(p.box, asked) /\ Grows(p.partly, asked) /\ p.class = "ok" /\ p.uids = dest
           /\ Pairs(rows) \subseteq p.box.given
    BY <2>1, <2>7, <2>8, <2>9, RecordedIs
  <2>11. Outcome(o, asked) /\ o.uids = dest /\ Pairs(rows) \subseteq o.box.given
    BY <2>5, <2>10 DEF Outcome
  <2>12. ASSUME NEW n \in 1 .. k
         PROVE  <<Nth(Range(o.uids), n), box.rows[Nth(U, n)].msg>> \in o.box.given
    <3>1. Nth(Range(dest), n) = box.next + n - 1
      BY <2>1, <2>2, Consecutive
    <3>2. <<box.next + n - 1, rows[box.next + n - 1].msg>> \in Pairs(rows)
      BY <2>1 DEF Pairs
    <3> QED
      BY <2>1, <2>11, <3>1, <3>2
  <2> QED
    BY <1>2, <2>11, <2>12 DEF k
<1> QED
  BY <1>1, <1>2

(* A request has one of its outcomes, wholly or in part, or none.          *)
LEMMA AskGrows ==
  ASSUME Sound(box, asked), NEW outcomes, NEW class, NEW uids, Ask(outcomes, class, uids),
         NEW A, asked \subseteq A, \A o \in outcomes : Outcome(o, A)
  PROVE  /\ Grows(box', A)
         /\ class = "ok" => \E o \in outcomes : o.class = "ok" /\ uids = o.uids /\ box' = o.box
<1>1. CASE \E o \in outcomes : class = o.class /\ uids = o.uids /\ box' = o.box
  BY <1>1 DEF Outcome
<1>2. CASE /\ class \in {"permanent", "unavailable"}
           /\ \E o \in outcomes :
                box' \in {box, o.partly} \cup (IF class = "unavailable" THEN {o.box} ELSE {})
  <2>1. box \in Boxes
    BY DEF Sound
  <2>2. Grows(box, A)
    BY <2>1, BoxStays
  <2>3. Grows(box', A)
    BY <1>2, <2>2 DEF Outcome
  <2> QED
    BY <1>2, <2>3
<1> QED
  BY <1>1, <1>2 DEF Ask

-----------------------------------------------------------------------------
(* The session                                                             *)

StateRows == [msg : Messages, flags : SUBSET Flags]
States == UNION {[D -> StateRows] : D \in {E \in SUBSET Uids : IsFiniteSet(E)}}
FlagMaps == UNION {[D -> SUBSET Flags] : D \in SUBSET Uids}
Changes == [set : SUBSET Flags, clear : SUBSET Flags]
Todos == UNION {[D -> Changes] : D \in SUBSET Uids}
Tellings == [uid : Nat, msg : Messages, source : Nat]
Loads == [op : {"load"}, next : Nat]
Pushes == [op : {"push"}, todo : Todos, mode : {"set", "clear"}, stopped : BOOLEAN]
Saves == [op : {"save"}, todo : SUBSET Messages, saved : SUBSET Tellings]
Commands ==
  {Idle} \cup Loads \cup Pushes \cup Saves \cup [op : {"expunge"}, uids : SUBSET Uids]
    \cup [op : {"copy"}, uids : SUBSET Uids, moving : BOOLEAN]
Indexes == [synced : BOOLEAN, next : Nat, flags : FlagMaps]

(* Rows were the daemon's at some time.                                    *)
StateOf(b, s) == \A u \in DOMAIN s : <<u, s[u].msg>> \in b.given

(* The index is of the rows, and lacks below its next UID only memberships *)
(* that became visible when it was past them.                              *)
IndexOf(b, i, s, L) ==
  /\ DOMAIN i.flags \subseteq DOMAIN s
  /\ ~i.synced => i.next <= 1 /\ DOMAIN i.flags = {}
  /\ i.synced => DOMAIN s \ DOMAIN i.flags \subseteq L
  /\ \A u \in DOMAIN b.rows : ~b.rows[u].gone /\ u < i.next => u \in DOMAIN i.flags \cup L

CommandOf(b, i, c) ==
  /\ c.op \in {"expunge", "copy"} => c.uids \subseteq DOMAIN i.flags
  /\ c.op = "save" => \A t \in c.saved : <<t.uid, t.msg>> \in b.given

(* The flags of the index are those of the rows, but for what is still to  *)
(* be pushed; after a failure the rest is put back.                        *)
Target(c, u, F) ==
  IF c.mode = "clear" /\ u = Min(DOMAIN c.todo)
  THEN F \ c.todo[u].clear ELSE (F \ c.todo[u].clear) \cup c.todo[u].set
FlagsOf(i, s, c) ==
  LET todo == IF c.op = "push" THEN DOMAIN c.todo ELSE {}
  IN  /\ todo \subseteq DOMAIN i.flags
      /\ \A u \in DOMAIN i.flags \ todo : i.flags[u] = s[u].flags
      /\ \A u \in todo :
           /\ c.todo[u].set \cap c.todo[u].clear = {}
           /\ ~c.stopped => i.flags[u] = Target(c, u, s[u].flags)

ToldOf(b, T) == \A t \in T : <<t.uid, t.msg>> \in b.given \/ t.source \in ReusedIn(b.given)

IInv ==
  /\ Sound(box, asked) /\ idx \in Indexes /\ st \in States /\ cmd \in Commands
  /\ StateOf(box, st) /\ IndexOf(box, idx, st, late) /\ CommandOf(box, idx, cmd)
  /\ FlagsOf(idx, st, cmd) /\ (~opened => idx = NoIndex) /\ ToldOf(box, told)

(* What a session may count on when the mailbox becomes another one.       *)
Later(c, A, L) ==
  /\ Sound(c, A) /\ box.given \subseteq c.given /\ late \subseteq L
  /\ \A u \in DOMAIN c.rows :
       ~c.rows[u].gone /\ u < idx.next =>
         u \in L \/ (u \in DOMAIN box.rows /\ ~box.rows[u].gone)

LEMMA FlagMapsAre ==
  ASSUME NEW f
  PROVE  /\ f \in FlagMaps <=> DOMAIN f \subseteq Uids /\ f \in [DOMAIN f -> SUBSET Flags]
         /\ f \in Todos <=> DOMAIN f \subseteq Uids /\ f \in [DOMAIN f -> Changes]
  BY DEF FlagMaps, Todos

LEMMA StatesAre ==
  ASSUME NEW f
  PROVE  /\ f \in States <=> /\ DOMAIN f \subseteq Uids /\ IsFiniteSet(DOMAIN f)
                             /\ f \in [DOMAIN f -> StateRows]
         /\ f \in States => \A u \in DOMAIN f : /\ u \in Uids /\ f[u] \in StateRows
                                                /\ f[u].msg \in Messages
                                                /\ f[u].flags \subseteq Flags
<1>1. f \in States <=> /\ DOMAIN f \subseteq Uids /\ IsFiniteSet(DOMAIN f)
                       /\ f \in [DOMAIN f -> StateRows]
  BY DEF States
<1> QED
  BY <1>1 DEF StateRows

LEMMA NoMaps == <<>> \in FlagMaps /\ <<>> \in States /\ DOMAIN <<>> = {}
<1>1. /\ DOMAIN <<>> = {} /\ <<>> \in [DOMAIN <<>> -> SUBSET Flags]
      /\ <<>> \in [DOMAIN <<>> -> StateRows]
  OBVIOUS
<1> QED
  BY <1>1, FlagMapsAre, StatesAre, FS_EmptySet

LEMMA InitIInv == Init => IInv
<1> SUFFICES ASSUME Init PROVE IInv
  OBVIOUS
<1>1. /\ box = [journal |-> <<>>, done |-> 0, held |-> FALSE, next |-> 1, rows |-> <<>>,
                given |-> {}]
      /\ idx = NoIndex /\ st = NoState /\ cmd = Idle /\ told = {}
  BY DEF Init
<1>2. Sound(box, asked)
  <2>1. <<>> \in Seq(Records) /\ Len(<<>>) = 0
    OBVIOUS
  <2>2. /\ box.journal = <<>> /\ box.done = 0 /\ box.held = FALSE /\ box.next = 1
        /\ box.rows = <<>> /\ box.given = {}
    BY <1>1
  <2>3. box \in Boxes
    BY <1>1, <2>1, EmptyRows DEF Boxes, Uids
  <2>4. DOMAIN box.rows = {} /\ Len(box.journal) = 0
    BY <2>1, <2>2, EmptyRows
  <2> QED
    BY <2>2, <2>3, <2>4 DEF Sound, Kept
<1>3. idx \in Indexes /\ st \in States /\ cmd \in Commands
  BY <1>1, NoMaps DEF NoIndex, NoState, Indexes, Commands
<1>4. /\ ~idx.synced /\ idx.next = 1 /\ DOMAIN idx.flags = {}
      /\ DOMAIN st = {} /\ cmd.op = "idle" /\ DOMAIN box.rows = {}
  BY <1>1, NoMaps DEF NoIndex, NoState, Idle
<1>5. StateOf(box, st) /\ IndexOf(box, idx, st, late) /\ CommandOf(box, idx, cmd)
  BY <1>4 DEF StateOf, IndexOf, CommandOf
<1>6. FlagsOf(idx, st, cmd) /\ ToldOf(box, told)
  BY <1>1, <1>4 DEF FlagsOf, ToldOf
<1> QED
  BY <1>1, <1>2, <1>3, <1>5, <1>6 DEF IInv

(* What was true of a session beside a mailbox is so beside a later one.   *)
LEMMA CarryOver ==
  ASSUME IInv, Later(box', asked', late')
  PROVE  /\ Sound(box', asked') /\ StateOf(box', st) /\ IndexOf(box', idx, st, late')
         /\ CommandOf(box', idx, cmd) /\ ToldOf(box', told)
<1>1. Sound(box', asked') /\ box.given \subseteq box'.given /\ late \subseteq late'
  BY DEF Later
<1>2. StateOf(box', st)
  BY <1>1 DEF StateOf, IInv
<1>3. IndexOf(box', idx, st, late')
  BY <1>1 DEF IndexOf, IInv, Later
<1>4. CommandOf(box', idx, cmd)
  BY <1>1 DEF CommandOf, IInv
<1>5. ToldOf(box', told)
  BY <1>1, ReusedGrow DEF ToldOf, IInv
<1> QED
  BY <1>1, <1>2, <1>3, <1>4, <1>5

LEMMA GrownIsLater ==
  ASSUME IInv, Grows(box', asked'), UNCHANGED late
  PROVE  Later(box', asked', late')
  BY DEF Grows, Later

LEMMA BoxUnchanged ==
  ASSUME IInv, UNCHANGED <<box, asked, late>>
  PROVE  Later(box', asked', late')
  BY DEF IInv, Later

-----------------------------------------------------------------------------
(* Each step keeps the invariant.                                          *)

LEMMA VisibleAre ==
  ASSUME IInv, NEW u \in Visible
  PROVE  /\ u \in DOMAIN box.rows /\ ~box.rows[u].gone /\ u \in Uids
         /\ box.rows[u].msg \in Messages /\ box.rows[u].flags \subseteq Flags
         /\ <<u, box.rows[u].msg>> \in box.given
<1>1. u \in DOMAIN box.rows /\ ~box.rows[u].gone
  BY DEF Visible
<1> QED
  BY <1>1, RowsOf DEF IInv, Sound, Boxes

LEMMA WorldIsLater ==
  ASSUME IInv, World
  PROVE  Later(box', asked', late')
<1>1. Sound(box, asked) /\ box \in Boxes
  BY DEF IInv, Sound
<1>2. ASSUME Grows(box', asked), UNCHANGED <<asked, late>>
      PROVE  Later(box', asked', late')
  BY <1>2, GrownIsLater
<1>3. CASE ApplyRecord
  <2> DEFINE r == NextRecord
  <2>1. /\ r = box.journal[box.done + 1] /\ box.done < Len(box.journal) /\ Fits(r)
        /\ box' = AfterRecord(r) /\ asked' = asked
        /\ late' = late \cup {u \in DOMAIN Added(r) : u < idx.next}
    BY <1>3 DEF ApplyRecord, Applicable, NextRecord
  <2> DEFINE new == {u \in DOMAIN Added(r) : u < idx.next}
  <2>a. late' = late \cup new
    BY <2>1
  <2> HIDE DEF r
  <2>2. Sound(box', asked') /\ box.given \subseteq box'.given
    BY <1>1, <2>1, AppliedIsSound
  <2>3. r \in Records /\ RecordOf(box.given, asked, r)
    <3>1. box.done + 1 \in 1 .. Len(box.journal) /\ box.journal \in Seq(Records)
      BY <1>1, <2>1 DEF Boxes
    <3> QED
      BY <1>1, <2>1, <3>1 DEF Sound
  <2>4. /\ DOMAIN box'.rows = DOMAIN Added(r) \cup DOMAIN box.rows
        /\ \A u \in DOMAIN box.rows : box'.rows[u].gone = (box.rows[u].gone \/ u \in Hidden(r))
    BY <1>1, <2>1, <2>3, AfterRecordIs
  <2>5. ASSUME NEW u \in DOMAIN box'.rows, ~box'.rows[u].gone, u < idx.next
        PROVE  u \in late' \/ (u \in DOMAIN box.rows /\ ~box.rows[u].gone)
    <3>1. CASE u \in DOMAIN Added(r)
      <4>1. u \in new
        BY <2>5, <3>1
      <4> HIDE DEF new
      <4> QED
        BY <2>a, <4>1
    <3>2. CASE u \in DOMAIN box.rows
      <4>1. box'.rows[u].gone = (box.rows[u].gone \/ u \in Hidden(r))
        BY <2>4, <3>2
      <4>2. ~(box.rows[u].gone \/ u \in Hidden(r))
        BY <2>5, <4>1
      <4> QED
        BY <3>2, <4>2
    <3> QED
      BY <2>4, <3>1, <3>2
  <2>6. late \subseteq late'
    BY <2>1
  <2> QED
    BY <2>2, <2>5, <2>6 DEF Later
<1>4. CASE Hold \/ Release
  <2>1. UNCHANGED <<asked, late>>
    BY <1>4 DEF Hold, Release
  <2>2. PICK h \in BOOLEAN : box' = [box EXCEPT !.held = h]
    BY <1>4 DEF Hold, Release
  <2>3. /\ box' \in Boxes /\ box'.journal = box.journal /\ box'.done = box.done
        /\ box'.rows = box.rows /\ box'.given = box.given
    BY <1>1, <2>2 DEF Boxes
  <2>4. Grows(box', asked)
    BY <1>1, <2>3, BoxStays
  <2> QED
    BY <1>2, <2>1, <2>4
<1>5. CASE Deliver
  <2>1. PICK m \in Messages :
          box' = [box EXCEPT !.journal = Append(@, [type |-> "delivered", msg |-> m])]
    BY <1>5 DEF Deliver, FreshMessages
  <2>2. Grows(box', asked)
    BY <1>1, <2>1, DeliverIsSound
  <2> QED
    BY <1>2, <1>5, <2>2 DEF Deliver
<1>6. CASE OtherAppends
  <2>1. PICK m \in Messages : \E o \in DaemonAppend(m) : box' \in {o.box, o.partly}
    BY <1>6 DEF OtherAppends, FreshMessages
  <2>2. Grows(box', asked)
    BY <1>1, <2>1, AppendOutcome DEF Outcome
  <2> QED
    BY <1>2, <1>6, <2>2 DEF OtherAppends
<1>7. CASE OtherExpunges
  <2>1. PICK u \in Visible : /\ \E o \in DaemonExpunge({u}) : box' = o.box
                             /\ asked' = asked \cup {box.rows[u].msg}
    BY <1>7 DEF OtherExpunges
  <2>2. <<u, box.rows[u].msg>> \in box.given
    BY VisibleAre
  <2>3. \A w \in {u} : \E m \in asked' : <<w, m>> \in box.given
    BY <2>1, <2>2
  <2>4. asked \subseteq asked'
    BY <2>1
  <2>5. \A o \in DaemonExpunge({u}) : Outcome(o, asked')
    BY <1>1, <2>3, <2>4, ExpungeOutcome
  <2>6. Grows(box', asked')
    BY <2>1, <2>5 DEF Outcome
  <2> QED
    BY <1>7, <2>6, GrownIsLater DEF OtherExpunges
<1>8. CASE OtherStores
  <2>1. PICK u \in Visible, f \in Flags \ Unstorable :
          \E o \in DaemonFlags(u, IF f \in box.rows[u].flags THEN "clear" ELSE "set", {f}) :
            box' = o.box
    BY <1>8 DEF OtherStores
  <2>2. PICK mode \in {"set", "clear"} : \E o \in DaemonFlags(u, mode, {f}) : box' = o.box
    BY <2>1
  <2>3. {f} \in SUBSET Flags
    OBVIOUS
  <2>4. Grows(box', asked)
    BY <1>1, <2>2, <2>3, FlagsOutcome DEF Outcome
  <2> QED
    BY <1>2, <1>8, <2>4 DEF OtherStores
<1>9. CASE Rebuild
  <2>1. Grows(box', asked)
    BY <1>1, <1>9, RebuildIsSound DEF Rebuild
  <2> QED
    BY <1>2, <1>9, <2>1 DEF Rebuild
<1> QED
  BY <1>3, <1>4, <1>5, <1>6, <1>7, <1>8, <1>9 DEF World

LEMMA WorldKeepsIInv ==
  ASSUME IInv, World
  PROVE  IInv'
<1>1. Later(box', asked', late')
  BY WorldIsLater
<1>2. /\ Sound(box', asked') /\ StateOf(box', st) /\ IndexOf(box', idx, st, late')
      /\ CommandOf(box', idx, cmd) /\ ToldOf(box', told)
  BY <1>1, CarryOver
<1>3. UNCHANGED <<idx, st, opened, cmd, told>>
  BY DEF World, ApplyRecord, Hold, Release, Deliver, OtherAppends, OtherExpunges, OtherStores,
         Rebuild, Environment
<1> QED
  BY <1>2, <1>3 DEF IInv

(* A command ends or begins and nothing else of the session changes.       *)
LEMMA CommandSteps ==
  ASSUME IInv, Later(box', asked', late'), UNCHANGED <<idx, st, opened>>, ToldOf(box', told'),
         cmd' \in Commands, cmd.op # "push", cmd'.op # "push", CommandOf(box', idx, cmd')
  PROVE  IInv'
<1>1. Sound(box', asked') /\ StateOf(box', st) /\ IndexOf(box', idx, st, late')
  BY CarryOver
<1>2. FlagsOf(idx, st, cmd')
  BY DEF IInv, FlagsOf
<1> QED
  BY <1>1, <1>2 DEF IInv

LEMMA IdleIs == Idle.op = "idle" /\ Idle \in Commands /\ \A b, i : CommandOf(b, i, Idle)
  BY DEF Idle, Commands, CommandOf

LEMMA NothingTold == \A b : ToldOf(b, {})
  BY DEF ToldOf

LEMMA LoadSelectKeepsIInv ==
  ASSUME IInv, LoadSelect
  PROVE  IInv'
<1>1. /\ UNCHANGED <<box, idx, st, opened, asked, late>> /\ cmd = Idle /\ told' = {}
      /\ cmd' = [op |-> "load", next |-> box.next]
  BY DEF LoadSelect, SelectAnswer
<1>2. box.next \in Nat
  BY DEF IInv, Sound, Boxes, Uids
<1>3. cmd' \in Commands /\ cmd'.op = "load" /\ CommandOf(box', idx, cmd')
  BY <1>1, <1>2 DEF Commands, Loads, CommandOf
<1>4. Later(box', asked', late')
  BY <1>1, BoxUnchanged
<1> QED
  BY <1>1, <1>3, <1>4, IdleIs, NothingTold, CommandSteps

LEMMA LoadFailsKeepsIInv ==
  ASSUME IInv, LoadFails
  PROVE  IInv'
<1>1. UNCHANGED <<box, idx, st, opened, told, asked, late>> /\ cmd.op = "load" /\ cmd' = Idle
  BY DEF LoadFails
<1>2. Later(box', asked', late') /\ ToldOf(box', told')
  BY <1>1, BoxUnchanged, CarryOver
<1> QED
  BY <1>1, <1>2, IdleIs, CommandSteps

(* The rows that the UID map gives are the daemon's.                       *)
LEMMA UidMapIs ==
  ASSUME IInv
  PROVE  /\ UidMapRows \in States /\ DOMAIN UidMapRows = Visible /\ StateOf(box, UidMapRows)
         /\ \A u \in Visible : UidMapRows[u].flags = box.rows[u].flags
<1> DEFINE f == UidMapRows
<1>1. /\ DOMAIN f = Visible
      /\ \A u \in Visible : f[u] = [msg |-> box.rows[u].msg, flags |-> box.rows[u].flags]
  BY DEF UidMapRows
<1>2. \A u \in Visible : f[u] \in StateRows
  <2> SUFFICES ASSUME NEW u \in Visible PROVE f[u] \in StateRows
    OBVIOUS
  <2>1. box.rows[u].msg \in Messages /\ box.rows[u].flags \in SUBSET Flags
    BY VisibleAre
  <2>2. [msg |-> box.rows[u].msg, flags |-> box.rows[u].flags] \in StateRows
    BY <2>1 DEF StateRows
  <2> QED
    BY <1>1, <2>2
<1>3. f \in [Visible -> StateRows]
  BY <1>2 DEF UidMapRows
<1>4. Visible \subseteq Uids /\ IsFiniteSet(Visible)
  <2>1. IsFiniteSet(DOMAIN box.rows)
    BY RowMapsAre DEF IInv, Sound, Boxes
  <2>2. Visible \subseteq DOMAIN box.rows
    BY DEF Visible
  <2> QED
    BY <2>1, <2>2, VisibleAre, FS_Subset
<1> HIDE DEF f
<1>5. f \in States
  BY <1>1, <1>3, <1>4, StatesAre
<1>6. StateOf(box, f)
  BY <1>1, VisibleAre DEF StateOf
<1> QED
  BY <1>1, <1>5, <1>6 DEF f

LEMMA OpenKeepsIInv ==
  ASSUME IInv, Open
  PROVE  IInv'
<1>1. /\ UNCHANGED <<box, idx, told, asked, late>> /\ cmd.op = "load" /\ cmd' = Idle
      /\ st' = UidMapRows /\ opened' /\ ~opened
  BY DEF Open
<1>2. st' \in States /\ StateOf(box', st')
  BY <1>1, UidMapIs
<1>3. ~idx.synced /\ idx.next = 1 /\ DOMAIN idx.flags = {}
  BY <1>1, NoMaps DEF IInv, NoIndex
<1>4. Sound(box', asked') /\ IndexOf(box', idx, st, late') /\ ToldOf(box', told')
  BY <1>1, BoxUnchanged, CarryOver
<1>5. IndexOf(box', idx', st', late')
  BY <1>1, <1>3, <1>4 DEF IndexOf
<1>6. FlagsOf(idx', st', cmd')
  BY <1>1, <1>3, IdleIs DEF FlagsOf
<1> QED
  BY <1>1, <1>2, <1>4, <1>5, <1>6, IdleIs DEF IInv

LEMMA MaxIs ==
  ASSUME NEW a \in Nat, NEW b \in Nat
  PROVE  Max({a, b}) \in {a, b} /\ Max({a, b}) >= a /\ Max({a, b}) >= b
<1>1. \E x \in {a, b} : \A y \in {a, b} : x >= y
  BY DEF Max
<1> QED
  BY <1>1 DEF Max

LEMMA SyncIndexKeepsIInv ==
  ASSUME IInv, SyncIndex
  PROVE  IInv'
<1> DEFINE uids == SyncExpungeMissing(DOMAIN idx.flags) \cup SyncAppendNew(idx.next)
           flags == [u \in uids |-> UidMapRows[u].flags]
           next == Max({idx.next, cmd.next})
<1>1. /\ UNCHANGED <<box, opened, told, asked, late>> /\ cmd.op = "load" /\ cmd' = Idle
      /\ FitsSelect /\ opened /\ st' = UidMapRows
      /\ idx' = [synced |-> TRUE, next |-> next, flags |-> flags]
  BY DEF SyncIndex
<1>2. /\ UidMapRows \in States /\ DOMAIN UidMapRows = Visible /\ StateOf(box, UidMapRows)
      /\ \A u \in Visible : UidMapRows[u].flags = box.rows[u].flags
  BY UidMapIs
<1>3. cmd.next \in Nat /\ idx.next \in Nat
  BY <1>1 DEF IInv, Indexes, Commands, Loads, Pushes, Saves, Idle
<1>4. next \in {idx.next, cmd.next} /\ next >= cmd.next /\ next >= idx.next /\ next \in Nat
  BY <1>3, MaxIs
<1>5. uids = {u \in Visible : u \in DOMAIN idx.flags \/ u >= idx.next}
  BY <1>2 DEF SyncExpungeMissing, SyncAppendNew
<1> HIDE DEF uids, next
<1>6. DOMAIN flags = uids /\ \A u \in uids : flags[u] = UidMapRows[u].flags
  OBVIOUS
<1>7. flags \in FlagMaps
  <2>1. \A u \in uids : u \in Uids /\ UidMapRows[u].flags \in SUBSET Flags
    BY <1>2, <1>5, StatesAre
  <2>2. flags \in [uids -> SUBSET Flags] /\ uids \subseteq Uids
    BY <2>1
  <2> QED
    BY <1>6, <2>2, FlagMapsAre
<1> HIDE DEF flags
<1>8. idx' \in Indexes /\ idx'.synced /\ idx'.next = next /\ idx'.flags = flags
  BY <1>1, <1>4, <1>7 DEF Indexes
<1>9. \A u \in Visible : u \in uids \cup late
  <2> SUFFICES ASSUME NEW u \in Visible PROVE u \in uids \cup late
    OBVIOUS
  <2>1. u \in DOMAIN box.rows /\ ~box.rows[u].gone /\ u \in Nat
    BY VisibleAre DEF Uids
  <2>2. CASE u < idx.next
    BY <1>5, <2>1, <2>2 DEF IInv, IndexOf
  <2>3. CASE u >= idx.next
    BY <1>5, <2>3
  <2> QED
    BY <1>3, <2>1, <2>2, <2>3
<1>10. IndexOf(box', idx', st', late')
  BY <1>1, <1>2, <1>5, <1>6, <1>8, <1>9 DEF IndexOf, Visible
<1>11. FlagsOf(idx', st', cmd')
  BY <1>1, <1>6, <1>8, IdleIs DEF FlagsOf
<1>12. Sound(box', asked') /\ ToldOf(box', told')
  BY <1>1, BoxUnchanged, CarryOver
<1> QED
  BY <1>1, <1>2, <1>8, <1>10, <1>11, <1>12, IdleIs DEF IInv

LEMMA FetchKeepsIInv ==
  ASSUME IInv, Fetch
  PROVE  IInv'
<1>1. UNCHANGED <<box, idx, st, opened, cmd, asked, late>>
  BY DEF Fetch
<1>2. PICK u \in DOMAIN idx.flags \cap DOMAIN st :
        LET answer == DaemonFetch(u)
        IN  answer.class = "ok" /\ told' = {Told(u, answer.msg, 0)}
  BY DEF Fetch
<1>3. u \in Visible
  BY <1>2 DEF DaemonFetch
<1>4. told' = {Told(u, box.rows[u].msg, 0)}
  BY <1>2, <1>3 DEF DaemonFetch
<1>5. ToldOf(box', told')
  BY <1>1, <1>3, <1>4, VisibleAre DEF ToldOf, Told
<1>6. /\ Sound(box', asked') /\ StateOf(box', st) /\ IndexOf(box', idx, st, late')
      /\ CommandOf(box', idx, cmd)
  BY <1>1, BoxUnchanged, CarryOver
<1> QED
  BY <1>1, <1>5, <1>6 DEF IInv

LEMMA CloseKeepsIInv ==
  ASSUME IInv, Close
  PROVE  IInv'
<1>1. /\ UNCHANGED <<box, cmd, asked>> /\ cmd = Idle /\ idx' = NoIndex /\ st' = NoState
      /\ told' = {} /\ late' = {}
  BY DEF Close
<1>2. idx' \in Indexes /\ st' \in States
  BY <1>1, NoMaps DEF NoIndex, NoState, Indexes
<1>3. ~idx'.synced /\ idx'.next = 1 /\ DOMAIN idx'.flags = {} /\ DOMAIN st' = {}
  BY <1>1, NoMaps DEF NoIndex, NoState
<1>4. \A u \in DOMAIN box'.rows : u \in Nat /\ u # 0
  BY <1>1, RowsOf DEF IInv, Sound, Boxes, Uids
<1>5. StateOf(box', st') /\ IndexOf(box', idx', st', late') /\ FlagsOf(idx', st', cmd')
  BY <1>1, <1>3, <1>4, IdleIs DEF StateOf, IndexOf, FlagsOf
<1>6. Sound(box', asked')
  BY <1>1 DEF IInv
<1> QED
  BY <1>1, <1>2, <1>5, <1>6, IdleIs, NothingTold DEF IInv

-----------------------------------------------------------------------------
(* STORE and its push.                                                     *)

LEMMA MinIs ==
  ASSUME NEW U \in SUBSET Nat, IsFiniteSet(U), U # {}
  PROVE  Min(U) \in U
<1>1. Cardinality(U) \in Nat /\ Cardinality(U) # 0
  BY FS_CardinalityType, FS_EmptySet
<1>2. 1 \in 1 .. Cardinality(U)
  BY <1>1
<1>3. PICK u \in U : Position(U, u) = 1
  BY <1>2, Positions
<1>4. \A v \in U : u <= v
  <2> SUFFICES ASSUME NEW v \in U, ~(u <= v) PROVE FALSE
    OBVIOUS
  <2>1. v < u /\ Position(U, v) \in 1 .. Cardinality(U)
    BY Positions
  <2>2. Position(U, v) < 1
    BY <1>3, <2>1, Positions
  <2> QED
    BY <1>1, <2>1, <2>2
<1> QED
  BY <1>4 DEF Min

LEMMA PushedIs ==
  ASSUME IInv, cmd.op = "push", DOMAIN cmd.todo # {}
  PROVE  /\ cmd \in Pushes /\ Pushed \in DOMAIN cmd.todo
         /\ DOMAIN cmd.todo \subseteq DOMAIN idx.flags
         /\ DOMAIN idx.flags \subseteq DOMAIN st /\ opened
         /\ \A u \in DOMAIN cmd.todo : /\ cmd.todo[u].set \subseteq Flags
                                       /\ cmd.todo[u].clear \subseteq Flags
                                       /\ cmd.todo[u].set \cap cmd.todo[u].clear = {}
         /\ PushedFlags = IF cmd.mode = "set" THEN cmd.todo[Pushed].set
                          ELSE cmd.todo[Pushed].clear
<1>1. cmd \in Pushes
  BY DEF IInv, Commands, Loads, Saves, Idle
<1>2. DOMAIN cmd.todo \subseteq DOMAIN idx.flags /\ DOMAIN idx.flags \subseteq DOMAIN st
  BY DEF IInv, FlagsOf, IndexOf
<1>3. cmd.todo \in Todos /\ cmd.mode \in {"set", "clear"}
  BY <1>1 DEF Pushes
<1>4. cmd.todo \in [DOMAIN cmd.todo -> Changes] /\ DOMAIN cmd.todo \subseteq Nat
  BY <1>3, FlagMapsAre DEF Uids
<1>5. Pushed \in DOMAIN cmd.todo
  <2>1. IsFiniteSet(DOMAIN cmd.todo)
    BY <1>2, StatesAre, FS_Subset DEF IInv
  <2> QED
    BY <1>4, <2>1, MinIs DEF Pushed
<1>6. \A u \in DOMAIN cmd.todo : /\ cmd.todo[u].set \subseteq Flags
                                 /\ cmd.todo[u].clear \subseteq Flags
                                 /\ cmd.todo[u].set \cap cmd.todo[u].clear = {}
  <2>1. \A u \in DOMAIN cmd.todo : cmd.todo[u].set \cap cmd.todo[u].clear = {}
    BY DEF IInv, FlagsOf
  <2> QED
    BY <1>4, <2>1 DEF Changes
<1>7. opened
  <2>1. DOMAIN NoIndex.flags = {}
    BY EmptyRows DEF NoIndex
  <2> QED
    BY <1>2, <1>5, <2>1 DEF IInv
<1>8. PushedFlags = IF cmd.mode = "set" THEN cmd.todo[Pushed].set ELSE cmd.todo[Pushed].clear
  <2>1. cmd.todo[Pushed] \in Changes
    BY <1>4, <1>5
  <2> QED
    BY <1>3, <2>1 DEF PushedFlags, Changes
<1> QED
  BY <1>1, <1>2, <1>5, <1>6, <1>7, <1>8

LEMMA NextMessageIs ==
  ASSUME IInv, cmd.op = "push", DOMAIN cmd.todo # {},
         NEW c, NEW b \in BOOLEAN,
         c = NextMessage \/ (~cmd.stopped /\ c = [NextMessage EXCEPT !.stopped = b])
  PROVE  /\ c \in Pushes /\ c.op = "push" /\ c.mode = "set"
         /\ DOMAIN c.todo = DOMAIN cmd.todo \ {Pushed}
         /\ \A u \in DOMAIN c.todo : c.todo[u] = cmd.todo[u]
         /\ ~c.stopped => ~cmd.stopped
<1> DEFINE todo == Without(cmd.todo, {Pushed})
<1>1. cmd \in Pushes
  BY PushedIs
<1>2. /\ DOMAIN todo = DOMAIN cmd.todo \ {Pushed}
      /\ \A u \in DOMAIN todo : todo[u] = cmd.todo[u]
  BY DEF Without, Restrict
<1>3. todo \in Todos
  <2>1. DOMAIN cmd.todo \subseteq Uids /\ cmd.todo \in [DOMAIN cmd.todo -> Changes]
    BY <1>1, FlagMapsAre DEF Pushes
  <2>2. todo \in [DOMAIN todo -> Changes]
    BY <1>2, <2>1 DEF Without, Restrict
  <2> QED
    BY <1>2, <2>1, <2>2, FlagMapsAre
<1>4. NextMessage = [cmd EXCEPT !.todo = todo, !.mode = "set"]
  BY DEF NextMessage
<1> HIDE DEF todo
<1>5. NextMessage \in Pushes
  BY <1>1, <1>3, <1>4 DEF Pushes
<1>6. /\ NextMessage.todo = todo /\ NextMessage.mode = "set"
      /\ NextMessage.stopped = cmd.stopped
  BY <1>1, <1>4 DEF Pushes
<1>7. CASE c = NextMessage
  BY <1>2, <1>5, <1>6, <1>7 DEF Pushes
<1>8. CASE ~cmd.stopped /\ c = [NextMessage EXCEPT !.stopped = b]
  <2>1. c \in Pushes
    BY <1>5, <1>8 DEF Pushes
  <2>2. c.todo = todo /\ c.mode = "set"
    BY <1>5, <1>6, <1>8 DEF Pushes
  <2> QED
    BY <1>2, <1>8, <2>1, <2>2 DEF Pushes
<1> QED
  BY <1>7, <1>8

(* A push changes flags, in the index or in the rows, and what is to do.   *)
LEMMA PushSteps ==
  ASSUME IInv, Later(box', asked', late'),
         told' = told, opened, opened', cmd' \in Pushes, cmd'.op = "push",
         st' \in States, DOMAIN st' = DOMAIN st,
         \A u \in DOMAIN st : st'[u].msg = st[u].msg,
         idx' \in Indexes, idx'.synced = idx.synced, idx'.next = idx.next,
         DOMAIN idx'.flags = DOMAIN idx.flags, FlagsOf(idx', st', cmd')
  PROVE  IInv'
<1>1. /\ Sound(box', asked') /\ StateOf(box', st) /\ IndexOf(box', idx, st, late')
      /\ ToldOf(box', told')
  BY CarryOver
<1>2. StateOf(box', st')
  BY <1>1 DEF StateOf
<1>3. IndexOf(box', idx', st', late')
  BY <1>1 DEF IndexOf
<1>4. CommandOf(box', idx', cmd') /\ cmd' \in Commands
  BY DEF CommandOf, Commands
<1> QED
  BY <1>1, <1>2, <1>3, <1>4 DEF IInv

LEMMA StoreKeepsIInv ==
  ASSUME IInv, Store
  PROVE  IInv'
<1>1. /\ UNCHANGED <<box, st, opened, asked, late>> /\ cmd = Idle /\ told' = {}
  BY DEF Store
<1>2. PICK U \in (SUBSET DOMAIN idx.flags) \ {{}}, add \in SUBSET Flags, remove \in SUBSET Flags :
        /\ add \cap remove = {} /\ add \cup remove # {}
        /\ idx' = [idx EXCEPT !.flags =
                      Over([u \in U |-> (idx.flags[u] \ remove) \cup add], @)]
        /\ cmd' = [op |-> "push", todo |-> [u \in U |-> [set |-> add, clear |-> remove]],
                   mode |-> "set", stopped |-> FALSE]
  BY Zenon DEF Store
<1>a. U \subseteq DOMAIN idx.flags /\ U # {} /\ add \subseteq Flags /\ remove \subseteq Flags
      /\ add \cap remove = {}
  BY <1>2
<1> DEFINE new == [u \in U |-> (idx.flags[u] \ remove) \cup add]
           flags == Over(new, idx.flags)
           todo == [u \in U |-> [set |-> add, clear |-> remove]]
<1>3. idx \in Indexes /\ idx.flags \in FlagMaps
  BY DEF IInv, Indexes
<1>4. /\ DOMAIN idx.flags \subseteq Uids
      /\ \A u \in DOMAIN idx.flags : idx.flags[u] \in SUBSET Flags
  BY <1>3, FlagMapsAre
<1>5. /\ DOMAIN flags = DOMAIN idx.flags
      /\ \A u \in U : flags[u] = (idx.flags[u] \ remove) \cup add
      /\ \A u \in DOMAIN idx.flags \ U : flags[u] = idx.flags[u]
  <2>1. DOMAIN new = U /\ \A u \in U : new[u] = (idx.flags[u] \ remove) \cup add
    OBVIOUS
  <2> HIDE DEF new
  <2>2. /\ DOMAIN flags = DOMAIN new \cup DOMAIN idx.flags
        /\ \A u \in DOMAIN new : flags[u] = new[u]
        /\ \A u \in DOMAIN idx.flags \ DOMAIN new : flags[u] = idx.flags[u]
    BY OverIs
  <2> HIDE DEF flags
  <2> QED
    BY <1>a, <2>1, <2>2
<1>6. flags \in FlagMaps
  <2>1. \A u \in DOMAIN flags : flags[u] \in SUBSET Flags
    <3> SUFFICES ASSUME NEW u \in DOMAIN flags PROVE flags[u] \in SUBSET Flags
      OBVIOUS
    <3> HIDE DEF flags
    <3>1. CASE u \in U
      BY <1>a, <1>4, <1>5, <3>1
    <3>2. CASE u \notin U
      BY <1>4, <1>5, <3>2
    <3> QED
      BY <3>1, <3>2
  <2>2. flags \in [DOMAIN flags -> SUBSET Flags]
    BY <2>1 DEF Over
  <2> HIDE DEF flags
  <2> QED
    BY <1>4, <1>5, <2>2, FlagMapsAre
<1>7. idx' = [idx EXCEPT !.flags = flags]
  BY <1>2
<1> HIDE DEF flags
<1>8. /\ idx' \in Indexes
  BY <1>3, <1>6, <1>7 DEF Indexes
<1>9. idx'.flags = flags /\ idx'.synced = idx.synced /\ idx'.next = idx.next
  BY <1>3, <1>7 DEF Indexes
<1>10. todo \in Todos /\ DOMAIN todo = U /\ \A u \in U : todo[u].set = add /\ todo[u].clear = remove
  <2>1. todo \in [U -> Changes] /\ U \subseteq Uids
    BY <1>2, <1>4 DEF Changes
  <2>2. DOMAIN todo = U
    OBVIOUS
  <2> QED
    BY <2>1, <2>2, FlagMapsAre
<1> HIDE DEF todo
<1>11. cmd' = [op |-> "push", todo |-> todo, mode |-> "set", stopped |-> FALSE]
  BY <1>2 DEF todo
<1>12. /\ cmd' \in Pushes /\ cmd'.op = "push" /\ cmd'.todo = todo /\ cmd'.mode = "set"
  BY <1>10, <1>11 DEF Pushes
<1>13. FlagsOf(idx', st', cmd')
  <2>1. \A u \in DOMAIN idx.flags : idx.flags[u] = st[u].flags
    BY <1>1, IdleIs DEF IInv, FlagsOf
  <2>2. \A u \in U : idx'.flags[u] = Target(cmd', u, st'[u].flags)
    BY <1>1, <1>a, <1>5, <1>9, <1>10, <1>12, <2>1 DEF Target
  <2>3. \A u \in DOMAIN idx'.flags \ U : idx'.flags[u] = st'[u].flags
    BY <1>1, <1>5, <1>9, <2>1
  <2>4. U \subseteq DOMAIN idx'.flags
    BY <1>2, <1>5, <1>9
  <2> QED
    BY <1>2, <1>10, <1>12, <2>2, <2>3, <2>4 DEF FlagsOf
<1>14. /\ Sound(box', asked') /\ ToldOf(box', told')
       /\ StateOf(box', st') /\ IndexOf(box', idx, st, late')
  BY <1>1, BoxUnchanged, CarryOver, NothingTold
<1>15. IndexOf(box', idx', st', late')
  BY <1>1, <1>5, <1>9, <1>14 DEF IndexOf
<1>16. opened'
  <2>1. DOMAIN NoIndex.flags = {} /\ DOMAIN idx.flags # {}
    BY <1>a, EmptyRows DEF NoIndex
  <2> QED
    BY <1>1, <2>1 DEF IInv
<1>17. CommandOf(box', idx', cmd') /\ cmd' \in Commands
  BY <1>12 DEF CommandOf, Commands
<1>18. st' \in States
  BY <1>1 DEF IInv
<1> QED
  BY <1>8, <1>13, <1>14, <1>15, <1>16, <1>17, <1>18 DEF IInv

LEMMA PushNothingKeepsIInv ==
  ASSUME IInv, PushNothing
  PROVE  IInv'
<1>1. /\ UNCHANGED <<box, idx, st, opened, told, asked, late>> /\ cmd.op = "push"
      /\ DOMAIN cmd.todo # {} /\ ~cmd.stopped /\ PushedFlags = {} /\ cmd' = NextRequest
  BY DEF PushNothing
<1>2. /\ cmd \in Pushes /\ Pushed \in DOMAIN cmd.todo /\ opened
      /\ PushedFlags = IF cmd.mode = "set" THEN cmd.todo[Pushed].set ELSE cmd.todo[Pushed].clear
  BY <1>1, PushedIs
<1>3. /\ \A u \in DOMAIN cmd.todo : cmd.todo[u].set \cap cmd.todo[u].clear = {}
      /\ \A u \in DOMAIN cmd.todo : idx.flags[u] = Target(cmd, u, st[u].flags)
      /\ \A u \in DOMAIN idx.flags \ DOMAIN cmd.todo : idx.flags[u] = st[u].flags
      /\ DOMAIN cmd.todo \subseteq DOMAIN idx.flags
  BY <1>1 DEF IInv, FlagsOf
<1>4. idx \in Indexes /\ st \in States
  BY DEF IInv
<1>5. /\ cmd' \in Pushes /\ cmd'.op = "push" /\ FlagsOf(idx', st', cmd')
  <2>1. CASE cmd.mode = "set"
    <3>1. cmd' = [cmd EXCEPT !.mode = "clear"]
      BY <1>1, <2>1 DEF NextRequest
    <3>2. /\ cmd' \in Pushes /\ cmd'.op = "push" /\ cmd'.mode = "clear"
          /\ cmd'.todo = cmd.todo
      BY <1>1, <1>2, <3>1 DEF Pushes
    <3>3. \A u \in DOMAIN cmd.todo :
            Target(cmd', u, st[u].flags) = Target(cmd, u, st[u].flags)
      BY <1>1, <1>2, <2>1, <3>2 DEF Target, Pushed
    <3> QED
      BY <1>1, <1>3, <3>2, <3>3 DEF FlagsOf
  <2>2. CASE cmd.mode = "clear"
    <3>1. cmd' = NextMessage
      BY <1>1, <2>2 DEF NextRequest
    <3>2. /\ cmd' \in Pushes /\ cmd'.op = "push" /\ cmd'.mode = "set"
          /\ DOMAIN cmd'.todo = DOMAIN cmd.todo \ {Pushed}
          /\ \A u \in DOMAIN cmd'.todo : cmd'.todo[u] = cmd.todo[u]
      BY <1>1, <3>1, NextMessageIs
    <3>3. idx.flags[Pushed] = st[Pushed].flags
      BY <1>1, <1>2, <1>3, <2>2 DEF Target, Pushed
    <3>4. \A u \in DOMAIN cmd'.todo :
            Target(cmd', u, st[u].flags) = Target(cmd, u, st[u].flags)
      BY <3>2 DEF Target, Pushed
    <3> QED
      BY <1>1, <1>3, <3>2, <3>3, <3>4 DEF FlagsOf
  <2> QED
    BY <1>2, <2>1, <2>2 DEF Pushes
<1>6. Later(box', asked', late')
  BY <1>1, BoxUnchanged
<1> QED
  BY <1>1, <1>2, <1>4, <1>5, <1>6, PushSteps

LEMMA PushedAsk ==
  ASSUME IInv, cmd.op = "push", DOMAIN cmd.todo # {}, UNCHANGED <<asked, late>>, NEW class,
         Ask(DaemonFlags(Pushed, cmd.mode, PushedFlags), class, <<>>)
  PROVE  Later(box', asked', late')
<1>1. Sound(box, asked)
  BY DEF IInv
<1>2. PushedFlags \in SUBSET Flags /\ cmd.mode \in {"set", "clear"}
  BY PushedIs DEF Pushes
<1>3. \A o \in DaemonFlags(Pushed, cmd.mode, PushedFlags) : Outcome(o, asked)
  BY <1>1, <1>2, FlagsOutcome
<1>4. Grows(box', asked)
  BY <1>1, <1>3, AskGrows
<1> QED
  BY <1>4, GrownIsLater

LEMMA PushAcceptedKeepsIInv ==
  ASSUME IInv, PushAccepted
  PROVE  IInv'
<1>1. /\ UNCHANGED <<idx, opened, told, asked, late>> /\ cmd.op = "push" /\ DOMAIN cmd.todo # {}
      /\ ~cmd.stopped /\ cmd' = NextRequest
      /\ Ask(DaemonFlags(Pushed, cmd.mode, PushedFlags), "ok", <<>>)
  BY DEF PushAccepted
<1> DEFINE p == Pushed
           row == st[p]
           F == IF cmd.mode = "set" THEN row.flags \cup PushedFlags ELSE row.flags \ PushedFlags
           rows == [st EXCEPT ![p] = [row EXCEPT !.flags = F]]
<1>2. st' = [st EXCEPT ![p].flags = F]
  BY Zenon DEF PushAccepted
<1>3. /\ cmd \in Pushes /\ p \in DOMAIN cmd.todo /\ opened /\ p \in DOMAIN st
      /\ p \in DOMAIN idx.flags
      /\ PushedFlags = IF cmd.mode = "set" THEN cmd.todo[p].set ELSE cmd.todo[p].clear
      /\ cmd.todo[p].set \subseteq Flags /\ cmd.todo[p].clear \subseteq Flags
  BY <1>1, PushedIs
<1>4. /\ \A u \in DOMAIN cmd.todo : cmd.todo[u].set \cap cmd.todo[u].clear = {}
      /\ \A u \in DOMAIN cmd.todo : idx.flags[u] = Target(cmd, u, st[u].flags)
      /\ \A u \in DOMAIN idx.flags \ DOMAIN cmd.todo : idx.flags[u] = st[u].flags
      /\ DOMAIN cmd.todo \subseteq DOMAIN idx.flags /\ DOMAIN idx.flags \subseteq DOMAIN st
  BY <1>1 DEF IInv, FlagsOf, IndexOf
<1>5. idx \in Indexes /\ st \in States
  BY DEF IInv
<1>6. \A u \in DOMAIN st : st[u] \in StateRows
  BY <1>5, StatesAre
<1>7. F \in SUBSET Flags
  BY <1>3, <1>6 DEF StateRows
<1>8. st' = rows
  BY <1>2
<1> HIDE DEF F
<1>9. /\ DOMAIN rows = DOMAIN st /\ rows[p].flags = F
      /\ \A u \in DOMAIN st \ {p} : rows[u] = st[u]
      /\ \A u \in DOMAIN st : rows[u] \in StateRows /\ rows[u].msg = st[u].msg
  BY <1>3, <1>6, <1>7 DEF StateRows
<1>10. rows \in States
  <2>1. DOMAIN st \subseteq Uids /\ IsFiniteSet(DOMAIN st)
    BY <1>5, StatesAre
  <2>2. rows \in [DOMAIN rows -> StateRows]
    BY <1>9
  <2> HIDE DEF rows
  <2> QED
    BY <1>9, <2>1, <2>2, StatesAre
<1> HIDE DEF rows
<1>11. st' \in States /\ st' = rows
  BY <1>8, <1>10
<1>12. cmd' \in Pushes /\ cmd'.op = "push" /\ FlagsOf(idx', st', cmd')
  <2>1. CASE cmd.mode = "set"
    <3>1. cmd' = [cmd EXCEPT !.mode = "clear"]
      BY <1>1, <2>1 DEF NextRequest
    <3>2. /\ cmd' \in Pushes /\ cmd'.op = "push" /\ cmd'.mode = "clear"
          /\ cmd'.todo = cmd.todo
      BY <1>1, <1>3, <3>1 DEF Pushes
    <3>3. Target(cmd', p, F) = Target(cmd, p, row.flags)
      <4>1. F = row.flags \cup cmd.todo[p].set
        BY <1>3, <2>1 DEF F
      <4>2. Target(cmd', p, F) = F \ cmd.todo[p].clear
        BY <3>2 DEF Target, Pushed
      <4>3. Target(cmd, p, row.flags) = (row.flags \ cmd.todo[p].clear) \cup cmd.todo[p].set
        BY <2>1 DEF Target
      <4>4. cmd.todo[p].set \cap cmd.todo[p].clear = {}
        BY <1>3, <1>4
      <4> QED
        BY <4>1, <4>2, <4>3, <4>4
    <3>4. \A u \in DOMAIN cmd.todo \ {p} :
            Target(cmd', u, st[u].flags) = Target(cmd, u, st[u].flags)
      BY <2>1, <3>2 DEF Target, Pushed
    <3>5. \A u \in DOMAIN cmd'.todo : idx'.flags[u] = Target(cmd', u, st'[u].flags)
      BY <1>1, <1>3, <1>4, <1>9, <1>11, <3>2, <3>3, <3>4
    <3>6. \A u \in DOMAIN idx.flags \ DOMAIN cmd.todo : idx.flags[u] = st'[u].flags
      BY <1>3, <1>4, <1>9, <1>11
    <3> QED
      BY <1>1, <1>4, <3>2, <3>5, <3>6 DEF FlagsOf
  <2>2. CASE cmd.mode = "clear"
    <3>1. cmd' = NextMessage
      BY <1>1, <2>2 DEF NextRequest
    <3>2. /\ cmd' \in Pushes /\ cmd'.op = "push" /\ cmd'.mode = "set"
          /\ DOMAIN cmd'.todo = DOMAIN cmd.todo \ {p}
          /\ \A u \in DOMAIN cmd'.todo : cmd'.todo[u] = cmd.todo[u]
      BY <1>1, <3>1, NextMessageIs
    <3>3. idx.flags[p] = F
      BY <1>1, <1>3, <1>4, <2>2 DEF Target, Pushed, F
    <3>4. \A u \in DOMAIN cmd'.todo :
            Target(cmd', u, st[u].flags) = Target(cmd, u, st[u].flags)
      BY <3>2 DEF Target, Pushed
    <3>5. \A u \in DOMAIN cmd'.todo : idx'.flags[u] = Target(cmd', u, st'[u].flags)
      BY <1>1, <1>4, <1>9, <1>11, <3>2, <3>4
    <3>6. \A u \in DOMAIN idx.flags \ DOMAIN cmd'.todo : idx.flags[u] = st'[u].flags
      BY <1>3, <1>4, <1>9, <1>11, <3>2, <3>3
    <3> QED
      BY <1>1, <1>4, <3>2, <3>5, <3>6 DEF FlagsOf
  <2> QED
    BY <1>3, <2>1, <2>2 DEF Pushes
<1>13. Later(box', asked', late')
  BY <1>1, PushedAsk
<1> QED
  BY <1>1, <1>3, <1>5, <1>9, <1>11, <1>12, <1>13, PushSteps

(* A message whose update is not accepted gets the row's flags back.       *)
LEMMA RevertIs ==
  ASSUME IInv, cmd.op = "push", DOMAIN cmd.todo # {}, RevertFlags, UNCHANGED st,
         NEW c, NEW b \in BOOLEAN,
         c = NextMessage \/ (~cmd.stopped /\ c = [NextMessage EXCEPT !.stopped = b])
  PROVE  /\ idx' \in Indexes /\ idx'.synced = idx.synced /\ idx'.next = idx.next
         /\ DOMAIN idx'.flags = DOMAIN idx.flags /\ FlagsOf(idx', st', c)
<1> DEFINE p == Pushed
           flags == [idx.flags EXCEPT ![p] = st[p].flags]
<1>1. /\ p \in DOMAIN cmd.todo /\ DOMAIN cmd.todo \subseteq DOMAIN idx.flags
      /\ DOMAIN idx.flags \subseteq DOMAIN st
  BY PushedIs
<1>2. idx \in Indexes /\ idx.flags \in FlagMaps /\ st \in States
  BY DEF IInv, Indexes
<1>3. idx' = [idx EXCEPT !.flags = flags]
  BY <1>2 DEF RevertFlags, Indexes
<1>4. /\ DOMAIN flags = DOMAIN idx.flags /\ flags[p] = st[p].flags
      /\ \A u \in DOMAIN idx.flags \ {p} : flags[u] = idx.flags[u]
  BY <1>1
<1>5. flags \in FlagMaps
  <2>1. st[p].flags \in SUBSET Flags
    BY <1>1, <1>2, StatesAre
  <2>2. DOMAIN idx.flags \subseteq Uids /\ idx.flags \in [DOMAIN idx.flags -> SUBSET Flags]
    BY <1>2, FlagMapsAre
  <2>3. flags \in [DOMAIN idx.flags -> SUBSET Flags]
    BY <2>1, <2>2
  <2> HIDE DEF flags
  <2> QED
    BY <1>4, <2>2, <2>3, FlagMapsAre
<1> HIDE DEF flags
<1>6. idx' \in Indexes
  BY <1>2, <1>3, <1>5 DEF Indexes
<1>7. idx'.flags = flags /\ idx'.synced = idx.synced /\ idx'.next = idx.next
  BY <1>2, <1>3 DEF Indexes
<1>8. /\ c \in Pushes /\ c.op = "push" /\ c.mode = "set"
      /\ DOMAIN c.todo = DOMAIN cmd.todo \ {p}
      /\ \A u \in DOMAIN c.todo : c.todo[u] = cmd.todo[u]
      /\ ~c.stopped => ~cmd.stopped
  BY NextMessageIs
<1>9. /\ \A u \in DOMAIN cmd.todo :
           /\ cmd.todo[u].set \cap cmd.todo[u].clear = {}
           /\ ~cmd.stopped => idx.flags[u] = Target(cmd, u, st[u].flags)
      /\ \A u \in DOMAIN idx.flags \ DOMAIN cmd.todo : idx.flags[u] = st[u].flags
  BY DEF IInv, FlagsOf
<1>10. \A u \in DOMAIN c.todo :
         Target(c, u, st[u].flags) = Target(cmd, u, st[u].flags)
  BY <1>8 DEF Target, Pushed
<1>11. \A u \in DOMAIN c.todo :
         /\ c.todo[u].set \cap c.todo[u].clear = {}
         /\ ~c.stopped => idx'.flags[u] = Target(c, u, st'[u].flags)
  BY <1>1, <1>4, <1>7, <1>8, <1>9, <1>10
<1>12. \A u \in DOMAIN idx'.flags \ DOMAIN c.todo : idx'.flags[u] = st'[u].flags
  BY <1>1, <1>4, <1>7, <1>8, <1>9
<1>13. FlagsOf(idx', st', c)
  BY <1>1, <1>4, <1>7, <1>8, <1>11, <1>12 DEF FlagsOf
<1> QED
  BY <1>4, <1>6, <1>7, <1>13

LEMMA PushRefusedKeepsIInv ==
  ASSUME IInv, PushRefused
  PROVE  IInv'
<1>1. /\ UNCHANGED <<st, opened, told, asked, late>> /\ cmd.op = "push" /\ DOMAIN cmd.todo # {}
      /\ ~cmd.stopped /\ RevertFlags
  BY DEF PushRefused
<1>2. PICK class \in (Classes \ {"ok"}) \cup {"invalid"} :
        /\ IF PushedFlags \cap Unstorable # {}
           THEN class = "invalid" /\ UNCHANGED <<box, spent>>
           ELSE Ask(DaemonFlags(Pushed, cmd.mode, PushedFlags), class, <<>>)
        /\ cmd' = [NextMessage EXCEPT !.stopped = class \notin {"not_found", "permanent"}]
  BY Zenon DEF PushRefused
<1>3. Later(box', asked', late')
  <2>1. CASE PushedFlags \cap Unstorable # {}
    BY <1>1, <1>2, <2>1, BoxUnchanged
  <2>2. CASE PushedFlags \cap Unstorable = {}
    BY <1>1, <1>2, <2>2, PushedAsk
  <2> QED
    BY <2>1, <2>2
<1>4. PICK b \in BOOLEAN : cmd' = [NextMessage EXCEPT !.stopped = b]
  BY <1>2
<1>5. cmd' \in Pushes /\ cmd'.op = "push"
  BY <1>1, <1>4, NextMessageIs
<1>6. /\ idx' \in Indexes /\ idx'.synced = idx.synced /\ idx'.next = idx.next
      /\ DOMAIN idx'.flags = DOMAIN idx.flags /\ FlagsOf(idx', st', cmd')
  BY <1>1, <1>4, RevertIs
<1>7. opened /\ st \in States
  BY <1>1, PushedIs DEF IInv
<1> QED
  BY <1>1, <1>3, <1>5, <1>6, <1>7, PushSteps

LEMMA PushStoppedKeepsIInv ==
  ASSUME IInv, PushStopped
  PROVE  IInv'
<1>1. /\ UNCHANGED <<box, st, opened, told, asked, late>> /\ cmd.op = "push" /\ DOMAIN cmd.todo # {}
      /\ RevertFlags /\ cmd' = NextMessage
  BY DEF PushStopped
<1>2. Later(box', asked', late')
  BY <1>1, BoxUnchanged
<1>3. cmd' \in Pushes /\ cmd'.op = "push"
  BY <1>1, NextMessageIs
<1>4. /\ idx' \in Indexes /\ idx'.synced = idx.synced /\ idx'.next = idx.next
      /\ DOMAIN idx'.flags = DOMAIN idx.flags /\ FlagsOf(idx', st', cmd')
  BY <1>1, RevertIs
<1>5. opened /\ st \in States
  BY <1>1, PushedIs DEF IInv
<1> QED
  BY <1>1, <1>2, <1>3, <1>4, <1>5, PushSteps

LEMMA PushDoneKeepsIInv ==
  ASSUME IInv, PushDone
  PROVE  IInv'
<1>1. /\ UNCHANGED <<box, idx, st, opened, told, asked, late>> /\ cmd.op = "push"
      /\ DOMAIN cmd.todo = {} /\ cmd' = Idle
  BY DEF PushDone
<1>2. FlagsOf(idx', st', cmd')
  BY <1>1, IdleIs DEF IInv, FlagsOf
<1>3. /\ Sound(box', asked') /\ ToldOf(box', told')
      /\ StateOf(box', st') /\ IndexOf(box', idx', st', late')
  BY <1>1, BoxUnchanged, CarryOver
<1> QED
  BY <1>1, <1>2, <1>3, IdleIs DEF IInv

-----------------------------------------------------------------------------
(* EXPUNGE, APPEND, COPY and MOVE.                                         *)

LEMMA BeginKeepsIInv ==
  ASSUME IInv, NEW command \in Commands, Begin(command),
         command.op \in {"expunge", "copy", "save"}, CommandOf(box, idx, command)
  PROVE  IInv'
<1>1. /\ UNCHANGED <<box, idx, st, opened, asked, late>> /\ cmd = Idle /\ cmd' = command
      /\ told' = {}
  BY DEF Begin
<1>2. Later(box', asked', late') /\ ToldOf(box', told')
  BY <1>1, BoxUnchanged, NothingTold
<1>3. CommandOf(box', idx, cmd')
  BY <1>1
<1> QED
  BY <1>1, <1>2, <1>3, IdleIs, CommandSteps

LEMMA NamedUidsAre ==
  ASSUME IInv, NEW U \in NamedUids
  PROVE  U \subseteq DOMAIN idx.flags /\ U \subseteq Uids
<1>1. idx.flags \in FlagMaps
  BY DEF IInv, Indexes
<1> QED
  BY <1>1, FlagMapsAre DEF NamedUids

LEMMA BeginsKeepIInv ==
  ASSUME IInv, BeginExpunge \/ BeginAppend \/ BeginCopyMove
  PROVE  IInv'
<1>1. CASE BeginExpunge
  <2>1. PICK U \in NamedUids : Begin([op |-> "expunge", uids |-> U])
    BY <1>1 DEF BeginExpunge
  <2> DEFINE command == [op |-> "expunge", uids |-> U]
  <2>2. command \in Commands /\ command.op = "expunge" /\ CommandOf(box, idx, command)
    BY NamedUidsAre DEF Commands, CommandOf
  <2> HIDE DEF command
  <2>3. Begin(command)
    BY <2>1 DEF command
  <2> QED
    BY <2>2, <2>3, BeginKeepsIInv
<1>2. CASE BeginAppend
  <2>1. PICK M \in (SUBSET Messages) \ {{}} : Begin([op |-> "save", todo |-> M, saved |-> {}])
    BY <1>2 DEF BeginAppend
  <2> DEFINE command == [op |-> "save", todo |-> M, saved |-> {}]
  <2>2. command \in Commands /\ command.op = "save" /\ CommandOf(box, idx, command)
    BY DEF Commands, CommandOf, Saves
  <2> HIDE DEF command
  <2>3. Begin(command)
    BY <2>1 DEF command
  <2> QED
    BY <2>2, <2>3, BeginKeepsIInv
<1>3. CASE BeginCopyMove
  <2>1. PICK U \in NamedUids, moving \in BOOLEAN :
          Begin([op |-> "copy", uids |-> U, moving |-> moving])
    BY <1>3 DEF BeginCopyMove
  <2> DEFINE command == [op |-> "copy", uids |-> U, moving |-> moving]
  <2>2. command \in Commands /\ command.op = "copy" /\ CommandOf(box, idx, command)
    BY NamedUidsAre DEF Commands, CommandOf
  <2> HIDE DEF command
  <2>3. Begin(command)
    BY <2>1 DEF command
  <2> QED
    BY <2>2, <2>3, BeginKeepsIInv
<1> QED
  BY <1>1, <1>2, <1>3

LEMMA PushExpungeKeepsIInv ==
  ASSUME IInv, PushExpunge
  PROVE  IInv'
<1>1. /\ UNCHANGED <<idx, st, opened, told, late>> /\ cmd.op = "expunge" /\ cmd' = Idle
      /\ asked' = asked \cup {st[u].msg : u \in cmd.uids}
  BY DEF PushExpunge
<1>2. PICK class \in Classes : Ask(DaemonExpunge(cmd.uids), class, <<>>)
  BY DEF PushExpunge
<1>3. Sound(box, asked) /\ cmd.uids \subseteq DOMAIN st
  BY <1>1 DEF IInv, CommandOf, IndexOf
<1>4. \A u \in cmd.uids : \E m \in asked' : <<u, m>> \in box.given
  <2> SUFFICES ASSUME NEW u \in cmd.uids PROVE \E m \in asked' : <<u, m>> \in box.given
    OBVIOUS
  <2>1. <<u, st[u].msg>> \in box.given
    BY <1>3 DEF IInv, StateOf
  <2>2. st[u].msg \in asked'
    BY <1>1
  <2> QED
    BY <2>1, <2>2
<1>5. asked \subseteq asked'
  BY <1>1
<1>6. \A o \in DaemonExpunge(cmd.uids) : Outcome(o, asked')
  BY <1>3, <1>4, <1>5, ExpungeOutcome
<1>7. Grows(box', asked')
  BY <1>2, <1>3, <1>5, <1>6, AskGrows
<1>8. Later(box', asked', late') /\ ToldOf(box', told')
  BY <1>1, <1>7, GrownIsLater, CarryOver
<1> QED
  BY <1>1, <1>8, IdleIs, CommandSteps

LEMMA SaveMessageKeepsIInv ==
  ASSUME IInv, SaveMessage
  PROVE  IInv'
<1>1. UNCHANGED <<idx, st, opened, told, asked, late>> /\ cmd.op = "save"
  BY DEF SaveMessage
<1>2. PICK m \in cmd.todo, class \in Classes, uids \in {<<>>, NewUid} :
        /\ Ask(DaemonAppend(m), class, uids)
        /\ cmd' = IF class = "ok"
                  THEN [cmd EXCEPT !.todo = @ \ {m},
                                   !.saved = @ \cup {Told(u, m, 0) : u \in Range(uids)}]
                  ELSE Idle
  BY Zenon DEF SaveMessage
<1>3. /\ Sound(box, asked) /\ cmd \in Saves
      /\ \A t \in cmd.saved : <<t.uid, t.msg>> \in box.given
  BY <1>1 DEF IInv, Commands, Loads, Pushes, Idle, CommandOf
<1>4. m \in Messages
  BY <1>3 DEF Saves
<1>5. \A o \in DaemonAppend(m) : /\ Outcome(o, asked) /\ o.uids = NewUid
                                 /\ <<box.next, m>> \in o.box.given
  BY <1>3, <1>4, AppendOutcome
<1>6. /\ Grows(box', asked)
      /\ class = "ok" => \E o \in DaemonAppend(m) : uids = o.uids /\ box' = o.box
  BY <1>2, <1>3, <1>5, AskGrows
<1>7. Later(box', asked', late')
  BY <1>1, <1>6, GrownIsLater
<1>8. ToldOf(box', told')
  BY <1>1, <1>7, CarryOver
<1>9. cmd' \in Commands /\ cmd'.op # "push" /\ CommandOf(box', idx, cmd')
  <2>1. CASE class # "ok"
    BY <1>2, <2>1, IdleIs
  <2>2. CASE class = "ok"
    <3>1. uids = NewUid /\ <<box.next, m>> \in box'.given
      BY <1>5, <1>6, <2>2
    <3>2. Range(uids) = {box.next}
      BY <3>1 DEF Range, NewUid
    <3> DEFINE t == Told(box.next, m, 0)
               saved == cmd.saved \cup {t}
    <3>3. cmd' = [cmd EXCEPT !.todo = @ \ {m}, !.saved = saved]
      BY <1>2, <2>2, <3>2
    <3>4. t \in Tellings /\ t.uid = box.next /\ t.msg = m
      BY <1>3, <1>4 DEF Sound, Boxes, Uids, Tellings, Told
    <3> HIDE DEF t
    <3>5. \A s \in saved : <<s.uid, s.msg>> \in box'.given
      BY <1>3, <1>7, <3>1, <3>4 DEF Later
    <3>6. saved \in SUBSET Tellings
      BY <1>3, <3>4 DEF Saves
    <3> HIDE DEF saved
    <3>7. cmd' \in Saves /\ cmd'.op = "save" /\ cmd'.saved = saved
      BY <1>3, <3>3, <3>6 DEF Saves
    <3> QED
      BY <3>5, <3>7 DEF Commands, CommandOf
  <2> QED
    BY <2>1, <2>2
<1> QED
  BY <1>1, <1>7, <1>8, <1>9, CommandSteps

LEMMA SaveDoneKeepsIInv ==
  ASSUME IInv, SaveDone
  PROVE  IInv'
<1>1. /\ UNCHANGED <<box, idx, st, opened, asked, late>> /\ cmd.op = "save" /\ cmd' = Idle
      /\ told' = cmd.saved
  BY DEF SaveDone
<1>2. Later(box', asked', late')
  BY <1>1, BoxUnchanged
<1>3. ToldOf(box', told')
  BY <1>1 DEF IInv, CommandOf, ToldOf
<1> QED
  BY <1>1, <1>2, <1>3, IdleIs, CommandSteps

(* The daemon copies what has the UIDs now, and the client pairs the new   *)
(* UIDs with the messages of its rows: where they differ, the UID of the   *)
(* source was given to both.                                               *)
LEMMA PushCopyKeepsIInv ==
  ASSUME IInv, PushCopy
  PROVE  IInv'
<1> DEFINE U == cmd.uids
<1>1. UNCHANGED <<idx, st, opened, asked, late>> /\ cmd.op = "copy" /\ cmd' = Idle
  BY DEF PushCopy
<1>2. PICK o \in DaemonCopyMove(U, cmd.moving), class \in Classes :
        /\ Ask({o}, class, IF class = "ok" THEN o.uids ELSE <<>>)
        /\ told' = IF class = "ok" THEN Paired(U, o.uids) ELSE told
  BY DEF PushCopy
<1>3. Sound(box, asked) /\ cmd.moving \in BOOLEAN /\ U \subseteq DOMAIN st
  BY <1>1 DEF IInv, Commands, Loads, Pushes, Saves, Idle, CommandOf, IndexOf
<1> HIDE DEF U
<1>4. /\ Outcome(o, asked)
      /\ o.class = "ok" =>
           /\ U \subseteq Visible
           /\ \A n \in 1 .. Cardinality(U) :
                <<Nth(Range(o.uids), n), box.rows[Nth(U, n)].msg>> \in o.box.given
  BY <1>3, CopyOutcome
<1>5. Grows(box', asked) /\ (class = "ok" => o.class = "ok" /\ box' = o.box)
  BY <1>2, <1>3, <1>4, AskGrows
<1>6. Later(box', asked', late')
  BY <1>1, <1>5, GrownIsLater
<1>7. ToldOf(box', told')
  <2>1. CASE class # "ok"
    BY <1>2, <1>6, <2>1, CarryOver
  <2>2. CASE class = "ok"
    <3>1. o.class = "ok" /\ box' = o.box /\ told' = Paired(U, o.uids)
      BY <1>2, <1>5, <2>2
    <3>2. U \subseteq Visible /\ box.given \subseteq box'.given
      BY <1>4, <1>6, <3>1 DEF Later
    <3>3. \A n \in 1 .. Cardinality(U) : Nth(U, n) \in U
      <4>1. U \subseteq DOMAIN st /\ st \in States
        BY <1>3 DEF IInv
      <4>2. U \in SUBSET Nat /\ IsFiniteSet(U)
        BY <4>1, StatesAre, FS_Subset DEF Uids
      <4> QED
        BY <4>2, NthIs
    <3>4. ASSUME NEW n \in 1 .. Cardinality(U)
          PROVE  \/ <<Nth(Range(o.uids), n), st[Nth(U, n)].msg>> \in box'.given
                 \/ Nth(U, n) \in ReusedIn(box'.given)
      <4> DEFINE u == Nth(U, n)
      <4>1. u \in DOMAIN st /\ u \in Visible
        BY <1>3, <3>2, <3>3
      <4>2. <<Nth(Range(o.uids), n), box.rows[u].msg>> \in box'.given
        BY <1>4, <3>1
      <4>3. <<u, st[u].msg>> \in box'.given /\ <<u, box.rows[u].msg>> \in box'.given
        BY <3>2, <4>1, VisibleAre DEF IInv, StateOf
      <4> HIDE DEF u
      <4>4. CASE st[u].msg = box.rows[u].msg
        BY <4>2, <4>4 DEF u
      <4>5. CASE st[u].msg # box.rows[u].msg
        <5> DEFINE x == <<u, st[u].msg>>
                   y == <<u, box.rows[u].msg>>
        <5>1. x[1] = u /\ y[1] = u /\ x[2] # y[2]
          BY <4>5
        <5>2. x \in box'.given /\ y \in box'.given
          BY <4>3
        <5> HIDE DEF x, y
        <5>3. u \in ReusedIn(box'.given)
          BY <5>1, <5>2, ReusedAre
        <5> QED
          BY <5>3 DEF u
      <4> QED
        BY <4>4, <4>5
    <3>5. ASSUME NEW t \in Paired(U, o.uids)
          PROVE  <<t.uid, t.msg>> \in box'.given \/ t.source \in ReusedIn(box'.given)
      <4>1. PICK n \in 1 .. Cardinality(U) :
              t = Told(Nth(Range(o.uids), n), st[Nth(U, n)].msg, Nth(U, n))
        BY DEF Paired
      <4>2. /\ t.uid = Nth(Range(o.uids), n) /\ t.msg = st[Nth(U, n)].msg
            /\ t.source = Nth(U, n)
        BY <4>1 DEF Told
      <4> QED
        BY <3>4, <4>2
    <3> QED
      BY <3>1, <3>5 DEF ToldOf
  <2> QED
    BY <2>1, <2>2
<1> QED
  BY <1>1, <1>6, <1>7, IdleIs, CommandSteps

-----------------------------------------------------------------------------
(* The invariant and what it says                                          *)

LEMMA StepKeepsIInv == IInv /\ [Next]_vars => IInv'
<1> SUFFICES ASSUME IInv, [Next]_vars PROVE IInv'
  OBVIOUS
<1>1. CASE World
  BY <1>1, WorldKeepsIInv
<1>2. CASE LoadSelect \/ LoadFails \/ Open \/ SyncIndex \/ Fetch \/ Close
  BY <1>2, LoadSelectKeepsIInv, LoadFailsKeepsIInv, OpenKeepsIInv, SyncIndexKeepsIInv,
     FetchKeepsIInv, CloseKeepsIInv
<1>3. CASE Store \/ PushNothing \/ PushAccepted \/ PushRefused \/ PushStopped \/ PushDone
  BY <1>3, StoreKeepsIInv, PushNothingKeepsIInv, PushAcceptedKeepsIInv, PushRefusedKeepsIInv,
     PushStoppedKeepsIInv, PushDoneKeepsIInv
<1>4. CASE BeginExpunge \/ PushExpunge \/ BeginAppend \/ SaveMessage \/ SaveDone
             \/ BeginCopyMove \/ PushCopy
  BY <1>4, BeginsKeepIInv, PushExpungeKeepsIInv, SaveMessageKeepsIInv, SaveDoneKeepsIInv,
     PushCopyKeepsIInv
<1>5. CASE UNCHANGED vars
  BY <1>5 DEF vars, IInv
<1> QED
  BY <1>1, <1>2, <1>3, <1>4, <1>5 DEF Next, Session

LEMMA Invariance == Spec => []IInv
<1> QED
  BY InitIInv, StepKeepsIInv, PTL DEF Spec

(* What a client was told by FETCH (one read of mail_open_stream) and by   *)
(* APPENDUID is true: the message was given that UID, whatever answers     *)
(* were lost and even when the catalog was rebuilt between SELECT and the  *)
(* read. COPYUID is too, unless a rebuild gave the UID of the source to    *)
(* another message.                                                        *)
THEOREM ToldIsTrueUnlessReusedCorrect == Spec => []ToldIsTrueUnlessReused
<1>1. IInv => ToldIsTrueUnlessReused
  BY DEF IInv, ToldOf, ToldIsTrueUnlessReused, Reused, ReusedIn
<1> QED
  BY <1>1, Invariance, PTL

(* When no command is in progress, each message of the index has a row,    *)
(* with the flags the daemon accepted: a STORE that was refused, skipped   *)
(* or stopped in the middle put the rest back.                             *)
THEOREM IndexShowsAcceptedCorrect == Spec => []IndexShowsAccepted
<1>1. IInv => IndexShowsAccepted
  BY IdleIs DEF IInv, IndexOf, FlagsOf, IndexShowsAccepted
<1> QED
  BY <1>1, Invariance, PTL

(* wyrebox_dovecot_mailbox_sync_index leaves the index with rows for all   *)
(* its messages, and without a message of the daemon only when that became *)
(* visible after the index had passed its UID.                             *)
THEOREM IndexMatchesRowsUnlessLateCorrect == Spec => []IndexMatchesRowsUnlessLate
<1>1. IInv => IndexMatchesRowsUnlessLate
  BY DEF IInv, IndexOf, IndexMatchesRowsUnlessLate
<1> QED
  BY <1>1, Invariance, PTL

(* A message that has a UID and is neither visible nor waiting is one that *)
(* some client asked to expunge, or a rebuild gave its UID to another      *)
(* message: a MOVE that failed half way removes nothing.                   *)
THEOREM RemovedWereAskedUnlessReusedCorrect == Spec => []RemovedWereAskedUnlessReused
<1>1. ASSUME IInv PROVE RemovedWereAskedUnlessReused
  <2> SUFFICES ASSUME NEW a \in box.given
               PROVE  \/ a[2] \in asked
                      \/ \E u \in Visible : box.rows[u].msg = a[2]
                      \/ \E i \in DOMAIN box.journal :
                           i > box.done /\ a[2] \in MessagesOf(box.journal[i])
                      \/ \E b \in box.given : b[2] = a[2] /\ b[1] \in Reused
    BY DEF RemovedWereAskedUnlessReused
  <2>1. \/ a[2] \in asked \/ Shown(box, a[2]) \/ Awaited(box, a[2])
        \/ Astray(box.given, a[2])
    BY <1>1 DEF IInv, Sound, Kept
  <2>2. CASE Shown(box, a[2])
    BY <2>2 DEF Shown, Visible
  <2>3. CASE Awaited(box, a[2])
    <3>1. DOMAIN box.journal = 1 .. Len(box.journal)
      BY <1>1 DEF IInv, Sound, Boxes
    <3> QED
      BY <2>3, <3>1 DEF Awaited
  <2>4. CASE Astray(box.given, a[2])
    BY <2>4 DEF Astray, Reused, ReusedIn
  <2> QED
    BY <2>1, <2>2, <2>3, <2>4
<1> QED
  BY <1>1, Invariance, PTL
=============================================================================
