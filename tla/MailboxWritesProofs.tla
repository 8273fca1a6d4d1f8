------------------------ MODULE MailboxWritesProofs ------------------------
(***************************************************************************)
(* Proofs about MailboxWrites, for every set of operations and troubles,   *)
(* and every bound.                                                        *)
(***************************************************************************)
EXTENDS MailboxWrites, SequenceTheorems, FiniteSetTheorems, TLAPS

-----------------------------------------------------------------------------
(* The inductive invariant.                                                *)

Accounts == {"own", "other"}
Pcs == {"idle", "catch up", "catching up", "check", "read uidnext", "write uidnext",
        "append", "materialize", "materializing"}
RequestType == [pc : Pcs, type : Types, src : Nat, dst : Nat, msg : Nat, flag : BOOLEAN]
PassType ==
  [kind : {"none", "start", "catchUp", "post", "retry"}, at : Nat \ {0}, end : Nat,
   held : SUBSET Accounts]
SpentType ==
  [breaks : Nat, pins : Nat, faults : Nat, aborts : Nat, crashes : Nat, rebuilds : Nat]

(* The records with a UID reserved for them. *)
Reserving == {"appended", "copied", "moved"}
Hiding == {"moved", "expunged"}

(* Memberships of records among the first len. *)
Rows(len, rws) ==
  /\ rws \in [DOMAIN rws -> RowType] /\ DOMAIN rws \subseteq 1 .. len
  /\ \A r \in DOMAIN rws : rws[r].hidden \in 0 .. len

JournalInv ==
  journal \in Seq(Record) /\ \A n \in Indices : journal[n].type \in Reserving => journal[n].dst > 0

CatalogInv ==
  /\ Rows(Len(journal), rows)
  /\ uidnext \in Nat \ {0} /\ applied \subseteq Indices
  /\ checkpoint \in 0 .. Len(journal)

(* A request has a UID before it has a record that needs one. *)
RequestInv ==
  /\ request \in RequestType
  /\ request.pc = "write uidnext" => request.dst > 0
  /\ request.pc = "append" /\ request.type \in Reserving => request.dst > 0

(* A pass stays inside the journal. *)
PassInv ==
  /\ pass \in PassType /\ pass.end <= Len(journal) /\ pass.at <= Len(journal) + 1
  /\ holds \subseteq Accounts /\ cursor \in 0 .. Len(journal)

RestInv == bad \subseteq Indices /\ spent \in SpentType

IInv == JournalInv /\ CatalogInv /\ RequestInv /\ PassInv /\ RestInv

LEMMA RecordFields ==
  ASSUME JournalInv, NEW n \in Indices
  PROVE  /\ journal[n] \in Record /\ n \in Nat \ {0}
         /\ journal[n].type \in Types /\ journal[n].src \in Nat /\ journal[n].dst \in Nat
         /\ journal[n].msg \in Nat /\ journal[n].flag \in BOOLEAN
         /\ journal[n].type \in Reserving => journal[n].dst > 0
<1>1. journal[n] \in Record
  BY ElementOfSeq DEF JournalInv, Indices
<1>2. n \in Nat \ {0} /\ (journal[n].type \in Reserving => journal[n].dst > 0)
  BY DEF JournalInv, Indices
<1> QED
  BY <1>1, <1>2 DEF Record

-----------------------------------------------------------------------------
(* What applying a record does to the memberships.                         *)

LEMMA HideRow ==
  ASSUME NEW len \in Nat, NEW rws, Rows(len, rws), NEW x \in DOMAIN rws, NEW n \in 1 .. len,
         NEW new, new = [rws EXCEPT ![x].hidden = n]
  PROVE  /\ Rows(len, new) /\ DOMAIN new = DOMAIN rws
         /\ \A r \in DOMAIN rws : /\ new[r].msg = rws[r].msg /\ new[r].uid = rws[r].uid
                                  /\ new[r].flag = rws[r].flag
                                  /\ new[r].hidden = IF r = x THEN n ELSE rws[r].hidden
<1>1. \A r \in DOMAIN rws : rws[r] \in RowType
  BY DEF Rows
<1>2. DOMAIN new = DOMAIN rws
  OBVIOUS
<1>3. new[x] = [rws[x] EXCEPT !.hidden = n] /\ \A r \in DOMAIN rws \ {x} : new[r] = rws[r]
  BY DEF Rows
<1>4. /\ new[x] \in RowType /\ new[x].hidden = n /\ new[x].msg = rws[x].msg
      /\ new[x].uid = rws[x].uid /\ new[x].flag = rws[x].flag
  BY <1>1, <1>3 DEF RowType
<1>5. \A r \in DOMAIN rws : /\ new[r] \in RowType
                            /\ new[r].msg = rws[r].msg /\ new[r].uid = rws[r].uid
                            /\ new[r].flag = rws[r].flag
                            /\ new[r].hidden = IF r = x THEN n ELSE rws[r].hidden
  BY <1>1, <1>3, <1>4
<1>6. new \in [DOMAIN new -> RowType]
  BY <1>2, <1>5
<1> QED
  BY <1>2, <1>5, <1>6 DEF Rows

LEMMA FlagRow ==
  ASSUME NEW len \in Nat, NEW rws, Rows(len, rws), NEW x \in DOMAIN rws, NEW f \in BOOLEAN,
         NEW new, new = [rws EXCEPT ![x].flag = f]
  PROVE  /\ Rows(len, new) /\ DOMAIN new = DOMAIN rws
         /\ \A r \in DOMAIN rws : /\ new[r].msg = rws[r].msg /\ new[r].uid = rws[r].uid
                                  /\ new[r].hidden = rws[r].hidden
                                  /\ new[r].flag = IF r = x THEN f ELSE rws[r].flag
<1>1. \A r \in DOMAIN rws : rws[r] \in RowType
  BY DEF Rows
<1>2. DOMAIN new = DOMAIN rws
  OBVIOUS
<1>3. new[x] = [rws[x] EXCEPT !.flag = f] /\ \A r \in DOMAIN rws \ {x} : new[r] = rws[r]
  BY DEF Rows
<1>4. /\ new[x] \in RowType /\ new[x].hidden = rws[x].hidden /\ new[x].msg = rws[x].msg
      /\ new[x].uid = rws[x].uid /\ new[x].flag = f
  BY <1>1, <1>3 DEF RowType
<1>5. \A r \in DOMAIN rws : /\ new[r] \in RowType
                            /\ new[r].msg = rws[r].msg /\ new[r].uid = rws[r].uid
                            /\ new[r].hidden = rws[r].hidden
                            /\ new[r].flag = IF r = x THEN f ELSE rws[r].flag
  BY <1>1, <1>3, <1>4
<1>6. new \in [DOMAIN new -> RowType]
  BY <1>2, <1>5
<1> QED
  BY <1>2, <1>5, <1>6 DEF Rows

(* A catalog, and what a record may do to it.                              *)
IsCatalog(cat) ==
  /\ cat \in [rows : {cat.rows}, uidnext : Nat \ {0}]
  /\ Rows(Len(journal), cat.rows)

Inserted(cat, new, n, u, m, f) ==
  /\ n \notin DOMAIN cat.rows /\ RowsOf(cat, u) = {}
  /\ DOMAIN new.rows = DOMAIN cat.rows \cup {n}
  /\ \A r \in DOMAIN cat.rows : new.rows[r] = cat.rows[r]
  /\ new.rows[n] = [msg |-> m, uid |-> u, hidden |-> 0, flag |-> f]
  /\ new.uidnext = MaxOf(cat.uidnext, u + 1)

Hid(cat, new, n, u) ==
  /\ new.uidnext = cat.uidnext /\ DOMAIN new.rows = DOMAIN cat.rows
  /\ \E x \in DOMAIN cat.rows :
       /\ cat.rows[x].uid = u /\ cat.rows[x].hidden \in {0, n} /\ new.rows[x].hidden = n
       /\ \A r \in DOMAIN cat.rows :
            /\ new.rows[r].msg = cat.rows[r].msg /\ new.rows[r].uid = cat.rows[r].uid
            /\ new.rows[r].flag = cat.rows[r].flag
            /\ r # x => new.rows[r].hidden = cat.rows[r].hidden

Flagged(cat, new, u, f) ==
  /\ new.uidnext = cat.uidnext /\ DOMAIN new.rows = DOMAIN cat.rows
  /\ \E x \in DOMAIN cat.rows :
       /\ cat.rows[x].uid = u /\ new.rows[x].flag = f
       /\ \A r \in DOMAIN cat.rows :
            /\ new.rows[r].msg = cat.rows[r].msg /\ new.rows[r].uid = cat.rows[r].uid
            /\ new.rows[r].hidden = cat.rows[r].hidden
            /\ r # x => new.rows[r].flag = cat.rows[r].flag

LEMMA InsertEffect ==
  ASSUME JournalInv, NEW cat, IsCatalog(cat), NEW n \in Indices, NEW u \in Nat \ {0}, NEW m \in Nat,
         NEW f \in BOOLEAN, n \notin DOMAIN cat.rows, NEW new \in Insert(cat, n, u, m, f)
  PROVE  IsCatalog(new) /\ Inserted(cat, new, n, u, m, f)
<1> DEFINE row == [msg |-> m, uid |-> u, hidden |-> 0, flag |-> f]
<1>1. Len(journal) \in Nat /\ n \in 1 .. Len(journal) /\ 0 \in 0 .. Len(journal)
  BY LenProperties DEF JournalInv, Indices
<1>2. RowsOf(cat, u) = {} /\ new = InsertWith(cat, n, u, m, f)
  BY DEF Insert
<1>3. /\ new.rows = [r \in DOMAIN cat.rows \union {n} |-> IF r = n THEN row ELSE cat.rows[r]]
      /\ new.uidnext = MaxOf(cat.uidnext, u + 1)
      /\ new \in [rows : {new.rows}, uidnext : {new.uidnext}]
  BY <1>2 DEF InsertWith, RaisedUidnext
<1>4. cat.uidnext \in Nat \ {0} /\ Rows(Len(journal), cat.rows)
  BY DEF IsCatalog
<1>5. row \in RowType /\ row.hidden = 0
  BY DEF RowType
<1> HIDE DEF row
<1>6. new.uidnext \in Nat \ {0}
  BY <1>3, <1>4 DEF MaxOf
<1>7. Rows(Len(journal), new.rows)
  BY <1>1, <1>3, <1>4, <1>5 DEF Rows
<1> QED
  BY <1>2, <1>3, <1>6, <1>7 DEF IsCatalog, Inserted, row

LEMMA HideEffect ==
  ASSUME JournalInv, NEW cat, IsCatalog(cat), NEW n \in Indices, NEW u,
         NEW new \in Tombstone(cat, n, u)
  PROVE  IsCatalog(new) /\ Hid(cat, new, n, u)
<1>1. Len(journal) \in Nat /\ n \in 1 .. Len(journal)
  BY LenProperties DEF JournalInv, Indices
<1>2. PICK x \in DOMAIN cat.rows :
        /\ cat.rows[x].uid = u /\ cat.rows[x].hidden \in {0, n}
        /\ new = [cat EXCEPT !.rows[x].hidden = n]
  BY DEF Tombstone, RowsOf
<1>3. /\ new.rows = [cat.rows EXCEPT ![x].hidden = n] /\ new.uidnext = cat.uidnext
      /\ new \in [rows : {new.rows}, uidnext : Nat \ {0}]
  BY <1>2 DEF IsCatalog
<1>4. Rows(Len(journal), cat.rows)
  BY DEF IsCatalog
<1>5. /\ Rows(Len(journal), new.rows) /\ DOMAIN new.rows = DOMAIN cat.rows
      /\ \A r \in DOMAIN cat.rows :
           /\ new.rows[r].msg = cat.rows[r].msg /\ new.rows[r].uid = cat.rows[r].uid
           /\ new.rows[r].flag = cat.rows[r].flag
           /\ new.rows[r].hidden = IF r = x THEN n ELSE cat.rows[r].hidden
  BY <1>1, <1>3, <1>4, HideRow
<1> QED
  BY <1>2, <1>3, <1>5 DEF IsCatalog, Hid

LEMMA FlagEffect ==
  ASSUME JournalInv, NEW cat, IsCatalog(cat), NEW u, NEW f \in BOOLEAN,
         NEW new \in SetFlag(cat, u, f)
  PROVE  IsCatalog(new) /\ Flagged(cat, new, u, f)
<1>1. Len(journal) \in Nat
  BY LenProperties DEF JournalInv
<1>2. PICK x \in DOMAIN cat.rows :
        cat.rows[x].uid = u /\ new = [cat EXCEPT !.rows[x].flag = f]
  BY DEF SetFlag, RowsOf
<1>3. /\ new.rows = [cat.rows EXCEPT ![x].flag = f] /\ new.uidnext = cat.uidnext
      /\ new \in [rows : {new.rows}, uidnext : Nat \ {0}]
  BY <1>2 DEF IsCatalog
<1>4. Rows(Len(journal), cat.rows)
  BY DEF IsCatalog
<1>5. /\ Rows(Len(journal), new.rows) /\ DOMAIN new.rows = DOMAIN cat.rows
      /\ \A r \in DOMAIN cat.rows :
           /\ new.rows[r].msg = cat.rows[r].msg /\ new.rows[r].uid = cat.rows[r].uid
           /\ new.rows[r].hidden = cat.rows[r].hidden
           /\ new.rows[r].flag = IF r = x THEN f ELSE cat.rows[r].flag
  BY <1>1, <1>3, <1>4, FlagRow
<1> QED
  BY <1>2, <1>3, <1>5 DEF IsCatalog, Flagged

(* A record whose membership exists finds it visible, or hidden later.     *)
Found(cat, new, n) ==
  n \in DOMAIN cat.rows /\ new = cat /\ cat.rows[n].hidden \notin 1 .. n
Created(cat, new, n, u, m, f) == Inserted(cat, new, n, u, m, f) \/ Found(cat, new, n)
Copied(cat, new, n) ==
  \/ Found(cat, new, n)
  \/ /\ Inserted(cat, new, n, journal[n].dst, journal[n].msg, journal[n].flag)
     /\ \E r \in DOMAIN cat.rows : /\ cat.rows[r].uid = journal[n].src
                                   /\ cat.rows[r].hidden = 0 /\ cat.rows[r].msg = journal[n].msg
Moved(cat, new, n) ==
  \E mid : IsCatalog(mid) /\ Copied(cat, mid, n) /\ Hid(mid, new, n, journal[n].src)

LEMMA FoundEffect ==
  ASSUME NEW cat, IsCatalog(cat), NEW n, n \in DOMAIN cat.rows, NEW new \in Existing(cat, n)
  PROVE  IsCatalog(new) /\ Found(cat, new, n)
BY DEF Existing, Found

LEMMA CopyEffect ==
  ASSUME JournalInv, NEW cat, IsCatalog(cat), NEW n \in Indices, journal[n].type \in Reserving,
         NEW new \in CopyTo(cat, n, journal[n])
  PROVE  IsCatalog(new) /\ Copied(cat, new, n)
<1>1. journal[n] \in Record /\ journal[n].dst \in Nat \ {0}
  BY RecordFields
<1>2. CASE n \in DOMAIN cat.rows
  BY <1>2, FoundEffect DEF CopyTo, Copied
<1>3. CASE n \notin DOMAIN cat.rows
  <2> DEFINE rec == journal[n]
  <2>1. PICK r \in VisibleRow(cat, rec.src) :
          /\ cat.rows[r].msg = rec.msg
          /\ new \in Insert(cat, n, rec.dst, rec.msg, rec.flag)
    BY <1>3 DEF CopyTo
  <2>2. r \in DOMAIN cat.rows /\ cat.rows[r].uid = rec.src /\ cat.rows[r].hidden = 0
    BY DEF VisibleRow, RowsOf, Visible
  <2>3. rec.msg \in Nat /\ rec.flag \in BOOLEAN
    BY <1>1 DEF Record
  <2>4. IsCatalog(new) /\ Inserted(cat, new, n, rec.dst, rec.msg, rec.flag)
    BY <1>1, <1>3, <2>1, <2>3, InsertEffect
  <2> QED
    BY <2>1, <2>2, <2>4 DEF Copied
<1> QED
  BY <1>2, <1>3

LEMMA EffectIs ==
  ASSUME JournalInv, NEW cat, IsCatalog(cat), NEW n \in Indices, NEW new \in Effect(cat, n)
  PROVE  /\ IsCatalog(new)
         /\ journal[n].type = "delivered" => Created(cat, new, n, cat.uidnext, n, journal[n].flag)
         /\ journal[n].type = "appended" => Created(cat, new, n, journal[n].dst, n, journal[n].flag)
         /\ journal[n].type = "copied" => Copied(cat, new, n)
         /\ journal[n].type = "moved" => Moved(cat, new, n)
         /\ journal[n].type = "expunged" => Hid(cat, new, n, journal[n].src)
         /\ journal[n].type = "flags" => Flagged(cat, new, journal[n].src, journal[n].flag)
<1> DEFINE rec == journal[n]
<1>1. /\ rec.type \in Types /\ rec.dst \in Nat /\ rec.flag \in BOOLEAN
      /\ rec.type \in Reserving => rec.dst > 0
      /\ n \in Nat
  BY RecordFields
<1>2. cat.uidnext \in Nat \ {0}
  BY DEF IsCatalog
<1>3. ASSUME NEW u \in Nat \ {0},
             new \in IF n \in DOMAIN cat.rows THEN Existing(cat, n)
                     ELSE Insert(cat, n, u, n, rec.flag)
      PROVE  IsCatalog(new) /\ Created(cat, new, n, u, n, rec.flag)
  BY <1>1, <1>3, FoundEffect, InsertEffect DEF Created
<1>4. CASE rec.type = "delivered"
  <2>1. new \in IF n \in DOMAIN cat.rows THEN Existing(cat, n)
                ELSE Insert(cat, n, cat.uidnext, n, rec.flag)
    BY <1>4 DEF Effect
  <2> QED
    BY <1>2, <1>3, <1>4, <2>1
<1>5. CASE rec.type = "appended"
  <2>1. new \in IF n \in DOMAIN cat.rows THEN Existing(cat, n)
                ELSE Insert(cat, n, rec.dst, n, rec.flag)
    BY <1>5 DEF Effect
  <2>2. rec.dst \in Nat \ {0}
    BY <1>1, <1>5 DEF Reserving
  <2> QED
    BY <1>3, <1>5, <2>1, <2>2
<1>6. CASE rec.type = "copied"
  <2>1. new \in CopyTo(cat, n, rec)
    BY <1>6 DEF Effect
  <2> QED
    BY <1>6, <2>1, CopyEffect DEF Reserving
<1>7. CASE rec.type = "moved"
  <2>1. PICK mid \in CopyTo(cat, n, rec) : new \in Tombstone(mid, n, rec.src)
    BY <1>7 DEF Effect
  <2>2. IsCatalog(mid) /\ Copied(cat, mid, n)
    BY <1>7, <2>1, CopyEffect DEF Reserving
  <2>3. IsCatalog(new) /\ Hid(mid, new, n, rec.src)
    BY <2>1, <2>2, HideEffect
  <2> QED
    BY <1>7, <2>2, <2>3 DEF Moved
<1>8. CASE rec.type = "expunged"
  <2>1. new \in Tombstone(cat, n, rec.src)
    BY <1>8 DEF Effect
  <2> QED
    BY <1>8, <2>1, HideEffect
<1>9. CASE rec.type = "flags"
  <2>1. new \in SetFlag(cat, rec.src, rec.flag)
    BY <1>9 DEF Effect
  <2> QED
    BY <1>1, <1>9, <2>1, FlagEffect
<1> QED
  BY <1>1, <1>4, <1>5, <1>6, <1>7, <1>8, <1>9 DEF Types

-----------------------------------------------------------------------------
(* Type correctness.                                                       *)

Grown ==
  /\ Len(journal) \in Nat /\ Len(journal') \in Nat /\ Len(journal) <= Len(journal')
  /\ \A n \in Indices : n \in Indices' /\ journal'[n] = journal[n]

(* The record a request appends.                                           *)
Asked == [f \in {"type", "src", "dst", "msg", "flag"} |-> request[f]]

LEMMA AskedIsRecord ==
  ASSUME RequestInv
  PROVE  /\ Asked \in Record /\ Asked.type = request.type /\ Asked.src = request.src
         /\ Asked.dst = request.dst /\ Asked.msg = request.msg /\ Asked.flag = request.flag
BY DEF Asked, RequestInv, RequestType, Record

LEMMA AppendGrows ==
  ASSUME JournalInv, NEW rec \in Record, journal' = Append(journal, rec),
         rec.type \in Reserving => rec.dst > 0
  PROVE  /\ JournalInv' /\ Grown /\ Len(journal') = Len(journal) + 1
         /\ journal'[Len(journal) + 1] = rec
<1>1. journal \in Seq(Record)
  BY DEF JournalInv
<1>2. /\ journal' \in Seq(Record) /\ Len(journal') = Len(journal) + 1 /\ Len(journal) \in Nat
      /\ \A n \in 1 .. Len(journal) : journal'[n] = journal[n]
      /\ journal'[Len(journal) + 1] = rec
  BY <1>1, AppendProperties, LenProperties
<1> QED
  BY <1>2 DEF JournalInv, Grown, Indices

LEMMA NoRows ==
  ASSUME NEW len \in Nat PROVE Rows(len, EmptyCatalog.rows) /\ DOMAIN EmptyCatalog.rows = {}
<1>1. << >> \in Seq(RowType) /\ Len(<< >>) = 0
  OBVIOUS
<1>2. << >> \in [1 .. 0 -> RowType] /\ DOMAIN << >> = 1 .. 0 /\ 1 .. 0 = {}
  BY <1>1, LenProperties
<1>3. EmptyCatalog.rows = << >>
  BY DEF EmptyCatalog
<1> QED
  BY <1>2, <1>3 DEF Rows

JournalSteps == UNCHANGED journal \/ Deliver \/ AppendWrite
CatalogSteps == UNCHANGED catalogVars \/ ApplyRecord \/ WriteUidnext \/ Rebuild

LEMMA StepKinds ==
  ASSUME [Next]_vars PROVE JournalSteps /\ CatalogSteps
<1>1. CASE PassStep
  BY <1>1 DEF PassStep, SkipRecord, HoldRecord, FinishPass, AbortPass, ApplyRecord,
     JournalSteps, CatalogSteps
<1>2. ASSUME NEW t, NEW u, NEW f, BeginUpdate(t, u, f) \/ BeginWrite(t, u)
      PROVE  JournalSteps /\ CatalogSteps
  BY <1>2 DEF BeginUpdate, BeginWrite, JournalSteps, CatalogSteps
<1>3. CASE Deliver \/ AppendWrite
  BY <1>3 DEF Deliver, AppendWrite, JournalSteps, CatalogSteps
<1>4. CASE CatchUp \/ CheckWrite \/ ReadUidnext \/ AppendFails \/ Materialize
  BY <1>4 DEF CatchUp, CheckWrite, ReadUidnext, AppendFails, Materialize, JournalSteps,
     CatalogSteps
<1>5. CASE WriteUidnext \/ RetryFires
  BY <1>5 DEF WriteUidnext, RetryFires, JournalSteps, CatalogSteps
<1>6. ASSUME NEW n, Break(n) \/ Repair(n) PROVE JournalSteps /\ CatalogSteps
  BY <1>6 DEF Break, Repair, JournalSteps, CatalogSteps
<1>7. CASE Pin \/ Unpin \/ Crash \/ Rebuild \/ UNCHANGED vars
  BY <1>7 DEF Pin, Unpin, Crash, Rebuild, Restart, vars, catalogVars, JournalSteps,
     CatalogSteps
<1> QED
  BY <1>1, <1>2, <1>3, <1>4, <1>5, <1>6, <1>7 DEF Next, RequestStep

LEMMA JournalStep ==
  ASSUME JournalInv, RequestInv, [Next]_vars PROVE JournalInv' /\ Grown
<1>1. CASE UNCHANGED journal
  BY <1>1, LenProperties DEF JournalInv, Grown, Indices
<1>2. CASE Deliver
  <2> DEFINE rec == [type |-> "delivered", src |-> 0, dst |-> 0, msg |-> 0, flag |-> FALSE]
  <2>1. rec \in Record /\ rec.type \notin Reserving
    BY DEF Record, Types, Reserving
  <2>2. journal' = Append(journal, rec)
    BY <1>2 DEF Deliver
  <2> HIDE DEF rec
  <2> QED
    BY <2>1, <2>2, AppendGrows
<1>3. CASE AppendWrite
  <2>1. journal' = Append(journal, Asked) /\ request.pc = "append"
    BY <1>3 DEF AppendWrite, Asked, At
  <2>2. Asked \in Record /\ (Asked.type \in Reserving => Asked.dst > 0)
    BY <2>1, AskedIsRecord DEF RequestInv
  <2> QED
    BY <2>1, <2>2, AppendGrows
<1> QED
  BY <1>1, <1>2, <1>3, StepKinds DEF JournalSteps

(* What a pass commits.                                                    *)
LEMMA ApplyEffect ==
  ASSUME IInv, ApplyRecord
  PROVE  /\ pass.at \in Indices /\ pass.end \in Indices /\ pass.at <= pass.end
         /\ IsCatalog(Catalog) /\ UNCHANGED journal
         /\ applied' = applied \cup {pass.at}
         /\ checkpoint' \in {checkpoint, pass.at}
         /\ \E new \in Effect(Catalog, pass.at) :
              IsCatalog(new) /\ rows' = new.rows /\ uidnext' = new.uidnext
<1>1. /\ Catalog.rows = rows /\ Catalog.uidnext = uidnext
      /\ Catalog \in [rows : {Catalog.rows}, uidnext : {uidnext}]
  BY DEF Catalog
<1>2. IsCatalog(Catalog)
  BY <1>1 DEF IsCatalog, IInv, CatalogInv
<1>3. Len(journal) \in Nat
  BY LenProperties DEF IInv, JournalInv
<1>4. pass.at \in Nat \ {0} /\ pass.end \in Nat /\ pass.end <= Len(journal)
  BY DEF IInv, PassInv, PassType
<1>5. pass.at \in Indices /\ pass.end \in Indices /\ pass.at <= pass.end
  BY <1>3, <1>4 DEF ApplyRecord, Scanning, Indices
<1>6. PICK new \in Effect(Catalog, pass.at) : rows' = new.rows /\ uidnext' = new.uidnext
  BY DEF ApplyRecord, Outcome
<1>7. IsCatalog(new)
  BY <1>2, <1>5, <1>6, EffectIs DEF IInv
<1> QED
  BY <1>2, <1>5, <1>6, <1>7 DEF ApplyRecord, MaxOf

LEMMA CatalogStep ==
  ASSUME IInv, [Next]_vars PROVE CatalogInv'
<1>1. Grown /\ CatalogInv
  BY JournalStep DEF IInv
<1>2. ASSUME UNCHANGED <<rows, checkpoint, applied>>, uidnext' \in Nat \ {0} PROVE CatalogInv'
  <2>1. Rows(Len(journal'), rows)
    BY <1>1 DEF Rows, CatalogInv, Grown
  <2> QED
    BY <1>1, <1>2, <2>1 DEF CatalogInv, Grown
<1>3. CASE UNCHANGED catalogVars
  BY <1>1, <1>2, <1>3 DEF catalogVars, CatalogInv
<1>4. CASE WriteUidnext
  <2>1. UNCHANGED <<rows, checkpoint, applied>> /\ uidnext' = request.dst + 1
    BY <1>4 DEF WriteUidnext
  <2>2. request.dst \in Nat
    BY DEF IInv, RequestInv, RequestType
  <2> QED
    BY <1>2, <2>1, <2>2
<1>5. CASE ApplyRecord
  <2>1. PICK new : IsCatalog(new) /\ rows' = new.rows /\ uidnext' = new.uidnext
    BY <1>5, ApplyEffect
  <2>2. Rows(Len(journal), rows') /\ uidnext' \in Nat \ {0}
    BY <2>1 DEF IsCatalog
  <2>3. pass.at \in Indices /\ UNCHANGED journal /\ applied' = applied \cup {pass.at}
        /\ checkpoint' \in {checkpoint, pass.at}
    BY <1>5, ApplyEffect
  <2>4. Indices' = Indices /\ Len(journal) \in Nat /\ Len(journal') = Len(journal)
    BY <1>1, <2>3 DEF Grown, Indices
  <2>5. checkpoint' \in 0 .. Len(journal)
    <3>1. checkpoint \in 0 .. Len(journal) /\ pass.at \in 0 .. Len(journal)
      BY <1>1, <2>3, <2>4 DEF CatalogInv, Indices
    <3> QED
      BY <2>3, <3>1
  <2>6. applied' \subseteq Indices
    BY <1>1, <2>3 DEF CatalogInv
  <2> QED
    BY <2>2, <2>4, <2>5, <2>6 DEF CatalogInv
<1>6. CASE Rebuild
  <2>1. rows' = EmptyCatalog.rows /\ uidnext' = 1 /\ checkpoint' = 0 /\ applied' = {}
    BY <1>6 DEF Rebuild, EmptyCatalog
  <2>2. Len(journal') \in Nat
    BY <1>1 DEF Grown
  <2>3. Rows(Len(journal'), rows')
    BY <2>1, <2>2, NoRows
  <2> QED
    BY <2>1, <2>2, <2>3 DEF CatalogInv, Indices
<1> QED
  BY <1>3, <1>4, <1>5, <1>6, StepKinds DEF CatalogSteps

LEMMA RequestFields ==
  ASSUME RequestInv
  PROVE  /\ request.pc \in Pcs /\ request.type \in Types /\ request.src \in Nat
         /\ request.dst \in Nat /\ request.msg \in Nat /\ request.flag \in BOOLEAN
BY DEF RequestInv, RequestType

LEMMA NoRequestType == NoRequest \in RequestType /\ NoRequest.pc = "idle"
BY DEF NoRequest, RequestType, Pcs, Types

(* The rows a request looks at.                                            *)
LEMMA VisibleFields ==
  ASSUME IInv, NEW u, NEW r \in VisibleRow(Catalog, u)
  PROVE  /\ r \in DOMAIN rows /\ rows[r] \in RowType /\ rows[r].hidden = 0 /\ rows[r].uid = u
         /\ rows[r].msg \in Nat /\ rows[r].uid \in Nat \ {0} /\ rows[r].flag \in BOOLEAN
<1>1. r \in DOMAIN rows /\ rows[r].hidden = 0 /\ rows[r].uid = u
  BY DEF VisibleRow, RowsOf, Visible, Catalog
<1>2. rows[r] \in RowType
  BY <1>1 DEF IInv, CatalogInv, Rows
<1> QED
  BY <1>1, <1>2 DEF RowType

LEMMA UidsAre == ASSUME IInv PROVE Uids \subseteq Nat
<1>1. \A r \in DOMAIN rows : rows[r] \in RowType
  BY DEF IInv, CatalogInv, Rows
<1> QED
  BY <1>1 DEF Uids, RowType

LEMMA RequestStepInv ==
  ASSUME IInv, [Next]_vars PROVE RequestInv'
<1>1. RequestInv /\ request \in RequestType
  BY DEF IInv, RequestInv
<1>2. CASE UNCHANGED request
  BY <1>1, <1>2 DEF RequestInv
<1>3. CASE request' = NoRequest
  BY <1>3, NoRequestType DEF RequestInv
<1>4. ASSUME NEW pc \in Pcs \ {"write uidnext", "append"}, request' = [request EXCEPT !.pc = pc]
      PROVE  RequestInv'
  <2>1. request' \in RequestType /\ request'.pc = pc
    BY <1>1, <1>4 DEF RequestType
  <2> QED
    BY <2>1 DEF RequestInv
<1>5. CASE PassStep
  <2>1. \/ UNCHANGED request \/ request' = NoRequest
        \/ request' = [request EXCEPT !.pc = "check"]
    BY <1>5 DEF PassStep, SkipRecord, HoldRecord, ApplyRecord, FinishPass, AbortPass, Answer
  <2> QED
    BY <2>1, <1>2, <1>3, <1>4 DEF Pcs
<1>6. ASSUME NEW type \in {"flags", "expunged"}, NEW u \in Uids, NEW f \in BOOLEAN,
             BeginUpdate(type, u, f)
      PROVE  RequestInv'
  <2>1. u \in Nat /\ type \in Types /\ type \notin Reserving
    BY <1>6, UidsAre DEF Types, Reserving
  <2>2. request' = [pc |-> "append", type |-> type, src |-> u, dst |-> 0, msg |-> 0, flag |-> f]
    BY <1>6 DEF BeginUpdate, NoRequest
  <2>3. request' \in RequestType
    BY <2>1, <2>2 DEF RequestType, Pcs
  <2>4. request'.pc = "append" /\ request'.type = type
    BY <2>2
  <2> QED
    BY <2>1, <2>3, <2>4 DEF RequestInv
<1>7. ASSUME NEW type \in Reserving, NEW u \in Nat, BeginWrite(type, u)
      PROVE  RequestInv'
  <2>1. type \in Types
    BY <1>7 DEF Types, Reserving
  <2>2. request' = [pc |-> "catch up", type |-> type, src |-> u, dst |-> 0, msg |-> 0,
                    flag |-> FALSE]
    BY <1>7 DEF BeginWrite, NoRequest
  <2>3. request' \in RequestType
    BY <2>1, <2>2 DEF RequestType, Pcs
  <2>4. request'.pc = "catch up"
    BY <2>2
  <2> QED
    BY <2>3, <2>4 DEF RequestInv
<1>8. CASE Deliver \/ CatchUp \/ Materialize
  BY <1>4, <1>8 DEF Deliver, CatchUp, Materialize, Goto, Pcs
<1>9. CASE CheckWrite
  <2>1. CASE Goto("read uidnext")
    BY <2>1, <1>4 DEF Goto, Pcs
  <2>2. ASSUME NEW r \in VisibleRow(Catalog, request.src),
               request' = [request EXCEPT !.pc = "read uidnext", !.msg = rows[r].msg,
                                          !.flag = rows[r].flag]
        PROVE  RequestInv'
    <3>1. rows[r].msg \in Nat /\ rows[r].flag \in BOOLEAN
      BY VisibleFields
    <3>2. request' \in RequestType /\ request'.pc = "read uidnext"
      BY <1>1, <2>2, <3>1 DEF RequestType, Pcs
    <3> QED
      BY <3>2 DEF RequestInv
  <2> QED
    BY <1>3, <1>9, <2>1, <2>2 DEF CheckWrite
<1>10. CASE ReadUidnext
  <2>1. request' = [request EXCEPT !.pc = "write uidnext", !.dst = uidnext]
        /\ uidnext \in Nat \ {0}
    BY <1>10 DEF ReadUidnext, IInv, CatalogInv
  <2>2. request' \in RequestType
    BY <1>1, <2>1 DEF RequestType, Pcs
  <2>3. request'.pc = "write uidnext" /\ request'.dst = uidnext
    BY <1>1, <2>1 DEF RequestType
  <2> QED
    BY <2>1, <2>2, <2>3 DEF RequestInv
<1>11. CASE WriteUidnext
  <2>1. request' = [request EXCEPT !.pc = "append"] /\ request.dst > 0
    BY <1>1, <1>11 DEF WriteUidnext, Goto, At, RequestInv
  <2>2. request' \in RequestType /\ request'.pc = "append" /\ request'.dst = request.dst
    BY <1>1, <2>1 DEF RequestType, Pcs
  <2> QED
    BY <2>1, <2>2 DEF RequestInv
<1>12. CASE AppendWrite
  <2>1. request' = [request EXCEPT !.pc = "materialize", !.src = Len(journal')]
    BY <1>12 DEF AppendWrite
  <2>2. Len(journal') \in Nat
    BY JournalStep DEF IInv, Grown
  <2>3. request' \in RequestType /\ request'.pc = "materialize"
    BY <1>1, <2>1, <2>2 DEF RequestType, Pcs
  <2> QED
    BY <2>3 DEF RequestInv
<1>13. CASE AppendFails
  BY <1>3, <1>13 DEF AppendFails
<1>14. CASE RetryFires \/ UNCHANGED vars
  BY <1>2, <1>14 DEF RetryFires, vars
<1>15. ASSUME NEW n, Break(n) \/ Repair(n) PROVE RequestInv'
  BY <1>2, <1>15 DEF Break, Repair
<1>16. CASE Pin \/ Unpin \/ Crash \/ Rebuild
  BY <1>2, <1>3, <1>16 DEF Pin, Unpin, Crash, Rebuild, Restart
<1>17. CASE RequestStep
  <2>1. Uids \subseteq Nat
    BY UidsAre
  <2> QED
    BY <1>6, <1>7, <1>8, <1>9, <1>10, <1>11, <1>12, <1>13, <1>17, <2>1
       DEF RequestStep, Reserving
<1> QED
  BY <1>5, <1>14, <1>15, <1>16, <1>17 DEF Next

LEMMA StartsPass ==
  ASSUME IInv, NEW k \in {"catchUp", "post", "retry"}, StartPass(k)
  PROVE  /\ pass' \in PassType /\ pass'.kind = k /\ pass'.end = Len(journal)
         /\ pass'.at <= Len(journal) + 1
<1>1. /\ Len(journal) \in Nat /\ checkpoint \in 0 .. Len(journal)
      /\ cursor \in 0 .. Len(journal) /\ holds \subseteq Accounts
  BY LenProperties DEF IInv, JournalInv, CatalogInv, PassInv
<1> DEFINE at == (IF Resumes(k) THEN cursor ELSE checkpoint) + 1
           held == (IF k = "post" THEN holds ELSE {})
                     \cup (IF pinned /\ ~Resumes(k) THEN {"other"} ELSE {})
<1>2. pass' = [kind |-> k, at |-> at, end |-> Len(journal), held |-> held]
  BY DEF StartPass
<1>3. at \in Nat \ {0} /\ at <= Len(journal) + 1
  BY <1>1
<1>4. held \subseteq Accounts
  BY <1>1 DEF Accounts
<1> HIDE DEF at, held
<1> QED
  BY <1>1, <1>2, <1>3, <1>4 DEF PassType

LEMMA PassStepInv ==
  ASSUME IInv, [Next]_vars PROVE PassInv'
<1>1. /\ Grown /\ Len(journal) \in Nat /\ pass \in PassType /\ holds \subseteq Accounts
      /\ cursor \in 0 .. Len(journal)
      /\ pass.end <= Len(journal) /\ pass.at <= Len(journal) + 1
  BY JournalStep DEF IInv, Grown, PassInv
<1>2. pass.at \in Nat \ {0} /\ pass.end \in Nat /\ pass.held \subseteq Accounts
  BY <1>1 DEF PassType
<1>3. CASE UNCHANGED passVars
  BY <1>1, <1>2, <1>3 DEF passVars, PassInv, Grown
<1>4. ASSUME UNCHANGED <<holds, cursor>>, pass' \in PassType,
             pass'.end <= Len(journal), pass'.at <= Len(journal) + 1
      PROVE  PassInv'
  <2>1. pass'.end \in Nat /\ pass'.at \in Nat
    BY <1>4 DEF PassType
  <2> QED
    BY <1>1, <1>4, <2>1 DEF PassInv, Grown
<1>5. ASSUME holds' \subseteq Accounts, cursor' \in 0 .. Len(journal), pass' = NoPass
      PROVE  PassInv'
  <2>1. pass' \in PassType /\ pass'.end = 0 /\ pass'.at = 1
    BY <1>5 DEF NoPass, PassType, Accounts
  <2> QED
    BY <1>1, <1>5, <2>1 DEF PassInv, Grown
<1>6. CASE SkipRecord \/ HoldRecord \/ ApplyRecord
  <2>1. UNCHANGED <<holds, cursor>> /\ pass.at <= pass.end
    BY <1>6 DEF SkipRecord, HoldRecord, ApplyRecord, Scanning
  <2>2. \/ pass' = [pass EXCEPT !.at = @ + 1]
        \/ pass' = [pass EXCEPT !.at = @ + 1, !.held = @ \union {"own"}]
    BY <1>6 DEF SkipRecord, HoldRecord, ApplyRecord
  <2>3. pass' \in PassType
    <3>1. pass.at + 1 \in Nat \ {0} /\ pass.held \cup {"own"} \subseteq Accounts
      BY <1>2 DEF Accounts
    <3> QED
      BY <1>1, <2>2, <3>1 DEF PassType
  <2>4. pass'.end = pass.end /\ pass'.at = pass.at + 1
    BY <1>1, <2>2 DEF PassType
  <2> QED
    BY <1>1, <1>2, <1>4, <2>1, <2>3, <2>4
<1>7. CASE FinishPass
  <2>1. /\ holds' = pass.held /\ pass' = NoPass
        /\ cursor' = IF pass.held = {} THEN 0 ELSE MaxOf(pass.end, pass.at - 1)
    BY <1>7 DEF FinishPass
  <2>2. cursor' \in 0 .. Len(journal)
    BY <1>1, <1>2, <2>1 DEF MaxOf
  <2> QED
    BY <1>2, <1>5, <2>1, <2>2
<1>8. CASE AbortPass
  <2>1. UNCHANGED holds /\ cursor' = 0 /\ pass' = NoPass
    BY <1>8 DEF AbortPass
  <2> QED
    BY <1>1, <1>5, <2>1
<1>9. CASE CatchUp \/ Materialize \/ RetryFires
  <2>1. UNCHANGED <<holds, cursor>> /\ \E k \in {"catchUp", "post", "retry"} : StartPass(k)
    BY <1>9 DEF CatchUp, Materialize, RetryFires
  <2>2. pass' \in PassType /\ pass'.end = Len(journal) /\ pass'.at <= Len(journal) + 1
    BY <2>1, StartsPass
  <2> QED
    BY <1>1, <1>4, <2>1, <2>2
<1>10. CASE Crash \/ Rebuild
  <2> DEFINE held == IF pinned THEN {"other"} ELSE {}
  <2>1. /\ holds' = {} /\ cursor' = 0 /\ UNCHANGED journal
        /\ pass' = [NoPass EXCEPT !.kind = "start", !.at = checkpoint' + 1,
                                  !.end = Len(journal), !.held = held]
    BY <1>10 DEF Crash, Rebuild, Restart
  <2>2. checkpoint' \in 0 .. Len(journal) /\ held \subseteq Accounts
    BY <2>1, CatalogStep DEF CatalogInv, Accounts
  <2>3. pass' = [kind |-> "start", at |-> checkpoint' + 1, end |-> Len(journal), held |-> held]
    BY <2>1 DEF NoPass
  <2> HIDE DEF held
  <2>4. checkpoint' + 1 \in Nat \ {0} /\ checkpoint' + 1 <= Len(journal) + 1
    BY <1>1, <2>1, <2>2
  <2>5. pass' \in PassType
    BY <1>1, <2>2, <2>3, <2>4 DEF PassType
  <2>6. pass'.end = Len(journal) /\ pass'.at = checkpoint' + 1
    BY <2>3
  <2> QED
    BY <1>1, <2>1, <2>4, <2>5, <2>6 DEF PassInv
<1>11. CASE RequestStep
  <2>1. ASSUME NEW t, NEW u, NEW f, BeginUpdate(t, u, f) \/ BeginWrite(t, u)
        PROVE  UNCHANGED passVars
    BY <2>1 DEF BeginUpdate, BeginWrite
  <2>2. ASSUME Deliver \/ AppendWrite \/ CheckWrite \/ ReadUidnext \/ WriteUidnext \/ AppendFails
        PROVE  UNCHANGED passVars
    BY <2>2 DEF Deliver, AppendWrite, CheckWrite, ReadUidnext, WriteUidnext, AppendFails
  <2> QED
    BY <1>3, <1>9, <1>11, <2>1, <2>2 DEF RequestStep
<1>12. CASE Pin \/ Unpin \/ UNCHANGED vars
  BY <1>3, <1>12 DEF Pin, Unpin, vars, passVars
<1>13. ASSUME NEW n, Break(n) \/ Repair(n) PROVE PassInv'
  BY <1>3, <1>13 DEF Break, Repair
<1> QED
  BY <1>6, <1>7, <1>8, <1>9, <1>10, <1>11, <1>12, <1>13 DEF Next, PassStep

(* What a trouble is counted in.                                           *)
LEMMA HappensSpends ==
  ASSUME spent \in SpentType,
         NEW what \in {"breaks", "pins", "faults", "aborts", "crashes", "rebuilds"},
         Happens(what)
  PROVE  /\ spent' \in SpentType /\ spent'[what] = spent[what] + 1 /\ spent[what] \in Nat
         /\ \A w \in {"breaks", "pins", "faults", "aborts", "crashes", "rebuilds"} \ {what} :
              spent'[w] = spent[w]
BY DEF Happens, SpentType

(* Only a rebuild gives the daemon a new catalog.                          *)
LEMMA SpentStep ==
  ASSUME IInv, [Next]_vars PROVE spent' \in SpentType
<1>1. spent \in SpentType
  BY DEF IInv, RestInv
<1>2. CASE SkipRecord \/ HoldRecord \/ ApplyRecord \/ FinishPass
  BY <1>1, <1>2 DEF SkipRecord, HoldRecord, ApplyRecord, FinishPass
<1>3. CASE AbortPass
  BY <1>1, <1>3, HappensSpends DEF AbortPass
<1>4. ASSUME NEW t, NEW u, NEW f, BeginUpdate(t, u, f) \/ BeginWrite(t, u)
      PROVE  UNCHANGED spent
  BY <1>4 DEF BeginUpdate, BeginWrite
<1>5. CASE Deliver \/ AppendWrite \/ CatchUp \/ CheckWrite \/ ReadUidnext \/ WriteUidnext
  BY <1>1, <1>5 DEF Deliver, AppendWrite, CatchUp, CheckWrite, ReadUidnext, WriteUidnext
<1>6. CASE Materialize \/ RetryFires \/ Unpin \/ UNCHANGED vars
  BY <1>1, <1>6 DEF Materialize, RetryFires, Unpin, vars
<1>7. CASE AppendFails
  BY <1>1, <1>7, HappensSpends DEF AppendFails
<1>8. ASSUME NEW n, Break(n) \/ Repair(n) PROVE spent' \in SpentType
  BY <1>1, <1>8, HappensSpends DEF Break, Repair
<1>9. CASE Pin
  BY <1>1, <1>9, HappensSpends DEF Pin
<1>10. CASE Crash
  BY <1>1, <1>10, HappensSpends DEF Crash
<1>11. CASE Rebuild
  BY <1>1, <1>11, HappensSpends DEF Rebuild
<1> QED
  BY <1>1, <1>2, <1>3, <1>4, <1>5, <1>6, <1>7, <1>8, <1>9, <1>10, <1>11
     DEF Next, PassStep, RequestStep

LEMMA BadStep ==
  ASSUME IInv, [Next]_vars PROVE bad' \subseteq Indices'
<1>1. bad \subseteq Indices /\ Indices \subseteq Indices'
  BY JournalStep DEF IInv, RestInv, Grown
<1>2. CASE PassStep
  BY <1>1, <1>2 DEF PassStep, SkipRecord, HoldRecord, ApplyRecord, FinishPass, AbortPass
<1>3. ASSUME NEW t, NEW u, NEW f, BeginUpdate(t, u, f) \/ BeginWrite(t, u)
      PROVE  UNCHANGED bad
  BY <1>3 DEF BeginUpdate, BeginWrite
<1>4. CASE Deliver \/ AppendWrite \/ CatchUp \/ CheckWrite \/ ReadUidnext \/ WriteUidnext
  BY <1>1, <1>4 DEF Deliver, AppendWrite, CatchUp, CheckWrite, ReadUidnext, WriteUidnext
<1>5. CASE Materialize \/ RetryFires \/ AppendFails \/ Pin \/ Unpin \/ UNCHANGED vars
  BY <1>1, <1>5 DEF Materialize, RetryFires, AppendFails, Pin, Unpin, vars
<1>6. ASSUME NEW n \in Indices, Break(n) \/ Repair(n) PROVE bad' \subseteq Indices'
  BY <1>1, <1>6 DEF Break, Repair
<1>7. CASE Crash \/ Rebuild
  BY <1>1, <1>7 DEF Crash, Rebuild, Restart
<1> QED
  BY <1>1, <1>2, <1>3, <1>4, <1>5, <1>6, <1>7 DEF Next, RequestStep

LEMMA InitIInv == Init => IInv
<1> SUFFICES ASSUME Init PROVE IInv
  OBVIOUS
<1>1. journal = << >> /\ Len(journal) = 0 /\ journal \in Seq(Record) /\ Indices = {}
  BY DEF Init, Indices
<1>2. JournalInv
  BY <1>1 DEF JournalInv
<1>3. CatalogInv
  BY <1>1, NoRows DEF Init, CatalogInv, EmptyCatalog
<1>4. RequestInv
  BY NoRequestType DEF Init, RequestInv
<1>5. PassInv
  <2>1. pass \in PassType /\ pass.end = 0 /\ pass.at = 1
    BY DEF Init, NoPass, PassType, Accounts
  <2> QED
    BY <1>1, <2>1 DEF Init, PassInv, Accounts
<1>6. RestInv
  BY DEF Init, RestInv, SpentType
<1> QED
  BY <1>2, <1>3, <1>4, <1>5, <1>6 DEF IInv

LEMMA Invariant == Spec => []IInv
<1>1. IInv /\ [Next]_vars => IInv'
  BY JournalStep, CatalogStep, RequestStepInv, PassStepInv, SpentStep, BadStep
     DEF IInv, RestInv
<1> QED
  BY <1>1, InitIInv, PTL DEF Spec

(* Records, memberships, checkpoint and cursor stay well formed whatever   *)
(* clients write, and whatever breaks, aborts or dies.                     *)
THEOREM TypeCorrect == Spec => []TypeOK
<1>1. IInv => TypeOK
  <2> SUFFICES ASSUME IInv PROVE TypeOK
    OBVIOUS
  <2>1. \A n \in Indices : journal[n] \in Record
    BY RecordFields DEF IInv
  <2>2. /\ DOMAIN rows \subseteq Indices /\ \A r \in DOMAIN rows : rows[r] \in RowType
        /\ \A r \in DOMAIN rows : rows[r].hidden \in 0 .. Len(journal)
    BY DEF IInv, CatalogInv, Rows, Indices
  <2>3. uidnext \in Nat \ {0} /\ checkpoint \in Nat /\ applied \subseteq Indices
    BY LenProperties DEF IInv, JournalInv, CatalogInv
  <2>4. /\ bad \subseteq Indices /\ holds \subseteq {"own", "other"}
        /\ pass.held \subseteq {"own", "other"} /\ cursor \in 0 .. Len(journal)
    BY DEF IInv, PassInv, PassType, RestInv, Accounts
  <2> QED
    BY <2>1, <2>2, <2>3, <2>4 DEF TypeOK
<1> QED
  BY <1>1, Invariant, PTL

-----------------------------------------------------------------------------
(* Tombstones.                                                             *)

(* What every record leaves of a membership.                               *)
Preserved(old, new) ==
  \A r \in DOMAIN old :
    /\ r \in DOMAIN new /\ new[r].uid = old[r].uid /\ new[r].msg = old[r].msg
    /\ old[r].hidden # 0 => new[r].hidden = old[r].hidden

LEMMA CreatedPreserves ==
  ASSUME NEW cat, NEW new, NEW n, NEW u, NEW m, NEW f, Created(cat, new, n, u, m, f)
  PROVE  Preserved(cat.rows, new.rows)
BY DEF Created, Inserted, Found, Preserved

LEMMA CopiedPreserves ==
  ASSUME NEW cat, NEW new, NEW n, Copied(cat, new, n)
  PROVE  Preserved(cat.rows, new.rows)
BY DEF Copied, Inserted, Found, Preserved

LEMMA HidPreserves ==
  ASSUME NEW cat, NEW new, NEW n, NEW u, Hid(cat, new, n, u)
  PROVE  Preserved(cat.rows, new.rows)
BY DEF Hid, Preserved

LEMMA EffectPreserves ==
  ASSUME JournalInv, NEW cat, IsCatalog(cat), NEW n \in Indices, NEW new \in Effect(cat, n)
  PROVE  Preserved(cat.rows, new.rows)
<1>1. CASE journal[n].type \in {"delivered", "appended"}
  BY <1>1, EffectIs, CreatedPreserves
<1>2. CASE journal[n].type = "copied"
  BY <1>2, EffectIs, CopiedPreserves
<1>3. CASE journal[n].type = "moved"
  <2>1. PICK mid : Copied(cat, mid, n) /\ Hid(mid, new, n, journal[n].src)
    BY <1>3, EffectIs DEF Moved
  <2>2. Preserved(cat.rows, mid.rows) /\ Preserved(mid.rows, new.rows)
    BY <2>1, CopiedPreserves, HidPreserves
  <2> QED
    BY <2>2 DEF Preserved
<1>4. CASE journal[n].type = "expunged"
  BY <1>4, EffectIs, HidPreserves
<1>5. CASE journal[n].type = "flags"
  <2>1. Flagged(cat, new, journal[n].src, journal[n].flag)
    BY <1>5, EffectIs
  <2> QED
    BY <2>1 DEF Flagged, Preserved
<1> QED
  BY <1>1, <1>2, <1>3, <1>4, <1>5, RecordFields DEF Types

(* While the catalog lasts no membership disappears, changes its UID or    *)
(* comes back: re-applying records after a hold, a crash or an abort finds *)
(* each of them hidden by the record that hid it.                          *)
THEOREM TombstonesStayCorrect == Spec => TombstonesStay
<1> DEFINE Stays ==
      spent.rebuilds = spent'.rebuilds =>
        \A r \in DOMAIN rows :
          /\ r \in DOMAIN rows' /\ rows'[r].uid = rows[r].uid
          /\ rows[r].hidden # 0 => rows'[r].hidden = rows[r].hidden
<1>1. IInv /\ [Next]_vars => Stays
  <2> SUFFICES ASSUME IInv, [Next]_vars PROVE Stays
    OBVIOUS
  <2>1. CASE UNCHANGED catalogVars \/ WriteUidnext
    BY <2>1 DEF catalogVars, WriteUidnext
  <2>2. CASE ApplyRecord
    <3>1. PICK new \in Effect(Catalog, pass.at) : rows' = new.rows
      BY <2>2, ApplyEffect
    <3>2. Preserved(Catalog.rows, new.rows)
      BY <2>2, <3>1, ApplyEffect, EffectPreserves DEF IInv
    <3>3. Catalog.rows = rows
      BY DEF Catalog
    <3> QED
      BY <3>1, <3>2, <3>3 DEF Preserved
  <2>3. CASE Rebuild
    <3>1. spent'["rebuilds"] = spent["rebuilds"] + 1 /\ spent["rebuilds"] \in Nat
      BY <2>3, HappensSpends DEF IInv, RestInv, Rebuild
    <3> QED
      BY <3>1
  <2> QED
    BY <2>1, <2>2, <2>3, StepKinds DEF CatalogSteps
<1>2. IInv /\ [Next]_vars => [Stays]_vars
  BY <1>1
<1> QED
  BY <1>2, Invariant, PTL DEF Spec, TombstonesStay

-----------------------------------------------------------------------------
(* Moves.                                                                  *)

UidsDiffer(rws) == \A r, s \in DOMAIN rws : rws[r].uid = rws[s].uid => r = s

(* The source of a move that has its copy is hidden by it.                 *)
SourceHidden(log, rws, n) ==
  log[n].type = "moved" =>
    \E r \in DOMAIN rws : rws[r].uid = log[n].src /\ rws[r].hidden = n

(* A membership that shows its message, or was expunged.                   *)
Accounted(log, row) ==
  row.hidden = 0 \/ (row.hidden \in 1 .. Len(log) /\ log[row.hidden].type = "expunged")
Findable(log, rws) ==
  \A r \in DOMAIN rws : \E s \in DOMAIN rws : rws[s].msg = rws[r].msg /\ Accounted(log, rws[s])

Safe(log, rws) ==
  /\ UidsDiffer(rws) /\ \A n \in DOMAIN rws : SourceHidden(log, rws, n)
  /\ Findable(log, rws)

SafeInv == Safe(journal, rows)

LEMMA SameFieldsSafe ==
  ASSUME NEW log, NEW old, NEW new, Safe(log, old), DOMAIN new = DOMAIN old,
         \A r \in DOMAIN old : /\ new[r].uid = old[r].uid /\ new[r].msg = old[r].msg
                               /\ new[r].hidden = old[r].hidden
  PROVE  Safe(log, new)
<1>1. UidsDiffer(new)
  BY DEF Safe, UidsDiffer
<1>2. \A n \in DOMAIN new : SourceHidden(log, new, n)
  BY DEF Safe, SourceHidden
<1>3. Findable(log, new)
  BY DEF Safe, Findable, Accounted
<1> QED
  BY <1>1, <1>2, <1>3 DEF Safe

LEMMA InsertedSafe ==
  ASSUME NEW cat, NEW new, NEW n, NEW u, NEW m, NEW f, Safe(journal, cat.rows),
         Inserted(cat, new, n, u, m, f)
  PROVE  /\ UidsDiffer(new.rows) /\ Findable(journal, new.rows)
         /\ \A k \in DOMAIN cat.rows : SourceHidden(journal, new.rows, k)
<1> DEFINE row == [msg |-> m, uid |-> u, hidden |-> 0, flag |-> f]
<1>1. /\ \A r \in DOMAIN cat.rows : cat.rows[r].uid # u
      /\ DOMAIN new.rows = DOMAIN cat.rows \cup {n}
      /\ \A r \in DOMAIN cat.rows : new.rows[r] = cat.rows[r]
      /\ new.rows[n] = row
  BY DEF Inserted, RowsOf
<1>2. row.uid = u /\ row.hidden = 0 /\ row.msg = m
  OBVIOUS
<1> HIDE DEF row
<1>3. UidsDiffer(new.rows)
  BY <1>1, <1>2 DEF Safe, UidsDiffer
<1>4. Findable(journal, new.rows)
  <2>1. \A r \in DOMAIN cat.rows : \E s \in DOMAIN cat.rows :
          cat.rows[s].msg = cat.rows[r].msg /\ Accounted(journal, cat.rows[s])
    BY DEF Safe, Findable
  <2>2. Accounted(journal, new.rows[n])
    BY <1>1, <1>2 DEF Accounted
  <2> QED
    BY <1>1, <2>1, <2>2 DEF Findable
<1>5. \A k \in DOMAIN cat.rows : SourceHidden(journal, new.rows, k)
  BY <1>1 DEF Safe, SourceHidden
<1> QED
  BY <1>3, <1>4, <1>5

LEMMA MovedSafe ==
  ASSUME JournalInv, NEW cat, Rows(Len(journal), cat.rows), Safe(journal, cat.rows),
         NEW n \in Indices, NEW new,
         journal[n].type = "moved", Moved(cat, new, n)
  PROVE  Safe(journal, new.rows)
<1>1. PICK mid : Copied(cat, mid, n) /\ Hid(mid, new, n, journal[n].src)
  BY DEF Moved
<1>2. PICK x \in DOMAIN mid.rows :
        /\ mid.rows[x].uid = journal[n].src /\ mid.rows[x].hidden \in {0, n}
        /\ new.rows[x].hidden = n /\ DOMAIN new.rows = DOMAIN mid.rows
        /\ \A r \in DOMAIN mid.rows :
             /\ new.rows[r].msg = mid.rows[r].msg /\ new.rows[r].uid = mid.rows[r].uid
             /\ r # x => new.rows[r].hidden = mid.rows[r].hidden
  BY <1>1 DEF Hid
<1>3. CASE Found(cat, mid, n)
  <2>1. PICK r \in DOMAIN cat.rows : cat.rows[r].uid = journal[n].src /\ cat.rows[r].hidden = n
    BY <1>3 DEF Found, Safe, SourceHidden
  <2>2. mid = cat /\ r = x
    BY <1>2, <1>3, <2>1 DEF Found, Safe, UidsDiffer
  <2> QED
    BY <1>2, <2>1, <2>2, SameFieldsSafe
<1>4. CASE ~Found(cat, mid, n)
  <2> DEFINE rec == journal[n]
  <2>1. /\ Inserted(cat, mid, n, rec.dst, rec.msg, rec.flag)
        /\ \E r \in DOMAIN cat.rows : cat.rows[r].uid = rec.src /\ cat.rows[r].msg = rec.msg
    BY <1>1, <1>4 DEF Copied
  <2>2. /\ UidsDiffer(mid.rows) /\ Findable(journal, mid.rows)
        /\ \A k \in DOMAIN cat.rows : SourceHidden(journal, mid.rows, k)
    BY <2>1, InsertedSafe
  <2>3. /\ n \notin DOMAIN cat.rows /\ n \in DOMAIN mid.rows
        /\ DOMAIN mid.rows = DOMAIN cat.rows \cup {n}
        /\ \A r \in DOMAIN cat.rows : mid.rows[r] = cat.rows[r]
        /\ mid.rows[n].hidden = 0 /\ mid.rows[n].msg = rec.msg
    BY <2>1 DEF Inserted
  <2>4. x \in DOMAIN cat.rows /\ mid.rows[x].msg = rec.msg
    BY <1>2, <2>1, <2>2, <2>3 DEF UidsDiffer
  <2>5. UidsDiffer(new.rows)
    BY <1>2, <2>2 DEF UidsDiffer
  <2>6. ASSUME NEW k \in DOMAIN new.rows PROVE SourceHidden(journal, new.rows, k)
    <3>1. CASE k = n
      BY <1>2, <3>1 DEF SourceHidden
    <3>2. CASE k # n /\ journal[k].type = "moved"
      <4>1. PICK r \in DOMAIN mid.rows : mid.rows[r].uid = journal[k].src /\ mid.rows[r].hidden = k
        BY <1>2, <2>2, <2>3, <3>2 DEF SourceHidden
      <4>2. k # 0
        BY <1>2, <2>3, <3>2 DEF Rows
      <4>3. r # x
        BY <1>2, <3>2, <4>1, <4>2
      <4> QED
        BY <1>2, <4>1, <4>3 DEF SourceHidden
    <3> QED
      BY <3>1, <3>2 DEF SourceHidden
  <2>7. ASSUME NEW r \in DOMAIN new.rows
        PROVE  \E s \in DOMAIN new.rows :
                 new.rows[s].msg = new.rows[r].msg /\ Accounted(journal, new.rows[s])
    <3>1. CASE mid.rows[r].msg = rec.msg
      BY <1>2, <2>3, <2>4, <3>1 DEF Accounted
    <3>2. CASE mid.rows[r].msg # rec.msg
      <4>1. PICK s \in DOMAIN mid.rows :
              mid.rows[s].msg = mid.rows[r].msg /\ Accounted(journal, mid.rows[s])
        BY <1>2, <2>2 DEF Findable
      <4>2. s # x
        BY <2>4, <3>2, <4>1
      <4> QED
        BY <1>2, <4>1, <4>2 DEF Accounted
    <3> QED
      BY <3>1, <3>2
  <2> QED
    BY <2>5, <2>6, <2>7 DEF Safe, Findable
<1> QED
  BY <1>3, <1>4

LEMMA ExpungedSafe ==
  ASSUME JournalInv, NEW cat, Rows(Len(journal), cat.rows), Safe(journal, cat.rows),
         NEW n \in Indices, NEW new,
         journal[n].type = "expunged", Hid(cat, new, n, journal[n].src)
  PROVE  Safe(journal, new.rows)
<1>1. PICK x \in DOMAIN cat.rows :
        /\ cat.rows[x].hidden \in {0, n}
        /\ new.rows[x].hidden = n /\ DOMAIN new.rows = DOMAIN cat.rows
        /\ \A r \in DOMAIN cat.rows :
             /\ new.rows[r].msg = cat.rows[r].msg /\ new.rows[r].uid = cat.rows[r].uid
             /\ r # x => new.rows[r].hidden = cat.rows[r].hidden
  BY DEF Hid
<1>2. UidsDiffer(new.rows)
  BY <1>1 DEF Safe, UidsDiffer
<1>3. ASSUME NEW k \in DOMAIN new.rows, journal[k].type = "moved"
      PROVE  SourceHidden(journal, new.rows, k)
  <2>1. PICK r \in DOMAIN cat.rows : cat.rows[r].uid = journal[k].src /\ cat.rows[r].hidden = k
    BY <1>1, <1>3 DEF Safe, SourceHidden
  <2>2. k # 0 /\ k # n
    BY <1>1, <1>3 DEF Rows
  <2>3. r # x
    BY <1>1, <2>1, <2>2
  <2> QED
    BY <1>1, <2>1, <2>3 DEF SourceHidden
<1>4. ASSUME NEW r \in DOMAIN new.rows
      PROVE  \E s \in DOMAIN new.rows :
               new.rows[s].msg = new.rows[r].msg /\ Accounted(journal, new.rows[s])
  <2>1. PICK s \in DOMAIN cat.rows :
          cat.rows[s].msg = cat.rows[r].msg /\ Accounted(journal, cat.rows[s])
    BY <1>1 DEF Safe, Findable
  <2>2. Accounted(journal, new.rows[x])
    BY <1>1 DEF Accounted, Indices
  <2> QED
    BY <1>1, <2>1, <2>2 DEF Accounted
<1> QED
  BY <1>2, <1>3, <1>4 DEF Safe, SourceHidden, Findable

LEMMA EffectSafe ==
  ASSUME JournalInv, NEW cat, IsCatalog(cat), Safe(journal, cat.rows), NEW n \in Indices,
         NEW new \in Effect(cat, n)
  PROVE  Safe(journal, new.rows)
<1> DEFINE rec == journal[n]
<1>1. ASSUME NEW u, NEW m, NEW f, Inserted(cat, new, n, u, m, f), rec.type # "moved"
      PROVE  Safe(journal, new.rows)
  <2>1. DOMAIN new.rows = DOMAIN cat.rows \cup {n}
    BY <1>1 DEF Inserted
  <2> QED
    BY <1>1, <2>1, InsertedSafe DEF Safe, SourceHidden
<1>2. CASE Found(cat, new, n)
  BY <1>2 DEF Found
<1>3. CASE rec.type \in {"delivered", "appended"}
  BY <1>1, <1>2, <1>3, EffectIs DEF Created
<1>4. CASE rec.type = "copied"
  BY <1>1, <1>2, <1>4, EffectIs DEF Copied
<1>5. CASE rec.type = "moved"
  BY <1>5, EffectIs, MovedSafe DEF IsCatalog
<1>6. CASE rec.type = "expunged"
  BY <1>6, EffectIs, ExpungedSafe DEF IsCatalog
<1>7. CASE rec.type = "flags"
  <2>1. Flagged(cat, new, rec.src, rec.flag)
    BY <1>7, EffectIs
  <2> QED
    BY <2>1, SameFieldsSafe DEF Flagged
<1> QED
  BY <1>3, <1>4, <1>5, <1>6, <1>7, RecordFields DEF Types

LEMMA SafeStep ==
  ASSUME IInv, SafeInv, [Next]_vars PROVE SafeInv'
<1>1. Grown
  BY JournalStep DEF IInv
<1>2. CASE UNCHANGED rows
  <2>1. DOMAIN rows \subseteq Indices /\ \A r \in DOMAIN rows : rows[r].hidden \in 0 .. Len(journal)
    BY DEF IInv, CatalogInv, Rows, Indices
  <2>2. \A n \in DOMAIN rows : SourceHidden(journal', rows, n)
    BY <1>1, <2>1 DEF SafeInv, Safe, SourceHidden, Grown
  <2>3. \A r \in DOMAIN rows : Accounted(journal, rows[r]) => Accounted(journal', rows[r])
    BY <1>1, <2>1 DEF Accounted, Grown, Indices
  <2>4. Findable(journal', rows)
    BY <2>3 DEF SafeInv, Safe, Findable
  <2> QED
    BY <1>2, <2>2, <2>4 DEF SafeInv, Safe
<1>3. CASE ApplyRecord
  <2>1. PICK new \in Effect(Catalog, pass.at) : rows' = new.rows
    BY <1>3, ApplyEffect
  <2>2. Catalog.rows = rows
    BY DEF Catalog
  <2>3. Safe(journal, new.rows) /\ UNCHANGED journal
    BY <1>3, <2>1, <2>2, ApplyEffect, EffectSafe DEF SafeInv, IInv
  <2> QED
    BY <2>1, <2>3 DEF SafeInv
<1>4. CASE Rebuild
  <2>1. rows' = EmptyCatalog.rows /\ DOMAIN EmptyCatalog.rows = {}
    BY <1>4, NoRows DEF Rebuild
  <2> QED
    BY <2>1 DEF SafeInv, Safe, UidsDiffer, Findable
<1> QED
  BY <1>2, <1>3, <1>4, StepKinds DEF CatalogSteps, catalogVars, WriteUidnext

LEMMA SafeInvariant == Spec => []SafeInv
<1>1. Init => SafeInv
  BY NoRows DEF Init, SafeInv, Safe, UidsDiffer, Findable
<1>2. IInv /\ SafeInv /\ [Next]_vars => SafeInv'
  BY SafeStep
<1> QED
  BY <1>1, <1>2, Invariant, PTL DEF Spec

(* A MOVE tombstones its source in the transaction that shows its copy,    *)
(* and finds both when it is applied again: moving a message never makes   *)
(* it disappear, whatever is held, replayed or rebuilt in between.         *)
THEOREM MovesLoseNothingCorrect == Spec => []MovesLoseNothing
<1>1. SafeInv => MovesLoseNothing
  BY DEF SafeInv, Safe, Findable, Accounted, MovesLoseNothing
<1> QED
  BY <1>1, SafeInvariant, PTL

-----------------------------------------------------------------------------
(* Replays.                                                                *)

Creating == {"delivered", "appended", "copied", "moved"}

(* Every record before one a pass may apply is in the catalog, whatever    *)
(* holds the pass carries.                                                 *)
ScanInv ==
  /\ 1 .. checkpoint \subseteq applied
  /\ \A n \in applied : 1 .. n \subseteq applied
  /\ cursor > 0 /\ "own" \notin holds => 1 .. cursor \subseteq applied
  /\ cursor > 0 /\ PassIdle => checkpoint <= cursor
  /\ ~PassIdle => /\ checkpoint < pass.at /\ applied \subseteq 1 .. pass.end
                  /\ ~OwnHeld => 1 .. (pass.at - 1) \subseteq applied

(* What the catalog still shows of an applied record.                      *)
Effected(n) ==
  /\ journal[n].type \in Creating => n \in DOMAIN rows
  /\ journal[n].type \in Hiding =>
       \E r \in DOMAIN rows : rows[r].uid = journal[n].src /\ rows[r].hidden = n
  /\ journal[n].type = "flags" => \E r \in DOMAIN rows : rows[r].uid = journal[n].src

Removes(n, u) == journal[n].type \in Hiding /\ journal[n].src = u

AppliedInv ==
  /\ \A n \in applied : Effected(n)
  /\ \A r \in DOMAIN rows : /\ r \in applied /\ journal[r].type \in Creating
                            /\ rows[r].hidden # 0 => /\ rows[r].hidden > r
                                                     /\ rows[r].hidden \in applied
                                                     /\ Removes(rows[r].hidden, rows[r].uid)

(* n is the newest flag update of membership r that was applied.           *)
Newest(r, n) ==
  /\ n \in applied /\ journal[n].type = "flags" /\ journal[n].src = rows[r].uid /\ n > r
  /\ \A m \in applied : journal[m].type = "flags" /\ journal[m].src = rows[r].uid => m <= n

(* A membership without the flags of its newest update is about to get     *)
(* them again.                                                             *)
FlagsInv ==
  spent.breaks = 0 /\ spent.aborts = 0 =>
    /\ bad = {}
    /\ \A r \in DOMAIN rows : \A n \in applied :
         Newest(r, n) => \/ rows[r].flag = journal[n].flag
                         \/ ~PassIdle /\ ~OwnHeld /\ pass.at <= n

(* How a step changes what passes are made of.                             *)
PassKept == UNCHANGED <<pass, holds, cursor, checkpoint, applied>>
PassStarts ==
  /\ UNCHANGED <<holds, cursor, checkpoint, applied>>
  /\ \E k \in {"catchUp", "post", "retry"} : StartPass(k)

LEMMA PassSteps ==
  ASSUME [Next]_vars
  PROVE  \/ PassKept \/ PassStarts \/ SkipRecord \/ HoldRecord \/ ApplyRecord
         \/ FinishPass \/ AbortPass \/ Crash \/ Rebuild
<1>1. ASSUME NEW t, NEW u, NEW f, BeginUpdate(t, u, f) \/ BeginWrite(t, u) PROVE PassKept
  BY <1>1 DEF BeginUpdate, BeginWrite, PassKept, passVars, catalogVars
<1>2. CASE Deliver \/ AppendWrite \/ CheckWrite \/ ReadUidnext \/ WriteUidnext \/ AppendFails
  BY <1>2 DEF Deliver, AppendWrite, CheckWrite, ReadUidnext, WriteUidnext, AppendFails, PassKept,
     passVars, catalogVars
<1>3. CASE CatchUp \/ Materialize \/ RetryFires
  BY <1>3 DEF CatchUp, Materialize, RetryFires, PassStarts, catalogVars
<1>4. ASSUME NEW n, Break(n) \/ Repair(n) PROVE PassKept
  BY <1>4 DEF Break, Repair, PassKept, passVars, catalogVars
<1>5. CASE Pin \/ Unpin \/ UNCHANGED vars
  BY <1>5 DEF Pin, Unpin, vars, PassKept, passVars, catalogVars
<1> QED
  BY <1>1, <1>2, <1>3, <1>4, <1>5 DEF Next, PassStep, RequestStep

LEMMA PassFields ==
  ASSUME IInv
  PROVE  /\ pass.at \in Nat \ {0} /\ pass.end \in Nat /\ pass.held \subseteq Accounts
         /\ Len(journal) \in Nat /\ pass.end <= Len(journal) /\ pass.at <= Len(journal) + 1
         /\ checkpoint \in Nat /\ checkpoint <= Len(journal)
         /\ cursor \in Nat /\ cursor <= Len(journal)
         /\ applied \subseteq Indices
<1>1. pass \in PassType /\ pass.end <= Len(journal) /\ pass.at <= Len(journal) + 1
      /\ cursor \in 0 .. Len(journal)
  BY DEF IInv, PassInv
<1>2. pass.at \in Nat \ {0} /\ pass.end \in Nat /\ pass.held \subseteq Accounts
  BY <1>1 DEF PassType
<1>3. checkpoint \in 0 .. Len(journal) /\ applied \subseteq Indices
  BY DEF IInv, CatalogInv
<1>4. Len(journal) \in Nat
  BY LenProperties DEF IInv, JournalInv
<1> QED
  BY <1>1, <1>2, <1>3, <1>4

LEMMA ScanMoves ==
  ASSUME IInv, SkipRecord \/ HoldRecord \/ ApplyRecord
  PROVE  /\ pass'.at = pass.at + 1 /\ pass'.end = pass.end /\ pass'.kind = pass.kind
         /\ ~PassIdle /\ pass.at <= pass.end /\ UNCHANGED <<holds, cursor, journal>>
         /\ SkipRecord \/ ApplyRecord => pass'.held = pass.held
         /\ HoldRecord => pass'.held = pass.held \cup {"own"}
<1>1. pass \in PassType
  BY DEF IInv, PassInv
<1>2. ~PassIdle /\ pass.at <= pass.end /\ UNCHANGED <<holds, cursor, journal>>
  BY DEF SkipRecord, HoldRecord, ApplyRecord, Scanning
<1>3. /\ SkipRecord \/ ApplyRecord => pass' = [pass EXCEPT !.at = @ + 1]
      /\ HoldRecord => pass' = [pass EXCEPT !.at = @ + 1, !.held = @ \union {"own"}]
  BY DEF SkipRecord, HoldRecord, ApplyRecord
<1> QED
  BY <1>1, <1>2, <1>3 DEF PassType

LEMMA StartFields ==
  ASSUME IInv, NEW k \in {"catchUp", "post", "retry"}, StartPass(k)
  PROVE  /\ PassIdle /\ pass'.kind = k /\ pass'.end = Len(journal)
         /\ pass'.at = (IF Resumes(k) THEN cursor ELSE checkpoint) + 1
         /\ "own" \in pass'.held => k = "post" /\ "own" \in holds
         /\ k = "post" /\ "own" \in holds => "own" \in pass'.held
<1> DEFINE held == (IF k = "post" THEN holds ELSE {})
                     \cup (IF pinned /\ ~Resumes(k) THEN {"other"} ELSE {})
<1>1. /\ PassIdle
      /\ pass' = [kind |-> k, at |-> (IF Resumes(k) THEN cursor ELSE checkpoint) + 1,
                  end |-> Len(journal), held |-> held]
  BY DEF StartPass
<1>2. "own" \in held <=> k = "post" /\ "own" \in holds
  OBVIOUS
<1> HIDE DEF held
<1> QED
  BY <1>1, <1>2

LEMMA RestartFields ==
  ASSUME Crash \/ Rebuild
  PROVE  /\ pass'.kind = "start" /\ pass'.end = Len(journal) /\ pass'.at = checkpoint' + 1
         /\ "own" \notin pass'.held /\ holds' = {} /\ cursor' = 0
         /\ UNCHANGED <<journal, bad, receipts>> /\ request' = NoRequest /\ serving' = FALSE
<1> DEFINE held == IF pinned THEN {"other"} ELSE {}
<1>1. /\ pass' = [NoPass EXCEPT !.kind = "start", !.at = checkpoint' + 1,
                                !.end = Len(journal), !.held = held]
      /\ holds' = {} /\ cursor' = 0
      /\ UNCHANGED <<journal, bad, receipts>> /\ request' = NoRequest /\ serving' = FALSE
  BY DEF Crash, Rebuild, Restart
<1>2. "own" \notin held
  OBVIOUS
<1> HIDE DEF held
<1>3. pass' = [kind |-> "start", at |-> checkpoint' + 1, end |-> Len(journal), held |-> held]
  BY <1>1 DEF NoPass
<1> QED
  BY <1>1, <1>2, <1>3

LEMMA ScanInvStep ==
  ASSUME IInv, ScanInv, [Next]_vars PROVE ScanInv'
<1>1. CASE PassKept
  BY <1>1 DEF PassKept, ScanInv, PassIdle, OwnHeld
<1>2. CASE PassStarts
  <2>1. PICK k \in {"catchUp", "post", "retry"} : StartPass(k)
    BY <1>2 DEF PassStarts
  <2>2. /\ PassIdle /\ pass'.kind = k /\ pass'.end = Len(journal)
        /\ pass'.at = (IF Resumes(k) THEN cursor ELSE checkpoint) + 1
        /\ k = "post" /\ "own" \in holds => "own" \in pass'.held
    BY <2>1, StartFields
  <2>3. applied \subseteq 1 .. pass'.end
    BY <2>2, PassFields DEF Indices
  <2>4. checkpoint < pass'.at
    BY <2>2, PassFields DEF ScanInv, Resumes
  <2>5. "own" \notin pass'.held => 1 .. (pass'.at - 1) \subseteq applied
    BY <2>2, PassFields DEF ScanInv, Resumes
  <2> QED
    BY <1>2, <2>2, <2>3, <2>4, <2>5 DEF PassStarts, ScanInv, PassIdle, OwnHeld
<1>3. CASE SkipRecord \/ HoldRecord
  <2>1. UNCHANGED <<checkpoint, applied>> /\ "own" \in pass'.held
    BY <1>3, ScanMoves DEF SkipRecord, HoldRecord, catalogVars, OwnHeld
  <2>2. checkpoint < pass'.at
    BY <1>3, ScanMoves, PassFields DEF ScanInv
  <2> QED
    BY <1>3, <2>1, <2>2, ScanMoves DEF ScanInv, PassIdle, OwnHeld
<1>4. CASE ApplyRecord
  <2> DEFINE at == pass.at
  <2>1. /\ applied' = applied \cup {at} /\ at \in Nat \ {0}
        /\ checkpoint' \in {checkpoint, at}
        /\ ~OwnHeld /\ ~PassIdle
    BY <1>4, ApplyEffect, PassFields DEF ApplyRecord, Scanning
  <2>2. 1 .. (at - 1) \subseteq applied /\ checkpoint < at /\ applied \subseteq 1 .. pass.end
    BY <2>1 DEF ScanInv
  <2>3. 1 .. at \subseteq applied'
    BY <2>1, <2>2
  <2>4. 1 .. checkpoint' \subseteq applied'
    BY <2>1, <2>3 DEF ScanInv
  <2>5. \A n \in applied' : 1 .. n \subseteq applied'
    BY <2>1, <2>3 DEF ScanInv
  <2>6. checkpoint' < pass'.at /\ applied' \subseteq 1 .. pass'.end
        /\ 1 .. (pass'.at - 1) \subseteq applied'
    <3>1. pass'.at = at + 1 /\ pass'.end = pass.end /\ at <= pass.end
      BY <1>4, ScanMoves
    <3>2. checkpoint \in Nat /\ pass.end \in Nat
      BY PassFields
    <3>3. checkpoint' < pass'.at /\ pass'.at - 1 = at
      BY <2>1, <2>2, <3>1, <3>2
    <3>4. at \in 1 .. pass.end
      BY <2>1, <3>1, <3>2
    <3>5. applied' \subseteq 1 .. pass'.end
      BY <2>1, <2>2, <3>1, <3>4
    <3> QED
      BY <2>3, <3>3, <3>5
  <2>7. cursor > 0 /\ "own" \notin holds => 1 .. cursor \subseteq applied'
    BY <2>1 DEF ScanInv
  <2> QED
    BY <1>4, <2>1, <2>4, <2>5, <2>6, <2>7, ScanMoves DEF ScanInv, PassIdle, OwnHeld
<1>5. CASE FinishPass
  <2>1. /\ UNCHANGED <<checkpoint, applied>> /\ ~PassIdle /\ pass.at > pass.end
        /\ holds' = pass.held /\ pass' = NoPass
        /\ cursor' = IF pass.held = {} THEN 0 ELSE MaxOf(pass.end, pass.at - 1)
    BY <1>5 DEF FinishPass, catalogVars
  <2>2. cursor' \in {0, pass.at - 1}
    BY <2>1, PassFields DEF MaxOf
  <2>3. cursor' > 0 /\ "own" \notin holds' => 1 .. cursor' \subseteq applied
    BY <2>1, <2>2, PassFields DEF ScanInv, OwnHeld
  <2>4. cursor' > 0 => checkpoint <= cursor'
    BY <2>1, <2>2, PassFields DEF ScanInv
  <2> QED
    BY <2>1, <2>3, <2>4 DEF ScanInv, PassIdle, NoPass
<1>6. CASE AbortPass
  <2>1. UNCHANGED <<checkpoint, applied>> /\ cursor' = 0 /\ pass' = NoPass
    BY <1>6 DEF AbortPass, catalogVars
  <2> QED
    BY <2>1 DEF ScanInv, PassIdle, NoPass
<1>7. CASE Crash \/ Rebuild
  <2>1. 1 .. checkpoint' \subseteq applied' /\ applied' \subseteq Indices /\ checkpoint' \in Nat
    BY <1>7, PassFields DEF ScanInv, Crash, Rebuild, catalogVars
  <2>4. \A n \in applied' : 1 .. n \subseteq applied'
    BY <1>7 DEF ScanInv, Crash, Rebuild, catalogVars
  <2>2. /\ checkpoint' < pass'.at /\ applied' \subseteq 1 .. pass'.end
        /\ 1 .. (pass'.at - 1) \subseteq applied'
    <3>1. pass'.end = Len(journal)
      BY <1>7, RestartFields
    <3>2. pass'.at = checkpoint' + 1
      BY <1>7, RestartFields
    <3>3. checkpoint' < pass'.at /\ pass'.at - 1 = checkpoint'
      <4>1. \A c \in Nat : c < c + 1 /\ (c + 1) - 1 = c
        OBVIOUS
      <4>2. checkpoint' \in Nat
        BY <2>1
      <4> QED
        BY <3>2, <4>1, <4>2
    <3>4. applied' \subseteq 1 .. pass'.end
      <4>1. applied' \subseteq Indices
        BY <2>1
      <4> QED
        BY <3>1, <4>1 DEF Indices
    <3>5. 1 .. (pass'.at - 1) \subseteq applied'
      BY <2>1, <3>3
    <3> QED
      BY <3>3, <3>4, <3>5
  <2>3. cursor' = 0 /\ holds' = {}
    BY <1>7, RestartFields
  <2> QED
    BY <2>1, <2>2, <2>3, <2>4 DEF ScanInv
<1> QED
  BY <1>1, <1>2, <1>3, <1>4, <1>5, <1>6, <1>7, PassSteps

(* What an applied record leaves in the catalog, the first time and again. *)
MsgOf(n) == IF journal[n].type \in {"delivered", "appended"} THEN n ELSE journal[n].msg
UidOf(cat, n) == IF journal[n].type = "delivered" THEN cat.uidnext ELSE journal[n].dst

Adds(cat, new, n) ==
  /\ n \notin DOMAIN cat.rows /\ DOMAIN new.rows = DOMAIN cat.rows \cup {n}
  /\ new.rows[n].hidden = 0 /\ new.rows[n].msg = MsgOf(n) /\ new.rows[n].uid = UidOf(cat, n)
  /\ \A r \in DOMAIN cat.rows : cat.rows[r].uid # UidOf(cat, n)
  /\ new.uidnext = MaxOf(cat.uidnext, UidOf(cat, n) + 1)
Retains(cat, new) == DOMAIN new.rows = DOMAIN cat.rows /\ new.uidnext = cat.uidnext

Shape(cat, new, n) ==
  /\ IF journal[n].type \in Creating
     THEN Adds(cat, new, n) \/ (Retains(cat, new) /\ n \in DOMAIN cat.rows)
     ELSE Retains(cat, new)
  /\ \A r \in DOMAIN cat.rows :
       new.rows[r].hidden # cat.rows[r].hidden =>
         /\ journal[n].type \in Hiding /\ cat.rows[r].uid = journal[n].src
         /\ cat.rows[r].hidden = 0 /\ new.rows[r].hidden = n
  /\ journal[n].type \in Hiding =>
       \E r \in DOMAIN cat.rows :
         /\ new.rows[r].uid = journal[n].src /\ new.rows[r].hidden = n
  /\ journal[n].type = "flags" => \E r \in DOMAIN cat.rows : cat.rows[r].uid = journal[n].src

LEMMA InsertedShape ==
  ASSUME NEW cat, NEW new, NEW n, NEW f, journal[n].type \in Creating \ Hiding,
         Inserted(cat, new, n, UidOf(cat, n), MsgOf(n), f)
  PROVE  Shape(cat, new, n)
<1>1. Adds(cat, new, n)
  BY DEF Inserted, Adds, RowsOf
<1>2. \A r \in DOMAIN cat.rows : new.rows[r].hidden = cat.rows[r].hidden
  BY DEF Inserted
<1>3. journal[n].type \in Creating /\ journal[n].type \notin Hiding /\ journal[n].type # "flags"
  BY DEF Creating
<1> QED
  BY <1>1, <1>2, <1>3 DEF Shape

LEMMA FoundShape ==
  ASSUME NEW cat, NEW new, NEW n, journal[n].type \in Creating \ Hiding, Found(cat, new, n)
  PROVE  Shape(cat, new, n)
BY DEF Found, Shape, Retains, Creating, Hiding

LEMMA MovedShape ==
  ASSUME NEW cat, NEW new, NEW n, journal[n].type = "moved", Safe(journal, cat.rows),
         Moved(cat, new, n)
  PROVE  Shape(cat, new, n)
<1>1. PICK mid : Copied(cat, mid, n) /\ Hid(mid, new, n, journal[n].src)
  BY DEF Moved
<1>2. PICK x \in DOMAIN mid.rows :
        /\ new.uidnext = mid.uidnext
        /\ mid.rows[x].uid = journal[n].src /\ mid.rows[x].hidden \in {0, n}
        /\ new.rows[x].hidden = n /\ DOMAIN new.rows = DOMAIN mid.rows
        /\ \A r \in DOMAIN mid.rows :
             /\ new.rows[r].msg = mid.rows[r].msg /\ new.rows[r].uid = mid.rows[r].uid
             /\ r # x => new.rows[r].hidden = mid.rows[r].hidden
  BY <1>1 DEF Hid
<1>3. CASE Found(cat, mid, n)
  BY <1>2, <1>3 DEF Found, Shape, Retains, Creating, Hiding
<1>4. CASE ~Found(cat, mid, n)
  <2> DEFINE rec == journal[n]
  <2>1. /\ Inserted(cat, mid, n, rec.dst, rec.msg, rec.flag)
        /\ \E r \in DOMAIN cat.rows : cat.rows[r].uid = rec.src
    BY <1>1, <1>4 DEF Copied
  <2>2. UidsDiffer(mid.rows)
    BY <2>1, InsertedSafe
  <2>3. /\ n \notin DOMAIN cat.rows /\ DOMAIN mid.rows = DOMAIN cat.rows \cup {n}
        /\ \A r \in DOMAIN cat.rows : mid.rows[r] = cat.rows[r]
        /\ \A r \in DOMAIN cat.rows : cat.rows[r].uid # rec.dst
        /\ mid.rows[n].hidden = 0 /\ mid.rows[n].msg = rec.msg /\ mid.rows[n].uid = rec.dst
        /\ mid.uidnext = MaxOf(cat.uidnext, rec.dst + 1)
    BY <2>1 DEF Inserted, RowsOf
  <2>4. x \in DOMAIN cat.rows /\ x # n
    BY <1>2, <2>1, <2>2, <2>3 DEF UidsDiffer
  <2>5. UidOf(cat, n) = rec.dst /\ MsgOf(n) = rec.msg
    BY DEF UidOf, MsgOf
  <2>6. Adds(cat, new, n)
    BY <1>2, <2>3, <2>4, <2>5 DEF Adds
  <2>7. ASSUME NEW r \in DOMAIN cat.rows, new.rows[r].hidden # cat.rows[r].hidden
        PROVE  cat.rows[r].uid = rec.src /\ cat.rows[r].hidden = 0 /\ new.rows[r].hidden = n
    BY <1>2, <2>3, <2>7
  <2>8. new.rows[x].uid = rec.src /\ new.rows[x].hidden = n
    BY <1>2
  <2>9. rec.type \in Creating /\ rec.type \in Hiding /\ rec.type # "flags"
    BY DEF Creating, Hiding
  <2> QED
    BY <2>4, <2>6, <2>7, <2>8, <2>9 DEF Shape
<1> QED
  BY <1>3, <1>4

LEMMA EffectShape ==
  ASSUME JournalInv, NEW cat, IsCatalog(cat), Safe(journal, cat.rows), NEW n \in Indices,
         NEW new \in Effect(cat, n)
  PROVE  Shape(cat, new, n)
<1> DEFINE rec == journal[n]
<1>1. CASE rec.type = "delivered"
  <2>1. Created(cat, new, n, UidOf(cat, n), MsgOf(n), rec.flag)
    BY <1>1, EffectIs DEF UidOf, MsgOf
  <2> QED
    BY <1>1, <2>1, InsertedShape, FoundShape DEF Created, Creating, Hiding
<1>2. CASE rec.type = "appended"
  <2>1. Created(cat, new, n, UidOf(cat, n), MsgOf(n), rec.flag)
    BY <1>2, EffectIs DEF UidOf, MsgOf
  <2> QED
    BY <1>2, <2>1, InsertedShape, FoundShape DEF Created, Creating, Hiding
<1>3. CASE rec.type = "copied"
  <2>1. Found(cat, new, n) \/ Inserted(cat, new, n, UidOf(cat, n), MsgOf(n), rec.flag)
    BY <1>3, EffectIs DEF Copied, UidOf, MsgOf
  <2> QED
    BY <1>3, <2>1, InsertedShape, FoundShape DEF Creating, Hiding
<1>4. CASE rec.type = "moved"
  BY <1>4, EffectIs, MovedShape
<1>5. CASE rec.type = "expunged"
  <2>1. Hid(cat, new, n, rec.src)
    BY <1>5, EffectIs
  <2>2. PICK x \in DOMAIN cat.rows :
          /\ cat.rows[x].uid = rec.src /\ cat.rows[x].hidden \in {0, n}
          /\ new.rows[x].hidden = n
          /\ \A r \in DOMAIN cat.rows :
               /\ new.rows[r].uid = cat.rows[r].uid
               /\ r # x => new.rows[r].hidden = cat.rows[r].hidden
    BY <2>1 DEF Hid
  <2>3. ASSUME NEW r \in DOMAIN cat.rows, new.rows[r].hidden # cat.rows[r].hidden
        PROVE  cat.rows[r].uid = rec.src /\ cat.rows[r].hidden = 0 /\ new.rows[r].hidden = n
    BY <2>2, <2>3
  <2>4. Retains(cat, new)
    BY <2>1 DEF Hid, Retains
  <2>5. rec.type \notin Creating /\ rec.type \in Hiding /\ rec.type # "flags"
    BY <1>5 DEF Creating, Hiding
  <2>6. new.rows[x].uid = rec.src /\ new.rows[x].hidden = n
    BY <2>2
  <2> QED
    BY <2>3, <2>4, <2>5, <2>6 DEF Shape
<1>6. CASE rec.type = "flags"
  <2>1. Flagged(cat, new, rec.src, rec.flag)
    BY <1>6, EffectIs
  <2> QED
    BY <1>6, <2>1 DEF Flagged, Shape, Retains, Creating, Hiding
<1> QED
  BY <1>1, <1>2, <1>3, <1>4, <1>5, <1>6, RecordFields DEF Types

(* The shape of a step that applies a record.                              *)
LEMMA AppliedShape ==
  ASSUME IInv, SafeInv, ScanInv, ApplyRecord
  PROVE  \E new \in Effect(Catalog, pass.at) :
           /\ rows' = new.rows /\ uidnext' = new.uidnext
           /\ IsCatalog(Catalog) /\ Catalog.rows = rows /\ Catalog.uidnext = uidnext
           /\ Shape(Catalog, new, pass.at) /\ Preserved(rows, rows')
           /\ pass.at \in Indices /\ UNCHANGED journal
           /\ applied' = applied \cup {pass.at}
           /\ pass.at \notin applied => applied \subseteq 1 .. (pass.at - 1)
           /\ 1 .. (pass.at - 1) \subseteq applied
<1>1. PICK new \in Effect(Catalog, pass.at) : rows' = new.rows /\ uidnext' = new.uidnext
  BY ApplyEffect
<1>2. /\ IsCatalog(Catalog) /\ Catalog.rows = rows /\ Catalog.uidnext = uidnext
      /\ pass.at \in Indices /\ UNCHANGED journal /\ applied' = applied \cup {pass.at}
  BY ApplyEffect DEF Catalog
<1>3. Shape(Catalog, new, pass.at)
  BY <1>1, <1>2, EffectShape DEF IInv, SafeInv
<1>4. Preserved(rows, rows')
  BY <1>1, <1>2, EffectPreserves DEF IInv
<1>5. 1 .. (pass.at - 1) \subseteq applied
  BY DEF ScanInv, ApplyRecord, Scanning
<1>6. ASSUME pass.at \notin applied, NEW n \in applied PROVE n \in 1 .. (pass.at - 1)
  <2>1. n \in Nat \ {0} /\ pass.at \in Nat \ {0}
    BY PassFields DEF Indices
  <2>2. 1 .. n \subseteq applied
    BY DEF ScanInv
  <2>3. ~(pass.at <= n)
    BY <1>6, <2>1, <2>2
  <2> QED
    BY <2>1, <2>3
<1> QED
  BY <1>1, <1>2, <1>3, <1>4, <1>5, <1>6

(* Applying a record again changes nothing but flags.                      *)
LEMMA ReappliedRows ==
  ASSUME SafeInv, AppliedInv, NEW n \in applied, n # 0, NEW new,
         Shape(Catalog, new, n), Preserved(rows, new.rows), Catalog.rows = rows
  PROVE  /\ Retains(Catalog, new)
         /\ \A r \in DOMAIN rows : /\ new.rows[r].uid = rows[r].uid
                                   /\ new.rows[r].msg = rows[r].msg
                                   /\ new.rows[r].hidden = rows[r].hidden
<1>1. Effected(n)
  BY DEF AppliedInv
<1>2. Retains(Catalog, new)
  BY <1>1 DEF Shape, Adds, Effected
<1>3. ASSUME NEW r \in DOMAIN rows PROVE new.rows[r].hidden = rows[r].hidden
  <2>1. CASE journal[n].type \in Hiding
    <3>1. PICK x \in DOMAIN rows : rows[x].uid = journal[n].src /\ rows[x].hidden = n
      BY <1>1, <2>1 DEF Effected
    <3>2. r = x \/ rows[r].uid # journal[n].src
      BY <3>1 DEF SafeInv, Safe, UidsDiffer
    <3> QED
      BY <3>1, <3>2 DEF Shape
  <2>2. CASE journal[n].type \notin Hiding
    BY <2>2 DEF Shape
  <2> QED
    BY <2>1, <2>2
<1> QED
  BY <1>2, <1>3 DEF Preserved

LEMMA AppliedInvStep ==
  ASSUME IInv, SafeInv, ScanInv, AppliedInv, [Next]_vars PROVE AppliedInv'
<1>1. Grown /\ applied \subseteq Indices
  BY JournalStep, PassFields DEF IInv
<1>2. ASSUME UNCHANGED <<rows, applied>> PROVE AppliedInv'
  <2>1. \A n \in applied : journal'[n] = journal[n]
    BY <1>1 DEF Grown
  <2> QED
    BY <1>2, <2>1 DEF AppliedInv, Effected, Removes
<1>3. CASE ApplyRecord
  <2>1. PICK new, at : /\ rows' = new.rows /\ Catalog.rows = rows
                       /\ Shape(Catalog, new, at) /\ Preserved(rows, rows')
                       /\ at \in Indices /\ UNCHANGED journal
                       /\ applied' = applied \cup {at}
                       /\ at \notin applied => applied \subseteq 1 .. (at - 1)
    BY <1>3, AppliedShape
  <2>2. \A n \in applied : n # 0
    BY <1>1 DEF Indices
  <2>3. ASSUME NEW n \in applied PROVE Effected(n)'
    <3>1. Effected(n)
      BY DEF AppliedInv
    <3> QED
      BY <2>1, <2>2, <3>1 DEF Effected, Preserved
  <2>4. Effected(at)'
    BY <2>1 DEF Shape, Adds, Retains, Effected, Preserved
  <2>5. ASSUME NEW r \in DOMAIN rows'
        PROVE  /\ r \in applied' /\ journal[r].type \in Creating
               /\ rows'[r].hidden # 0 => /\ rows'[r].hidden > r
                                         /\ rows'[r].hidden \in applied'
                                         /\ Removes(rows'[r].hidden, rows'[r].uid)
    <3>1. CASE r \notin DOMAIN rows
      <4>1. r = at /\ journal[at].type \in Creating /\ rows'[r].hidden = 0
        BY <2>1, <2>5, <3>1 DEF Shape, Adds, Retains
      <4> QED
        BY <2>1, <4>1
    <3>2. CASE r \in DOMAIN rows /\ rows'[r].hidden = rows[r].hidden
      BY <2>1, <3>2 DEF AppliedInv, Preserved
    <3>3. CASE r \in DOMAIN rows /\ rows'[r].hidden # rows[r].hidden
      <4>1. r \in applied /\ journal[r].type \in Creating
        BY <3>3 DEF AppliedInv
      <4>2. journal[at].type \in Hiding /\ rows[r].uid = journal[at].src /\ rows[r].hidden = 0
            /\ rows'[r].hidden = at
        BY <2>1, <3>3 DEF Shape
      <4>3. at \notin applied
        <5>1. SUFFICES ASSUME at \in applied PROVE FALSE
          OBVIOUS
        <5>2. PICK x \in DOMAIN rows : rows[x].uid = journal[at].src /\ rows[x].hidden = at
          BY <4>2, <5>1 DEF AppliedInv, Effected
        <5>3. x = r
          BY <3>3, <4>2, <5>2 DEF SafeInv, Safe, UidsDiffer
        <5> QED
          BY <2>2, <4>2, <5>1, <5>2, <5>3
      <4>4. at > r
        BY <2>1, <4>1, <4>3 DEF Indices
      <4>5. rows'[r].uid = rows[r].uid
        BY <2>1, <3>3 DEF Preserved
      <4> QED
        BY <2>1, <4>1, <4>2, <4>4, <4>5 DEF Removes
    <3> QED
      BY <3>1, <3>2, <3>3
  <2> QED
    BY <2>1, <2>3, <2>4, <2>5 DEF AppliedInv, Removes
<1>4. CASE Rebuild
  <2>1. rows' = EmptyCatalog.rows /\ DOMAIN EmptyCatalog.rows = {} /\ applied' = {}
    BY <1>4, NoRows DEF Rebuild
  <2> QED
    BY <2>1 DEF AppliedInv
<1> QED
  BY <1>2, <1>3, <1>4, StepKinds DEF CatalogSteps, catalogVars, WriteUidnext

LEMMA EffectFlags ==
  ASSUME JournalInv, NEW cat, IsCatalog(cat), Safe(journal, cat.rows), NEW n \in Indices,
         NEW new \in Effect(cat, n), NEW r \in DOMAIN cat.rows
  PROVE  new.rows[r].flag =
           IF journal[n].type = "flags" /\ cat.rows[r].uid = journal[n].src
           THEN journal[n].flag ELSE cat.rows[r].flag
<1> DEFINE rec == journal[n]
<1>0. ASSUME \/ Found(cat, new, n)
             \/ \E u, m, f : Inserted(cat, new, n, u, m, f)
      PROVE  new.rows[r].flag = cat.rows[r].flag
  BY <1>0 DEF Inserted, Found
<1>1. CASE rec.type \in {"delivered", "appended"}
  <2>1. Found(cat, new, n) \/ \E u, m, f : Inserted(cat, new, n, u, m, f)
    BY <1>1, EffectIs DEF Created
  <2> QED
    BY <1>0, <1>1, <2>1
<1>2. CASE rec.type = "copied"
  <2>1. Found(cat, new, n) \/ \E u, m, f : Inserted(cat, new, n, u, m, f)
    BY <1>2, EffectIs DEF Copied
  <2> QED
    BY <1>0, <1>2, <2>1
<1>3. CASE rec.type = "moved"
  <2>1. PICK mid : Copied(cat, mid, n) /\ Hid(mid, new, n, rec.src)
    BY <1>3, EffectIs DEF Moved
  <2>2. r \in DOMAIN mid.rows /\ mid.rows[r].flag = cat.rows[r].flag
    BY <2>1 DEF Copied, Inserted, Found
  <2> QED
    BY <1>3, <2>1, <2>2 DEF Hid
<1>4. CASE rec.type = "expunged"
  <2>1. Hid(cat, new, n, rec.src)
    BY <1>4, EffectIs
  <2> QED
    BY <1>4, <2>1 DEF Hid
<1>5. CASE rec.type = "flags"
  <2>1. PICK x \in DOMAIN cat.rows :
          /\ cat.rows[x].uid = rec.src /\ new.rows[x].flag = rec.flag
          /\ r # x => new.rows[r].flag = cat.rows[r].flag
    BY <1>5, EffectIs DEF Flagged
  <2>2. cat.rows[r].uid = rec.src => r = x
    BY <2>1 DEF Safe, UidsDiffer
  <2> QED
    BY <1>5, <2>1, <2>2
<1> QED
  BY <1>1, <1>2, <1>3, <1>4, <1>5, RecordFields DEF Types

LEMMA TombstoneApplies ==
  ASSUME NEW cat, NEW n, NEW u, NEW r \in DOMAIN cat.rows, cat.rows[r].uid = u,
         cat.rows[r].hidden \in {0, n}
  PROVE  Tombstone(cat, n, u) # {}
<1>1. [cat EXCEPT !.rows[r].hidden = n] \in Tombstone(cat, n, u)
  BY DEF Tombstone, RowsOf
<1> QED
  BY <1>1

LEMMA SetFlagApplies ==
  ASSUME NEW cat, NEW u, NEW f, NEW r \in DOMAIN cat.rows, cat.rows[r].uid = u
  PROVE  SetFlag(cat, u, f) # {}
<1>1. [cat EXCEPT !.rows[r].flag = f] \in SetFlag(cat, u, f)
  BY DEF SetFlag, RowsOf
<1> QED
  BY <1>1

(* Whatever the catalog contains can be applied again.                     *)
LEMMA AppliesAgain ==
  ASSUME IInv, AppliedInv, NEW n \in applied PROVE Effect(Catalog, n) # {}
<1> DEFINE cat == Catalog
           rec == journal[n]
<1>1. cat.rows = rows /\ n \in Indices /\ n \in Nat \ {0}
  BY PassFields DEF Catalog, Indices
<1>2. Effected(n)
  BY DEF AppliedInv
<1>3. CASE rec.type \in Creating
  <2>1. n \in DOMAIN cat.rows /\ (cat.rows[n].hidden # 0 => cat.rows[n].hidden > n)
    BY <1>1, <1>2, <1>3 DEF Effected, AppliedInv
  <2>2. cat.rows[n].hidden \notin 1 .. n
    BY <1>1, <2>1
  <2>3. Existing(cat, n) = {cat}
    BY <2>2 DEF Existing
  <2>4. CopyTo(cat, n, rec) = {cat}
    BY <2>1, <2>3 DEF CopyTo
  <2>5. CASE rec.type \in {"delivered", "appended"}
    BY <2>1, <2>3, <2>5 DEF Effect
  <2>6. CASE rec.type = "copied"
    BY <2>4, <2>6 DEF Effect
  <2>7. CASE rec.type = "moved"
    <3>1. PICK r \in DOMAIN cat.rows : cat.rows[r].uid = rec.src /\ cat.rows[r].hidden = n
      BY <1>1, <1>2, <2>7 DEF Effected, Hiding
    <3>2. Tombstone(cat, n, rec.src) # {}
      BY <3>1, TombstoneApplies
    <3>3. Effect(cat, n) = UNION {Tombstone(c, n, rec.src) : c \in CopyTo(cat, n, rec)}
      BY <2>7 DEF Effect
    <3> QED
      BY <2>4, <3>2, <3>3
  <2> QED
    BY <1>3, <2>5, <2>6, <2>7 DEF Creating
<1>4. CASE rec.type = "expunged"
  <2>1. PICK r \in DOMAIN cat.rows : cat.rows[r].uid = rec.src /\ cat.rows[r].hidden = n
    BY <1>1, <1>2, <1>4 DEF Effected, Hiding
  <2>2. Effect(cat, n) = Tombstone(cat, n, rec.src)
    BY <1>4 DEF Effect
  <2> QED
    BY <2>1, <2>2, TombstoneApplies
<1>5. CASE rec.type = "flags"
  <2>1. PICK r \in DOMAIN cat.rows : cat.rows[r].uid = rec.src
    BY <1>1, <1>2, <1>5 DEF Effected
  <2>2. Effect(cat, n) = SetFlag(cat, rec.src, rec.flag)
    BY <1>5 DEF Effect
  <2> QED
    BY <2>1, <2>2, SetFlagApplies
<1> QED
  BY <1>1, <1>3, <1>4, <1>5, RecordFields DEF IInv, Types, Creating

(* What a step spends, and what it breaks.                                 *)
LEMMA TroubleKinds ==
  ASSUME [Next]_vars
  PROVE  /\ UNCHANGED spent \/ \E what \in AllTroubles : Happens(what)
         /\ bad' \subseteq bad \/ Happens("breaks")
<1>1. CASE PassStep
  BY <1>1 DEF PassStep, SkipRecord, HoldRecord, ApplyRecord, FinishPass, AbortPass, AllTroubles
<1>2. ASSUME NEW t, NEW u, NEW f, BeginUpdate(t, u, f) \/ BeginWrite(t, u)
      PROVE  UNCHANGED <<spent, bad>>
  BY <1>2 DEF BeginUpdate, BeginWrite
<1>3. CASE Deliver \/ AppendWrite \/ CatchUp \/ CheckWrite \/ ReadUidnext \/ WriteUidnext
  BY <1>3 DEF Deliver, AppendWrite, CatchUp, CheckWrite, ReadUidnext, WriteUidnext
<1>4. CASE Materialize \/ RetryFires \/ AppendFails \/ Pin \/ Unpin \/ UNCHANGED vars
  BY <1>4 DEF Materialize, RetryFires, AppendFails, Pin, Unpin, vars, AllTroubles
<1>5. ASSUME NEW n, Break(n) \/ Repair(n)
      PROVE  /\ UNCHANGED spent \/ Happens("breaks")
             /\ bad' \subseteq bad \/ Happens("breaks")
  BY <1>5 DEF Break, Repair
<1>6. CASE Crash \/ Rebuild
  BY <1>6 DEF Crash, Rebuild, Restart, AllTroubles
<1> QED
  BY <1>1, <1>2, <1>3, <1>4, <1>5, <1>6 DEF Next, RequestStep, AllTroubles

LEMMA SpentGrows ==
  ASSUME IInv, [Next]_vars
  PROVE  /\ \A w \in AllTroubles : spent[w] \in Nat /\ spent'[w] \in Nat /\ spent[w] <= spent'[w]
         /\ spent'["breaks"] = 0 => bad' \subseteq bad
         /\ \A w \in AllTroubles : Happens(w) => spent'[w] > 0
<1>1. spent \in SpentType /\ spent' \in SpentType
  BY SpentStep DEF IInv, RestInv
<1>2. \A w \in AllTroubles : spent[w] \in Nat /\ spent'[w] \in Nat
  BY <1>1 DEF SpentType, AllTroubles
<1>3. ASSUME NEW what \in AllTroubles, Happens(what)
      PROVE  spent'[what] > 0 /\ \A w \in AllTroubles : spent[w] <= spent'[w]
  <2>1. /\ spent'[what] = spent[what] + 1
        /\ \A w \in AllTroubles \ {what} : spent'[w] = spent[w]
    BY <1>1, <1>3, HappensSpends DEF AllTroubles
  <2> QED
    BY <1>2, <2>1
<1>4. ASSUME UNCHANGED spent PROVE \A w \in AllTroubles : spent[w] <= spent'[w]
  BY <1>2, <1>4
<1>5. Happens("breaks") => spent'["breaks"] > 0
  BY <1>3 DEF AllTroubles
<1> QED
  BY <1>2, <1>3, <1>4, <1>5, TroubleKinds

(* Records are applied in order, without gaps.                             *)
LEMMA AppliedBefore ==
  ASSUME IInv, ScanInv, NEW a \in Nat \ {0}, a \notin applied, NEW n \in applied
  PROVE  n < a
<1>1. n \in Nat \ {0}
  BY PassFields DEF Indices
<1>2. 1 .. n \subseteq applied
  BY DEF ScanInv
<1>3. ~(a <= n)
  BY <1>1, <1>2
<1> QED
  BY <1>1, <1>3

LEMMA FlagsInvStep ==
  ASSUME IInv, SafeInv, ScanInv, AppliedInv, FlagsInv, [Next]_vars PROVE FlagsInv'
<1> SUFFICES ASSUME spent'.breaks = 0, spent'.aborts = 0
             PROVE  /\ bad' = {}
                    /\ \A r \in DOMAIN rows' : \A n \in applied' :
                         Newest(r, n)' => \/ rows'[r].flag = journal'[n].flag
                                          \/ ~PassIdle' /\ ~OwnHeld' /\ pass'.at <= n
  BY DEF FlagsInv
<1>1. /\ spent.breaks = 0 /\ spent.aborts = 0 /\ bad' \subseteq bad /\ ~AbortPass
  <2>1. spent["breaks"] <= spent'["breaks"] /\ spent["aborts"] <= spent'["aborts"]
        /\ spent["breaks"] \in Nat /\ spent["aborts"] \in Nat
    BY SpentGrows DEF AllTroubles
  <2>2. Happens("aborts") => spent'["aborts"] > 0
    BY SpentGrows DEF AllTroubles
  <2>3. AbortPass => Happens("aborts")
    BY DEF AbortPass
  <2> QED
    BY <2>1, <2>2, <2>3, SpentGrows
<1>2. /\ bad = {} /\ bad' = {}
      /\ \A r \in DOMAIN rows : \A n \in applied :
           Newest(r, n) => \/ rows[r].flag = journal[n].flag
                           \/ ~PassIdle /\ ~OwnHeld /\ pass.at <= n
  BY <1>1 DEF FlagsInv
<1>3. Grown /\ applied \subseteq Indices /\ \A n \in applied : n \in Nat \ {0}
  BY JournalStep, PassFields DEF IInv, Indices
<1>4. SUFFICES ASSUME NEW r \in DOMAIN rows', NEW n \in applied', Newest(r, n)',
                      rows'[r].flag # journal'[n].flag
               PROVE  ~PassIdle' /\ ~OwnHeld' /\ pass'.at <= n
  BY <1>2
<1>5. CASE ApplyRecord
  <2>1. PICK new, at :
          /\ at = pass.at /\ new \in Effect(Catalog, at) /\ rows' = new.rows
          /\ IsCatalog(Catalog) /\ Catalog.rows = rows
          /\ Shape(Catalog, new, at) /\ Preserved(rows, rows') /\ at \in Indices
          /\ UNCHANGED journal /\ applied' = applied \cup {at}
    BY <1>5, AppliedShape
  <2>2. ~PassIdle' /\ ~OwnHeld' /\ pass'.at = at + 1
    BY <1>5, <2>1, ScanMoves DEF ApplyRecord, OwnHeld, PassIdle
  <2>3. at \in Nat \ {0} /\ n \in Nat \ {0} /\ at \in applied'
    BY <1>3, <2>1 DEF Indices
  <2>4. n > r /\ \A m \in applied' : journal[m].type = "flags" /\ journal[m].src = rows'[r].uid
                                       => m <= n
    BY <1>4, <2>1 DEF Newest
  <2>5. journal[n].type = "flags" /\ journal[n].src = rows'[r].uid
    BY <1>4, <2>1 DEF Newest
  <2>6. r \in DOMAIN rows
    <3>1. SUFFICES ASSUME r \notin DOMAIN rows PROVE FALSE
      OBVIOUS
    <3>2. r = at /\ journal[at].type \in Creating
      BY <2>1, <3>1 DEF Shape, Adds, Retains
    <3>3. at \notin applied
      BY <3>1, <3>2 DEF AppliedInv, Effected
    <3>4. n = at \/ n < at
      BY <2>1, <2>3, <3>3, AppliedBefore
    <3> QED
      BY <2>3, <2>4, <3>2, <3>4
  <2>7. rows'[r].uid = rows[r].uid
    BY <2>1, <2>6 DEF Preserved
  <2>8. rows'[r].flag = IF journal[at].type = "flags" /\ rows[r].uid = journal[at].src
                        THEN journal[at].flag ELSE rows[r].flag
    <3>1. Safe(journal, Catalog.rows)
      BY <2>1 DEF SafeInv
    <3>2. r \in DOMAIN Catalog.rows
      BY <2>1, <2>6
    <3>3. JournalInv
      BY DEF IInv
    <3>4. new.rows[r].flag =
            IF journal[at].type = "flags" /\ Catalog.rows[r].uid = journal[at].src
            THEN journal[at].flag ELSE Catalog.rows[r].flag
      BY <2>1, <3>1, <3>2, <3>3, EffectFlags
    <3> QED
      BY <2>1, <3>4
  <2>9. n # at
    BY <1>4, <2>1, <2>5, <2>7, <2>8
  <2>10. CASE n < at
    <3>1. ~(journal[at].type = "flags" /\ rows[r].uid = journal[at].src)
      BY <2>3, <2>4, <2>7, <2>10
    <3>2. rows[r].flag # journal[n].flag
      BY <1>4, <2>1, <2>8, <3>1
    <3>3. n \in applied /\ Newest(r, n)
      BY <2>1, <2>4, <2>5, <2>7, <2>9 DEF Newest
    <3>4. at <= n
      BY <1>2, <2>1, <2>6, <3>2, <3>3
    <3> QED
      BY <2>3, <2>10, <3>4
  <2> QED
    BY <2>2, <2>3, <2>9, <2>10
<1>6. CASE Rebuild
  BY <1>6, NoRows DEF Rebuild
<1>7. CASE UNCHANGED <<rows, applied>>
  <2>1. n \in applied /\ r \in DOMAIN rows /\ Newest(r, n) /\ rows[r].flag # journal[n].flag
    BY <1>3, <1>4, <1>7 DEF Newest, Grown
  <2>2. ~PassIdle /\ ~OwnHeld /\ pass.at <= n
    BY <1>2, <2>1
  <2>3. CASE PassKept
    BY <2>2, <2>3 DEF PassKept, PassIdle, OwnHeld
  <2>4. CASE PassStarts \/ SkipRecord
    BY <2>2, <2>4 DEF PassStarts, StartPass, SkipRecord
  <2>5. CASE HoldRecord
    <3>1. Effect(Catalog, pass.at) = {}
      BY <1>2, <2>5 DEF HoldRecord, Outcome
    <3>2. pass.at \notin applied
      BY <3>1, AppliesAgain
    <3>3. n < pass.at /\ pass.at \in Nat
      BY <2>1, <3>2, PassFields, AppliedBefore
    <3> QED
      BY <1>3, <2>1, <2>2, <3>3
  <2>6. CASE FinishPass
    <3>1. applied \subseteq 1 .. pass.end /\ pass.at > pass.end
      BY <2>2, <2>6 DEF ScanInv, FinishPass
    <3> QED
      BY <2>1, <2>2, <3>1, PassFields
  <2>7. CASE Crash
    <3>1. pass'.kind = "start" /\ "own" \notin pass'.held /\ pass'.at = checkpoint' + 1
      BY <2>7, RestartFields
    <3>2. checkpoint' = checkpoint /\ checkpoint < pass.at
      BY <2>2, <2>7 DEF Crash, catalogVars, ScanInv
    <3>3. pass'.at <= n
      BY <1>3, <2>1, <2>2, <3>1, <3>2, PassFields
    <3> QED
      BY <3>1, <3>3 DEF PassIdle, OwnHeld
  <2> QED
    BY <1>1, <1>5, <1>6, <2>3, <2>4, <2>5, <2>6, <2>7, PassSteps
<1> QED
  BY <1>5, <1>6, <1>7, StepKinds DEF CatalogSteps, catalogVars, WriteUidnext

LEMMA ReplayInvariant == Spec => [](ScanInv /\ AppliedInv /\ FlagsInv)
<1>1. Init => ScanInv /\ AppliedInv /\ FlagsInv
  <2> SUFFICES ASSUME Init PROVE ScanInv /\ AppliedInv /\ FlagsInv
    OBVIOUS
  <2>1. DOMAIN rows = {} /\ applied = {} /\ bad = {} /\ checkpoint = 0 /\ cursor = 0
        /\ pass.kind = "none"
    BY NoRows DEF Init, NoPass
  <2> QED
    BY <2>1 DEF ScanInv, AppliedInv, FlagsInv, PassIdle
<1>2. IInv /\ SafeInv /\ (ScanInv /\ AppliedInv /\ FlagsInv) /\ [Next]_vars
        => (ScanInv /\ AppliedInv /\ FlagsInv)'
  BY ScanInvStep, AppliedInvStep, FlagsInvStep
<1> QED
  BY <1>1, <1>2, Invariant, SafeInvariant, PTL DEF Spec

(* While no object breaks and no pass is aborted, every pass ends with the *)
(* flags of the newest updates, however many older updates it applied      *)
(* again: whatever it starts from is contained in the catalog, so that it  *)
(* reaches the newest one as well, or a crash makes another pass do so.    *)
THEOREM FlagsFollowJournalCorrect == Spec => []FlagsFollowJournal
<1>1. FlagsInv => FlagsFollowJournal
  BY DEF FlagsInv, FlagsFollowJournal, NothingHeld, Newest
<1> QED
  BY <1>1, ReplayInvariant, PTL

-----------------------------------------------------------------------------
(* What a reserved UID rests on.                                           *)

Answering == request.pc \in {"materialize", "materializing"}

(* Which pass a request waits for; the daemon answers once it caught up.   *)
PassWork ==
  /\ pass.kind = "post" => request.pc = "materializing" /\ pass.end = Len(journal)
  /\ pass.kind = "catchUp" => request.pc = "catching up"
  /\ pass.kind = "start" => pass.end = Len(journal)
  /\ serving <=> pass.kind # "start"
  /\ ~serving => request.pc = "idle"

(* What a request has come to at every statement.                          *)
AskWork ==
  /\ request.pc = "idle" => request.dst = 0
  /\ request.pc \in {"catch up", "catching up", "check", "read uidnext", "write uidnext"}
       => request.type \in Reserving
  /\ request.pc = "append" => /\ request.type \in Reserving \cup {"expunged", "flags"}
                              /\ request.dst > 0 => request.type \in Reserving
  /\ Answering => /\ Len(journal) > 0
                  /\ request.dst > 0 => /\ request.src = Len(journal)
                                        /\ journal[Len(journal)].dst = request.dst
                                        /\ journal[Len(journal)].type \in Reserving

WorkInv == PassWork /\ AskWork

(* The membership a request saw.                                           *)
Sees(rws, u) == \E r \in DOMAIN rws : rws[r].uid = u /\ rws[r].hidden = 0
SeesMessage(rws, u, m) ==
  \E r \in DOMAIN rws : rws[r].uid = u /\ rws[r].hidden = 0 /\ rws[r].msg = m

LEMMA GotoFields ==
  ASSUME IInv, NEW pc, Goto(pc)
  PROVE  /\ request'.pc = pc /\ request'.type = request.type /\ request'.src = request.src
         /\ request'.dst = request.dst /\ request'.msg = request.msg
<1>1. request \in RequestType /\ request' = [request EXCEPT !.pc = pc]
  BY DEF IInv, RequestInv, Goto
<1> QED
  BY <1>1 DEF RequestType

LEMMA BeginUpdateFields ==
  ASSUME IInv, NEW type, NEW u, NEW f, BeginUpdate(type, u, f)
  PROVE  /\ request'.pc = "append" /\ request'.type = type /\ request'.src = u
         /\ request'.dst = 0 /\ Sees(rows, u)
<1>1. request' = [pc |-> "append", type |-> type, src |-> u, dst |-> 0, msg |-> 0, flag |-> f]
  BY DEF BeginUpdate, NoRequest
<1>2. PICK r \in VisibleRow(Catalog, u) : TRUE
  BY DEF BeginUpdate, CheckedUid
<1>3. Sees(rows, u)
  BY <1>2, VisibleFields DEF Sees
<1> QED
  BY <1>1, <1>3

LEMMA BeginWriteFields ==
  ASSUME NEW type, NEW u, BeginWrite(type, u)
  PROVE  request'.pc = "catch up" /\ request'.type = type /\ request'.dst = 0
BY DEF BeginWrite, NoRequest

LEMMA NoRequestFields == NoRequest.pc = "idle" /\ NoRequest.dst = 0
BY DEF NoRequest

LEMMA CheckFields ==
  ASSUME IInv, CheckWrite
  PROVE  \/ request' = NoRequest
         \/ /\ request'.pc = "read uidnext" /\ request'.type = request.type
            /\ request'.type # "appended" => SeesMessage(rows, request'.src, request'.msg)
<1>1. CASE request.type = "appended" /\ Goto("read uidnext")
  BY <1>1, GotoFields
<1>2. ASSUME NEW r \in VisibleRow(Catalog, request.src),
             request' = [request EXCEPT !.pc = "read uidnext", !.msg = rows[r].msg,
                                        !.flag = rows[r].flag]
      PROVE  /\ request'.pc = "read uidnext" /\ request'.type = request.type
             /\ SeesMessage(rows, request'.src, request'.msg)
  <2>1. request \in RequestType
    BY DEF IInv, RequestInv
  <2>2. /\ request'.pc = "read uidnext" /\ request'.type = request.type
        /\ request'.src = request.src /\ request'.msg = rows[r].msg
    BY <1>2, <2>1 DEF RequestType
  <2>3. SeesMessage(rows, request.src, rows[r].msg)
    BY VisibleFields DEF SeesMessage
  <2> QED
    BY <2>2, <2>3
<1> QED
  BY <1>1, <1>2 DEF CheckWrite

LEMMA ReadFields ==
  ASSUME IInv, ReadUidnext
  PROVE  /\ request'.pc = "write uidnext" /\ request'.type = request.type
         /\ request'.src = request.src /\ request'.dst = uidnext /\ request'.msg = request.msg
<1>1. request \in RequestType
      /\ request' = [request EXCEPT !.pc = "write uidnext", !.dst = uidnext]
  BY DEF IInv, RequestInv, ReadUidnext
<1> QED
  BY <1>1 DEF RequestType

LEMMA AppendFields ==
  ASSUME IInv, AppendWrite
  PROVE  /\ request'.pc = "materialize" /\ request'.src = Len(journal')
         /\ request'.dst = request.dst /\ request.pc = "append"
         /\ Len(journal') = Len(journal) + 1 /\ Grown
         /\ journal'[Len(journal')].type = request.type
         /\ journal'[Len(journal')].src = request.src
         /\ journal'[Len(journal')].dst = request.dst
         /\ journal'[Len(journal')].msg = request.msg
<1>1. request \in RequestType /\ JournalInv /\ RequestInv
      /\ request' = [request EXCEPT !.pc = "materialize", !.src = Len(journal')]
  BY DEF IInv, RequestInv, AppendWrite
<1>2. request'.pc = "materialize" /\ request'.src = Len(journal') /\ request'.dst = request.dst
  BY <1>1 DEF RequestType
<1>3. journal' = Append(journal, Asked) /\ request.pc = "append"
  BY DEF AppendWrite, Asked, At
<1>4. Asked \in Record /\ (Asked.type \in Reserving => Asked.dst > 0)
  BY <1>1, <1>3, AskedIsRecord DEF RequestInv
<1>5. Grown /\ Len(journal') = Len(journal) + 1 /\ journal'[Len(journal) + 1] = Asked
  BY <1>1, <1>3, <1>4, AppendGrows
<1> QED
  BY <1>1, <1>2, <1>3, <1>5, AskedIsRecord

LEMMA DeliverFields ==
  ASSUME IInv, Deliver
  PROVE  /\ request'.pc = "materialize" /\ request'.dst = request.dst
         /\ request.pc = "idle" /\ serving
         /\ Len(journal') = Len(journal) + 1 /\ Grown
         /\ journal'[Len(journal')].type = "delivered"
<1> DEFINE rec == [type |-> "delivered", src |-> 0, dst |-> 0, msg |-> 0, flag |-> FALSE]
<1>1. rec \in Record /\ rec.type = "delivered" /\ rec.type \notin Reserving
  BY DEF Record, Types, Reserving
<1>2. journal' = Append(journal, rec) /\ Goto("materialize") /\ request.pc = "idle" /\ serving
  BY DEF Deliver, Free
<1> HIDE DEF rec
<1>3. Grown /\ Len(journal') = Len(journal) + 1 /\ journal'[Len(journal) + 1] = rec
  BY <1>1, <1>2, AppendGrows DEF IInv
<1> QED
  BY <1>1, <1>2, <1>3, GotoFields

(* The steps of a request that no pass takes part in.                      *)
Asks ==
  \/ Deliver \/ CheckWrite \/ ReadUidnext \/ WriteUidnext \/ AppendWrite \/ AppendFails
  \/ \E t \in {"expunged", "flags"} : \E u, f : BeginUpdate(t, u, f)
  \/ \E t \in Reserving : \E u : BeginWrite(t, u)

LEMMA Steps ==
  ASSUME [Next]_vars
  PROVE  \/ Asks \/ CatchUp \/ Materialize \/ RetryFires
         \/ SkipRecord \/ HoldRecord \/ ApplyRecord \/ FinishPass \/ AbortPass
         \/ Crash \/ Rebuild
         \/ PassKept /\ UNCHANGED <<journal, catalogVars, receipts, serving, request>>
<1>1. ASSUME NEW t, NEW u, NEW f, BeginUpdate(t, u, f), t \in {"expunged", "flags"} PROVE Asks
  BY <1>1 DEF Asks
<1>2. ASSUME NEW t \in Reserving, NEW u, BeginWrite(t, u) PROVE Asks
  BY <1>2 DEF Asks
<1>3. CASE Deliver \/ CheckWrite \/ ReadUidnext \/ WriteUidnext \/ AppendWrite \/ AppendFails
  BY <1>3 DEF Asks
<1>4. CASE RequestStep
  BY <1>1, <1>2, <1>3, <1>4 DEF RequestStep, Reserving
<1>5. ASSUME NEW n, Break(n) \/ Repair(n)
      PROVE  PassKept /\ UNCHANGED <<journal, catalogVars, receipts, serving, request>>
  BY <1>5 DEF Break, Repair, PassKept, passVars, catalogVars
<1>6. ASSUME Pin \/ Unpin \/ UNCHANGED vars
      PROVE  PassKept /\ UNCHANGED <<journal, catalogVars, receipts, serving, request>>
  BY <1>6 DEF Pin, Unpin, vars, PassKept, passVars, catalogVars
<1> QED
  BY <1>4, <1>5, <1>6 DEF Next, PassStep

LEMMA AskKeeps ==
  ASSUME IInv, PassWork, Asks
  PROVE  /\ UNCHANGED <<pass, holds, cursor, checkpoint, rows, applied, receipts, serving>>
         /\ request.pc \notin {"catching up", "materialize", "materializing"}
         /\ request'.pc \notin {"catching up", "materializing"}
         /\ serving
<1> USE DEF passVars, catalogVars
<1>1. ASSUME NEW t, NEW u, NEW f, BeginUpdate(t, u, f) \/ BeginWrite(t, u)
      PROVE  /\ UNCHANGED <<pass, holds, cursor, checkpoint, rows, applied, receipts, serving>>
             /\ request.pc = "idle" /\ serving /\ request'.pc \in {"append", "catch up"}
  <2>1. request'.pc \in {"append", "catch up"}
    BY <1>1, BeginUpdateFields, BeginWriteFields
  <2> QED
    BY <1>1, <2>1 DEF BeginUpdate, BeginWrite, Free
<1>2. CASE Deliver
  BY <1>2, DeliverFields DEF Deliver
<1>3. CASE CheckWrite
  BY <1>3, CheckFields, NoRequestFields DEF CheckWrite, At, PassWork
<1>4. CASE ReadUidnext
  BY <1>4, ReadFields DEF ReadUidnext, At, PassWork
<1>5. CASE WriteUidnext
  <2>1. request'.pc = "append"
    BY <1>5, GotoFields DEF WriteUidnext
  <2> QED
    BY <1>5, <2>1 DEF WriteUidnext, At, PassWork
<1>6. CASE AppendWrite
  BY <1>6, AppendFields DEF AppendWrite, PassWork
<1>7. CASE AppendFails
  BY <1>7, NoRequestFields DEF AppendFails, At, PassWork
<1> QED
  BY <1>1, <1>2, <1>3, <1>4, <1>5, <1>6, <1>7 DEF Asks

LEMMA PassWorkStep ==
  ASSUME IInv, PassWork, ~AbortPass, [Next]_vars PROVE PassWork'
<1>1. CASE Asks
  BY <1>1, AskKeeps DEF PassWork
<1>2. ASSUME CatchUp \/ Materialize \/ RetryFires PROVE PassWork'
  <2>1. serving /\ UNCHANGED <<serving, journal>>
    BY <1>2 DEF CatchUp, Materialize, RetryFires, At, PassWork
  <2>2. CASE CatchUp
    <3>1. pass'.kind = "catchUp" /\ request'.pc = "catching up"
      BY <2>2, StartFields, GotoFields DEF CatchUp
    <3> QED
      BY <2>1, <3>1 DEF PassWork
  <2>3. CASE Materialize
    <3>1. pass'.kind = "post" /\ pass'.end = Len(journal) /\ request'.pc = "materializing"
      BY <2>3, StartFields, GotoFields DEF Materialize
    <3> QED
      BY <2>1, <3>1 DEF PassWork
  <2>4. CASE RetryFires
    <3>1. pass'.kind = "retry"
      BY <2>4, StartFields DEF RetryFires
    <3> QED
      BY <2>1, <3>1 DEF PassWork
  <2> QED
    BY <1>2, <2>2, <2>3, <2>4
<1>3. CASE SkipRecord \/ HoldRecord \/ ApplyRecord
  <2>1. UNCHANGED <<request, serving, journal>>
    BY <1>3 DEF SkipRecord, HoldRecord, ApplyRecord
  <2> QED
    BY <1>3, <2>1, ScanMoves DEF PassWork
<1>4. CASE FinishPass
  <2>1. pass'.kind = "none" /\ (serving' <=> serving \/ pass.kind = "start")
    BY <1>4 DEF FinishPass, Answer, NoPass
  <2> QED
    BY <2>1 DEF PassWork
<1>5. CASE Crash \/ Rebuild
  <2>1. /\ pass'.kind = "start" /\ pass'.end = Len(journal) /\ journal' = journal
        /\ request'.pc = "idle" /\ ~serving'
    BY <1>5, RestartFields, NoRequestFields
  <2> QED
    BY <2>1 DEF PassWork
<1>6. CASE PassKept /\ UNCHANGED <<journal, catalogVars, receipts, serving, request>>
  BY <1>6 DEF PassKept, PassWork
<1> QED
  BY <1>1, <1>2, <1>3, <1>4, <1>5, <1>6, Steps

LEMMA AskWorkStep ==
  ASSUME IInv, WorkInv, ~AbortPass, [Next]_vars PROVE AskWork'
<1> USE DEF Answering
<1>1. CASE request' = NoRequest
  BY <1>1, NoRequestFields DEF AskWork
<1>2. CASE UNCHANGED <<request, journal>>
  BY <1>2 DEF AskWork, WorkInv
<1>3. ASSUME NEW t \in {"expunged", "flags"}, NEW u, NEW f, BeginUpdate(t, u, f) PROVE AskWork'
  <2>1. request'.pc = "append" /\ request'.type = t /\ request'.dst = 0
    BY <1>3, BeginUpdateFields
  <2> QED
    BY <2>1 DEF AskWork
<1>4. ASSUME NEW t \in Reserving, NEW u, BeginWrite(t, u) PROVE AskWork'
  BY <1>4, BeginWriteFields DEF AskWork
<1>5. CASE Deliver
  <2>1. request'.pc = "materialize" /\ request'.dst = 0 /\ Len(journal') > 0
    <3>1. /\ request'.pc = "materialize" /\ request'.dst = request.dst /\ request.pc = "idle"
          /\ Len(journal') = Len(journal) + 1 /\ Len(journal) \in Nat
      BY <1>5, DeliverFields DEF Grown
    <3> QED
      BY <3>1 DEF AskWork, WorkInv
  <2> QED
    BY <2>1 DEF AskWork
<1>6. CASE CheckWrite
  <2>1. request.type \in Reserving
    BY <1>6 DEF CheckWrite, At, AskWork, WorkInv
  <2> QED
    BY <1>1, <1>6, <2>1, CheckFields DEF AskWork
<1>7. CASE ReadUidnext
  BY <1>7, ReadFields DEF ReadUidnext, At, AskWork, WorkInv
<1>8. CASE WriteUidnext
  <2>1. /\ request'.pc = "append" /\ request'.type = request.type
        /\ request.pc = "write uidnext"
    BY <1>8, GotoFields DEF WriteUidnext, At
  <2> QED
    BY <2>1 DEF AskWork, WorkInv
<1>9. CASE AppendWrite
  <2>1. request.dst > 0 => request.type \in Reserving
    BY <1>9, AppendFields DEF AskWork, WorkInv
  <2>2. Len(journal') > 0
    BY <1>9, AppendFields DEF Grown
  <2> QED
    BY <1>9, <2>1, <2>2, AppendFields DEF AskWork
<1>10. CASE AppendFails \/ Crash \/ Rebuild
  BY <1>1, <1>10, RestartFields DEF AppendFails
<1>11. CASE CatchUp
  <2>1. /\ request'.pc = "catching up" /\ request'.type = request.type
        /\ request.pc = "catch up"
    BY <1>11, GotoFields DEF CatchUp, At
  <2> QED
    BY <2>1 DEF AskWork, WorkInv
<1>12. CASE Materialize
  <2>1. request'.pc = "materializing" /\ request.pc = "materialize" /\ journal' = journal
        /\ request'.dst = request.dst /\ request'.src = request.src
    BY <1>12, GotoFields DEF Materialize, At
  <2> QED
    BY <2>1 DEF AskWork, WorkInv
<1>13. CASE RetryFires \/ SkipRecord \/ HoldRecord \/ ApplyRecord
  BY <1>2, <1>13 DEF RetryFires, SkipRecord, HoldRecord, ApplyRecord
<1>14. CASE FinishPass
  <2>1. CASE pass.kind = "catchUp"
    <3>1. request.pc = "catching up" /\ request' = [request EXCEPT !.pc = "check"]
      BY <1>14, <2>1 DEF FinishPass, Answer, WorkInv, PassWork
    <3> QED
      BY <3>1, GotoFields DEF Goto, AskWork, WorkInv
  <2>2. CASE pass.kind = "post"
    BY <1>1, <1>14, <2>2 DEF FinishPass, Answer
  <2>3. CASE pass.kind \notin {"catchUp", "post"}
    BY <1>2, <1>14, <2>3 DEF FinishPass, Answer
  <2> QED
    BY <2>1, <2>2, <2>3
<1>15. CASE PassKept /\ UNCHANGED <<journal, catalogVars, receipts, serving, request>>
  BY <1>2, <1>15
<1>16. CASE Asks
  BY <1>3, <1>4, <1>5, <1>6, <1>7, <1>8, <1>9, <1>10, <1>16 DEF Asks
<1> QED
  BY <1>10, <1>11, <1>12, <1>13, <1>14, <1>15, <1>16, Steps

(* What the journal promises about UIDs: U[n] is the UID that record n     *)
(* gives to the membership it creates.                                     *)
Sourced == {"copied", "moved", "expunged", "flags"}
CreatingRecords == {n \in Indices : journal[n].type \in Creating}
CreatedAmong(k) == {n \in 1 .. k : journal[n].type \in Creating}
Rank(n) == Cardinality(CreatedAmong(n))

(* UIDs ascend, records have those that were reserved for them.            *)
Ascending(U) ==
  /\ \A i, j \in CreatingRecords : i < j => U[i] < U[j]
  /\ \A n \in Indices : journal[n].type \in Reserving => U[n] = journal[n].dst

RowsFollow(U) == \A r \in DOMAIN rows : rows[r].uid = U[r] /\ rows[r].msg = MsgOf(r)

(* Records speak of memberships that records before them created.          *)
SourceOf(U, n) ==
  \E r \in CreatingRecords :
    /\ r < n /\ U[r] = journal[n].src
    /\ journal[n].type \in {"copied", "moved"} => journal[n].msg = MsgOf(r)
Sources(U) == \A n \in Indices : journal[n].type \in Sourced => SourceOf(U, n)

(* After the record that hides a membership none hides or copies it.       *)
HiddenLast ==
  \A m, n \in Indices :
    /\ journal[m].type \in Hiding /\ journal[n].type \in Hiding \cup {"copied"}
    /\ journal[m].src = journal[n].src /\ m # n
    => journal[n].type = "copied" /\ n < m

UidsInv(U) == Ascending(U) /\ RowsFollow(U) /\ Sources(U) /\ HiddenLast

BelowUidnext == \A r \in DOMAIN rows : rows[r].uid < uidnext

LEMMA AppliedIs ==
  ASSUME IInv, ScanInv, NEW a \in Indices, a \notin applied, 1 .. (a - 1) \subseteq applied
  PROVE  applied = 1 .. (a - 1) /\ a \in Nat \ {0}
<1>1. a \in Nat \ {0}
  BY DEF Indices
<1>2. \A n \in applied : n \in Nat \ {0} /\ n < a
  BY <1>1, PassFields, AppliedBefore DEF Indices
<1>3. applied \subseteq 1 .. (a - 1)
  BY <1>1, <1>2
<1> QED
  BY <1>1, <1>3

LEMMA CreatedRows ==
  ASSUME IInv, AppliedInv, NEW k, applied = 1 .. k
  PROVE  DOMAIN rows = CreatedAmong(k)
<1>1. ASSUME NEW r \in DOMAIN rows PROVE r \in CreatedAmong(k)
  BY DEF AppliedInv, CreatedAmong
<1>2. ASSUME NEW r \in CreatedAmong(k) PROVE r \in DOMAIN rows
  <2>1. r \in applied /\ journal[r].type \in Creating
    BY DEF CreatedAmong
  <2> QED
    BY <2>1 DEF AppliedInv, Effected
<1> QED
  BY <1>1, <1>2

(* The membership that the next record to be applied speaks of.            *)
LEMMA NextSource ==
  ASSUME IInv, ScanInv, AppliedInv, NEW U, UidsInv(U),
         NEW a \in Indices, a \notin applied, 1 .. (a - 1) \subseteq applied,
         journal[a].type \in Sourced
  PROVE  \E r \in DOMAIN rows :
           /\ rows[r].uid = journal[a].src
           /\ journal[a].type \in {"copied", "moved"} => rows[r].msg = journal[a].msg
           /\ journal[a].type # "flags" => rows[r].hidden = 0
<1>1. SourceOf(U, a)
  BY DEF UidsInv, Sources
<1>2. PICK r \in CreatingRecords :
        /\ r < a /\ U[r] = journal[a].src
        /\ journal[a].type \in {"copied", "moved"} => journal[a].msg = MsgOf(r)
  BY <1>1 DEF SourceOf
<1>3. r \in applied /\ journal[r].type \in Creating
  BY <1>2 DEF CreatingRecords, Indices
<1>4. r \in DOMAIN rows
  BY <1>3 DEF AppliedInv, Effected
<1>5. rows[r].uid = journal[a].src
      /\ (journal[a].type \in {"copied", "moved"} => rows[r].msg = journal[a].msg)
  BY <1>2, <1>4 DEF UidsInv, RowsFollow
<1>6. ASSUME journal[a].type # "flags", rows[r].hidden # 0 PROVE FALSE
  <2>1. PICK m : m = rows[r].hidden
    OBVIOUS
  <2>2. m \in applied /\ journal[m].type \in Hiding /\ journal[m].src = journal[a].src
    BY <1>4, <1>5, <1>6, <2>1 DEF AppliedInv, Removes
  <2>3. m \in Indices /\ m # a /\ m \in Nat /\ m < a
    BY <2>2, AppliedBefore, PassFields DEF Indices
  <2>4. journal[a].type \in Hiding \cup {"copied"}
    BY <1>6 DEF Sourced, Hiding
  <2>5. a < m
    BY <2>2, <2>3, <2>4 DEF UidsInv, HiddenLast
  <2> QED
    BY <2>3, <2>5 DEF Indices
<1> QED
  BY <1>4, <1>5, <1>6

(* The UID of the next record is nobody's.                                 *)
LEMMA NextFree ==
  ASSUME IInv, ScanInv, AppliedInv, NEW U \in [Indices -> Nat], UidsInv(U), BelowUidnext,
         NEW a \in Indices, a \notin applied, journal[a].type \in Creating
  PROVE  \A r \in DOMAIN rows : rows[r].uid # UidOf(Catalog, a)
<1> SUFFICES ASSUME NEW r \in DOMAIN rows PROVE rows[r].uid # UidOf(Catalog, a)
  OBVIOUS
<1>1. r \in applied /\ r \in CreatingRecords /\ a \in CreatingRecords /\ r < a
  BY AppliedBefore, PassFields DEF AppliedInv, CreatingRecords, Indices
<1>2. rows[r].uid = U[r] /\ U[r] < U[a] /\ U[r] \in Nat /\ U[a] \in Nat
  BY <1>1 DEF UidsInv, RowsFollow, Ascending, CreatingRecords
<1>3. CASE journal[a].type = "delivered"
  <2>1. rows[r].uid < uidnext /\ uidnext \in Nat
    BY DEF BelowUidnext, IInv, CatalogInv
  <2> QED
    BY <1>2, <1>3, <2>1 DEF UidOf, Catalog
<1>4. CASE journal[a].type # "delivered"
  <2>1. U[a] = journal[a].dst
    BY <1>4 DEF UidsInv, Ascending, Creating, Reserving
  <2> QED
    BY <1>2, <1>4, <2>1 DEF UidOf
<1> QED
  BY <1>3, <1>4

LEMMA InsertApplies ==
  ASSUME NEW cat, NEW n, NEW u, NEW m, NEW f, \A r \in DOMAIN cat.rows : cat.rows[r].uid # u
  PROVE  Insert(cat, n, u, m, f) = {InsertWith(cat, n, u, m, f)}
BY DEF Insert, RowsOf

LEMMA NextApplies ==
  ASSUME IInv, ScanInv, AppliedInv, NEW U \in [Indices -> Nat], UidsInv(U), BelowUidnext,
         NEW a \in Indices, a \notin applied, 1 .. (a - 1) \subseteq applied
  PROVE  Effect(Catalog, a) # {}
<1> DEFINE cat == Catalog
           rec == journal[a]
<1>1. cat.rows = rows /\ cat.uidnext = uidnext
  BY DEF Catalog
<1>2. a \notin DOMAIN cat.rows
  BY <1>1 DEF AppliedInv
<1>3. rec.type \in Sourced =>
        \E r \in DOMAIN cat.rows :
           /\ cat.rows[r].uid = rec.src
           /\ rec.type \in {"copied", "moved"} => cat.rows[r].msg = rec.msg
           /\ rec.type # "flags" => cat.rows[r].hidden = 0
  BY <1>1, NextSource
<1>4. rec.type \in Creating => \A r \in DOMAIN cat.rows : cat.rows[r].uid # UidOf(cat, a)
  BY <1>1, NextFree
<1> HIDE DEF cat
<1>5. CASE rec.type \in {"delivered", "appended"}
  <2>1. Effect(cat, a) = Insert(cat, a, UidOf(cat, a), a, rec.flag)
    BY <1>2, <1>5 DEF Effect, UidOf
  <2>2. \A r \in DOMAIN cat.rows : cat.rows[r].uid # UidOf(cat, a)
    BY <1>4, <1>5 DEF Creating
  <2>3. Effect(cat, a) # {}
    BY <2>1, <2>2, InsertApplies
  <2> QED
    BY <2>3 DEF cat
<1>6. ASSUME rec.type \in {"copied", "moved"}
      PROVE  /\ InsertWith(cat, a, rec.dst, rec.msg, rec.flag) \in CopyTo(cat, a, rec)
             /\ \E r \in DOMAIN cat.rows : cat.rows[r].uid = rec.src /\ cat.rows[r].hidden = 0
  <2>1. PICK r \in DOMAIN cat.rows :
          /\ cat.rows[r].uid = rec.src /\ cat.rows[r].msg = rec.msg /\ cat.rows[r].hidden = 0
    BY <1>3, <1>6 DEF Sourced
  <2>2. r \in {x \in VisibleRow(cat, rec.src) : cat.rows[x].msg = rec.msg}
    BY <2>1 DEF VisibleRow, RowsOf, Visible
  <2>3. \A x \in DOMAIN cat.rows : cat.rows[x].uid # rec.dst
    BY <1>4, <1>6 DEF Creating, UidOf
  <2>4. InsertWith(cat, a, rec.dst, rec.msg, rec.flag)
          \in Insert(cat, a, rec.dst, rec.msg, rec.flag)
    BY <2>3, InsertApplies
  <2> QED
    BY <1>2, <2>1, <2>2, <2>4 DEF CopyTo
<1>7. CASE rec.type = "copied"
  <2>1. Effect(cat, a) = CopyTo(cat, a, rec)
    BY <1>7 DEF Effect
  <2> QED
    BY <1>6, <1>7, <2>1 DEF cat
<1>8. CASE rec.type = "moved"
  <2>1. Effect(cat, a) = UNION {Tombstone(c, a, rec.src) : c \in CopyTo(cat, a, rec)}
    BY <1>8 DEF Effect
  <2>2. PICK c \in CopyTo(cat, a, rec) : c = InsertWith(cat, a, rec.dst, rec.msg, rec.flag)
    BY <1>6, <1>8
  <2>3. PICK r \in DOMAIN cat.rows : cat.rows[r].uid = rec.src /\ cat.rows[r].hidden = 0
    BY <1>6, <1>8
  <2>4. r \in DOMAIN c.rows /\ c.rows[r] = cat.rows[r]
    BY <1>2, <2>2, <2>3 DEF InsertWith
  <2>5. Tombstone(c, a, rec.src) # {}
    BY <2>3, <2>4, TombstoneApplies
  <2> QED
    BY <2>1, <2>2, <2>5 DEF cat
<1>9. CASE rec.type = "expunged"
  <2>1. Effect(cat, a) = Tombstone(cat, a, rec.src)
    BY <1>9 DEF Effect
  <2>2. PICK r \in DOMAIN cat.rows : cat.rows[r].uid = rec.src /\ cat.rows[r].hidden = 0
    BY <1>3, <1>9 DEF Sourced
  <2> QED
    BY <2>1, <2>2, TombstoneApplies DEF cat
<1>10. CASE rec.type = "flags"
  <2>1. Effect(cat, a) = SetFlag(cat, rec.src, rec.flag)
    BY <1>10 DEF Effect
  <2>2. PICK r \in DOMAIN cat.rows : cat.rows[r].uid = rec.src
    BY <1>3, <1>10 DEF Sourced
  <2> QED
    BY <2>1, <2>2, SetFlagApplies DEF cat
<1> QED
  BY <1>5, <1>7, <1>8, <1>9, <1>10, RecordFields DEF IInv, Types

(* While nothing is held requests and passes meet a catalog without gaps.  *)
Quiet == NothingHeld /\ (NoneWasted \/ spent.rebuilds = 0)

LEMMA QuietBefore ==
  ASSUME IInv, [Next]_vars
  PROVE  /\ NothingHeld' => NothingHeld /\ ~AbortPass
         /\ NoneWasted' => NoneWasted /\ ~AppendFails /\ ~Crash
         /\ spent'.rebuilds = 0 => spent.rebuilds = 0 /\ ~Rebuild
         /\ Quiet' => Quiet
<1>1. \A w \in AllTroubles : spent[w] \in Nat /\ spent'[w] \in Nat /\ spent[w] <= spent'[w]
  BY SpentGrows
<1>2. ASSUME NEW w \in AllTroubles, spent'[w] = 0 PROVE spent[w] = 0 /\ ~Happens(w)
  BY <1>1, <1>2, SpentGrows
<1>3. /\ spent'.breaks = 0 => spent.breaks = 0
      /\ spent'.aborts = 0 => spent.aborts = 0 /\ ~AbortPass
      /\ spent'.faults = 0 => spent.faults = 0 /\ ~AppendFails
      /\ spent'.crashes = 0 => spent.crashes = 0 /\ ~Crash
      /\ spent'.rebuilds = 0 => spent.rebuilds = 0 /\ ~Rebuild
  BY <1>2 DEF AllTroubles, AbortPass, AppendFails, Crash, Rebuild
<1> QED
  BY <1>3 DEF Quiet, NothingHeld, NoneWasted

CaughtUp ==
  /\ "own" \notin holds /\ ~OwnHeld
  /\ serving /\ ~Answering => applied = Indices
  /\ serving \/ spent.rebuilds = 0 => \A n \in Indices : n < Len(journal) => n \in applied

(* What a request read is still so when it is used.                        *)
AskInv ==
  /\ request.pc = "write uidnext" => request.dst = uidnext
  /\ request.pc = "append" /\ request.type \in Reserving =>
       uidnext = request.dst + 1 /\ \A r \in DOMAIN rows : rows[r].uid < request.dst
  /\ request.pc \in {"read uidnext", "write uidnext", "append"}
       /\ request.type \in {"copied", "moved"} => SeesMessage(rows, request.src, request.msg)
  /\ request.pc = "append" /\ request.type \in {"expunged", "flags"} => Sees(rows, request.src)

LEMMA CaughtUpStep ==
  ASSUME IInv, ScanInv, WorkInv, CaughtUp, [Next]_vars, ~AbortPass, ~HoldRecord
  PROVE  CaughtUp'
<1> USE DEF Answering
<1>0. /\ Len(journal) \in Nat /\ applied \subseteq Indices /\ applied' \subseteq Indices'
      /\ spent'.rebuilds = 0 => spent.rebuilds = 0 /\ ~Rebuild
  BY PassFields, CatalogStep, QuietBefore DEF CatalogInv
<1>1. CASE Asks
  <2>1. /\ UNCHANGED <<pass, holds, applied, serving>>
        /\ serving /\ applied = Indices
    BY <1>1, AskKeeps DEF CaughtUp, WorkInv
  <2>2. CASE UNCHANGED journal
    BY <2>1, <2>2 DEF CaughtUp, OwnHeld, Indices
  <2>3. CASE Deliver \/ AppendWrite
    <3>1. request'.pc = "materialize" /\ Len(journal') = Len(journal) + 1
      BY <2>3, DeliverFields, AppendFields
    <3>2. \A n \in Indices' : n < Len(journal') => n \in applied
      BY <1>0, <2>1, <3>1 DEF Indices
    <3> QED
      BY <2>1, <3>1, <3>2 DEF CaughtUp, OwnHeld
  <2> QED
    BY <2>2, <2>3, StepKinds DEF JournalSteps
<1>2. ASSUME CatchUp \/ Materialize \/ RetryFires PROVE CaughtUp'
  <2>1. /\ UNCHANGED <<journal, holds, applied, serving>>
        /\ \E k \in {"catchUp", "post", "retry"} : StartPass(k)
    BY <1>2 DEF CatchUp, Materialize, RetryFires, catalogVars
  <2>2. "own" \notin pass'.held
    BY <2>1, StartFields DEF CaughtUp
  <2>3. ~Answering' => ~Answering
    <3>1. Materialize => request'.pc = "materializing"
      BY GotoFields DEF Materialize
    <3> QED
      BY <1>2, <3>1 DEF CatchUp, RetryFires, At
  <2> QED
    BY <1>0, <2>1, <2>2, <2>3 DEF CaughtUp, OwnHeld, Indices
<1>3. CASE SkipRecord
  BY <1>3 DEF SkipRecord, CaughtUp
<1>4. CASE ApplyRecord
  <2>1. /\ UNCHANGED <<journal, holds, serving, request>> /\ pass'.held = pass.held
        /\ applied \subseteq applied'
    BY <1>4, ScanMoves DEF ApplyRecord
  <2> QED
    BY <1>0, <2>1 DEF CaughtUp, OwnHeld, Indices
<1>5. CASE FinishPass
  <2>1. /\ UNCHANGED <<journal, applied>> /\ holds' = pass.held /\ pass' = NoPass
        /\ (serving' <=> serving \/ pass.kind = "start")
        /\ pass.at > pass.end /\ ~PassIdle
    BY <1>5 DEF FinishPass, Answer, catalogVars
  <2>2. "own" \notin holds' /\ ~OwnHeld'
    BY <2>1 DEF CaughtUp, OwnHeld, NoPass
  <2>3. 1 .. (pass.at - 1) \subseteq applied
    BY <2>1 DEF ScanInv, CaughtUp
  <2>4. 1 .. pass.end \subseteq applied
    BY <2>1, <2>3, PassFields
  <2>5. pass.end = Len(journal) => applied = Indices
    BY <1>0, <2>4 DEF Indices
  <2>6. CASE pass.kind \in {"post", "start"}
    BY <1>0, <2>1, <2>2, <2>5, <2>6 DEF CaughtUp, WorkInv, PassWork, Indices
  <2>7. CASE pass.kind \notin {"post", "start"}
    <3>1. serving
      BY <2>7 DEF WorkInv, PassWork
    <3>2. ~Answering' => ~Answering
      BY <1>5, <2>7 DEF FinishPass, Answer, WorkInv, PassWork
    <3> QED
      BY <1>0, <2>1, <2>2, <3>1, <3>2 DEF CaughtUp, Indices
  <2> QED
    BY <2>6, <2>7
<1>6. CASE Crash \/ Rebuild
  <2>1. /\ "own" \notin pass'.held /\ holds' = {} /\ journal' = journal /\ ~serving'
    BY <1>6, RestartFields
  <2>2. Crash => applied' = applied
    BY DEF Crash, catalogVars
  <2> QED
    BY <1>0, <1>6, <2>1, <2>2 DEF CaughtUp, OwnHeld, Indices
<1>7. CASE PassKept /\ UNCHANGED <<journal, catalogVars, receipts, serving, request>>
  BY <1>0, <1>7 DEF PassKept, CaughtUp, OwnHeld, Indices
<1> QED
  BY <1>1, <1>2, <1>3, <1>4, <1>5, <1>6, <1>7, Steps

(* A record that is applied again changes neither memberships nor UIDNEXT. *)
LEMMA Reapplied ==
  ASSUME IInv, SafeInv, ScanInv, AppliedInv, ApplyRecord, pass.at \in applied
  PROVE  /\ DOMAIN rows' = DOMAIN rows /\ uidnext' = uidnext /\ applied' = applied
         /\ \A r \in DOMAIN rows : /\ rows'[r].uid = rows[r].uid /\ rows'[r].msg = rows[r].msg
                                   /\ rows'[r].hidden = rows[r].hidden
<1>1. PICK new \in Effect(Catalog, pass.at) :
        /\ rows' = new.rows /\ uidnext' = new.uidnext
        /\ Catalog.rows = rows /\ Catalog.uidnext = uidnext
        /\ Shape(Catalog, new, pass.at) /\ Preserved(rows, rows')
        /\ pass.at \in Indices /\ applied' = applied \cup {pass.at}
  BY AppliedShape
<1>2. pass.at # 0
  BY <1>1 DEF Indices
<1>3. Retains(Catalog, new)
      /\ \A r \in DOMAIN rows : /\ new.rows[r].uid = rows[r].uid
                                /\ new.rows[r].msg = rows[r].msg
                                /\ new.rows[r].hidden = rows[r].hidden
  BY <1>1, <1>2, ReappliedRows
<1> QED
  BY <1>1, <1>3 DEF Retains

LEMMA SeesStill ==
  ASSUME NEW old, NEW new, DOMAIN new = DOMAIN old,
         \A r \in DOMAIN old : /\ new[r].uid = old[r].uid /\ new[r].msg = old[r].msg
                               /\ new[r].hidden = old[r].hidden
  PROVE  \A u, m : /\ Sees(old, u) => Sees(new, u)
                   /\ SeesMessage(old, u, m) => SeesMessage(new, u, m)
BY DEF Sees, SeesMessage

LEMMA AskInvStep ==
  ASSUME IInv, SafeInv, ScanInv, AppliedInv, WorkInv, CaughtUp, BelowUidnext, AskInv,
         [Next]_vars, ~AbortPass
  PROVE  AskInv'
<1>1. CASE request'.pc \notin {"read uidnext", "write uidnext", "append"}
  BY <1>1 DEF AskInv
<1>2. CASE UNCHANGED <<request, rows, uidnext>>
  BY <1>2 DEF AskInv
<1>3. CASE UNCHANGED request /\ ApplyRecord
  <2>1. SUFFICES ASSUME request.pc \in {"read uidnext", "write uidnext", "append"} PROVE AskInv'
    BY <1>1, <1>3
  <2>2. pass.at \in applied
    BY <1>3, <2>1, ApplyEffect DEF CaughtUp, WorkInv, PassWork, Answering
  <2>3. /\ DOMAIN rows' = DOMAIN rows /\ uidnext' = uidnext
        /\ \A r \in DOMAIN rows : /\ rows'[r].uid = rows[r].uid /\ rows'[r].msg = rows[r].msg
                                  /\ rows'[r].hidden = rows[r].hidden
    BY <1>3, <2>2, Reapplied
  <2>4. \A u, m : /\ Sees(rows, u) => Sees(rows', u)
                  /\ SeesMessage(rows, u, m) => SeesMessage(rows', u, m)
    BY <2>3, SeesStill
  <2> QED
    BY <1>3, <2>3, <2>4 DEF AskInv
<1>4. CASE Asks
  <2>1. rows' = rows
    BY <1>4, AskKeeps DEF WorkInv
  <2>2. ASSUME NEW t \in {"expunged", "flags"}, NEW u, NEW f, BeginUpdate(t, u, f) PROVE AskInv'
    <3>1. /\ request'.pc = "append" /\ request'.type = t /\ request'.src = u /\ Sees(rows, u)
      BY <2>2, BeginUpdateFields
    <3>2. t \notin Reserving /\ t \notin {"copied", "moved"}
      BY DEF Reserving
    <3> QED
      BY <2>1, <3>1, <3>2 DEF AskInv
  <2>3. ASSUME NEW t \in Reserving, NEW u, BeginWrite(t, u) PROVE AskInv'
    BY <1>1, <2>3, BeginWriteFields
  <2>4. CASE CheckWrite
    <3>1. CASE request' = NoRequest
      BY <1>1, <3>1, NoRequestFields
    <3>2. CASE /\ request'.pc = "read uidnext"
               /\ request'.type # "appended" => SeesMessage(rows, request'.src, request'.msg)
      BY <2>1, <3>2 DEF AskInv
    <3> QED
      BY <2>4, <3>1, <3>2, CheckFields
  <2>5. CASE ReadUidnext
    <3>1. /\ request'.pc = "write uidnext" /\ request'.type = request.type
          /\ request'.src = request.src /\ request'.dst = uidnext /\ request'.msg = request.msg
          /\ uidnext' = uidnext /\ request.pc = "read uidnext"
      BY <2>5, ReadFields DEF ReadUidnext, At, catalogVars
    <3> QED
      BY <2>1, <3>1 DEF AskInv
  <2>6. CASE WriteUidnext
    <3>1. /\ request'.pc = "append" /\ request'.type = request.type
          /\ request'.src = request.src /\ request'.dst = request.dst
          /\ request'.msg = request.msg
          /\ uidnext' = request.dst + 1 /\ request.pc = "write uidnext"
      BY <2>6, GotoFields DEF WriteUidnext, At
    <3>2. request.type \in Reserving
      BY <3>1 DEF WorkInv, AskWork
    <3>3. request.type \notin {"expunged", "flags"}
      BY <3>2 DEF Reserving
    <3> QED
      BY <2>1, <3>1, <3>3 DEF AskInv, BelowUidnext
  <2>7. CASE Deliver \/ AppendWrite \/ AppendFails
    <3>1. request'.pc \in {"materialize", "idle"}
      BY <2>7, DeliverFields, AppendFields, NoRequestFields DEF AppendFails
    <3> QED
      BY <1>1, <3>1
  <2> QED
    BY <1>4, <2>2, <2>3, <2>4, <2>5, <2>6, <2>7 DEF Asks
<1>5. CASE CatchUp \/ Materialize
  <2>1. request'.pc \in {"catching up", "materializing"}
    BY <1>5, GotoFields DEF CatchUp, Materialize
  <2> QED
    BY <1>1, <2>1
<1>6. CASE RetryFires \/ SkipRecord \/ HoldRecord
  BY <1>2, <1>6 DEF RetryFires, SkipRecord, HoldRecord, catalogVars
<1>7. CASE FinishPass
  <2>1. /\ UNCHANGED <<rows, uidnext>>
        /\ \/ request' = request \/ request' = NoRequest
           \/ request' = [request EXCEPT !.pc = "check"]
    BY <1>7 DEF FinishPass, Answer, catalogVars
  <2>2. request' = [request EXCEPT !.pc = "check"] => request'.pc = "check"
    BY GotoFields DEF Goto
  <2> QED
    BY <1>1, <1>2, <2>1, <2>2, NoRequestFields
<1>8. CASE Crash \/ Rebuild
  BY <1>1, <1>8, RestartFields, NoRequestFields
<1>9. CASE PassKept /\ UNCHANGED <<journal, catalogVars, receipts, serving, request>>
  BY <1>2, <1>9 DEF catalogVars
<1>10. CASE ApplyRecord
  BY <1>3, <1>10 DEF ApplyRecord
<1> QED
  BY <1>4, <1>5, <1>6, <1>7, <1>8, <1>9, <1>10, Steps

(* A UID is reserved that no membership has yet.                           *)
Reserved ==
  \/ request.pc = "append" /\ request.type \in Reserving
  \/ Answering /\ Len(journal) \notin applied /\ journal[Len(journal)].type \in Reserving

(* Deliveries get the UID they were promised: the only record that is      *)
(* missing meets the UIDNEXT it found, and a rebuild from a journal that   *)
(* wasted no UID counts up to the same ones.                               *)
NextInv(U) ==
  /\ BelowUidnext
  /\ spent.rebuilds = 0 =>
       \A n \in Indices \ applied : journal[n].type = "delivered" => U[n] = uidnext
  /\ NoneWasted => /\ \A n \in CreatingRecords : U[n] = Rank(n)
                   /\ uidnext = Cardinality(DOMAIN rows) + (IF Reserved THEN 2 ELSE 1)

ReceiptsInv(U) == \A t \in receipts : t.rec \in CreatingRecords /\ U[t.rec] = t.uid

LEMMA RankStep ==
  ASSUME IInv, NEW n \in Nat \ {0}
  PROVE  /\ IsFiniteSet(CreatedAmong(n)) /\ Rank(n) \in Nat /\ Rank(n - 1) \in Nat
         /\ Rank(n) = IF journal[n].type \in Creating THEN Rank(n - 1) + 1 ELSE Rank(n - 1)
<1>1. \A k \in Nat : IsFiniteSet(CreatedAmong(k)) /\ Rank(k) \in Nat
  <2>1. ASSUME NEW k \in Nat PROVE IsFiniteSet(CreatedAmong(k))
    <3>1. IsFiniteSet(1 .. k) /\ CreatedAmong(k) \subseteq 1 .. k
      BY FS_Interval DEF CreatedAmong
    <3> QED
      BY <3>1, FS_Subset
  <2> QED
    BY <2>1, FS_CardinalityType DEF Rank
<1>2. n - 1 \in Nat
  OBVIOUS
<1>3. CASE journal[n].type \in Creating
  <2>1. CreatedAmong(n) = CreatedAmong(n - 1) \cup {n} /\ n \notin CreatedAmong(n - 1)
    BY <1>3 DEF CreatedAmong
  <2>2. Cardinality(CreatedAmong(n - 1) \cup {n}) = Cardinality(CreatedAmong(n - 1)) + 1
    BY <1>1, <1>2, <2>1, FS_AddElement
  <2> QED
    BY <1>1, <1>2, <1>3, <2>1, <2>2 DEF Rank
<1>4. CASE journal[n].type \notin Creating
  <2>1. CreatedAmong(n) = CreatedAmong(n - 1)
    BY <1>4 DEF CreatedAmong
  <2> QED
    BY <1>1, <1>2, <1>4, <2>1 DEF Rank
<1> QED
  BY <1>3, <1>4

LEMMA JournalStays ==
  ASSUME NEW U, UidsInv(U), UNCHANGED journal
  PROVE  /\ Indices' = Indices /\ CreatingRecords' = CreatingRecords
         /\ \A n : Rank(n)' = Rank(n)
         /\ Ascending(U)' /\ Sources(U)' /\ HiddenLast'
<1>1. Indices' = Indices /\ CreatingRecords' = CreatingRecords
  BY DEF Indices, CreatingRecords
<1>2. \A n : Rank(n)' = Rank(n)
  BY DEF Rank, CreatedAmong
<1>3. Ascending(U)'
  BY <1>1 DEF UidsInv, Ascending
<1>4. Sources(U)'
  BY <1>1 DEF UidsInv, Sources, SourceOf, MsgOf
<1>5. HiddenLast'
  BY <1>1 DEF UidsInv, HiddenLast
<1> QED
  BY <1>1, <1>2, <1>3, <1>4, <1>5

(* Nothing but memberships, UIDNEXT and UIDs enters.                       *)
LEMMA UidsStay ==
  ASSUME NEW U, UidsInv(U), NextInv(U), UNCHANGED <<journal, uidnext, applied>>,
         DOMAIN rows' = DOMAIN rows,
         \A r \in DOMAIN rows : rows'[r].uid = rows[r].uid /\ rows'[r].msg = rows[r].msg,
         spent'.rebuilds = 0 => spent.rebuilds = 0,
         NoneWasted' => NoneWasted /\ (Reserved' <=> Reserved)
  PROVE  UidsInv(U)' /\ NextInv(U)'
<1>1. Indices' = Indices /\ CreatingRecords' = CreatingRecords
  BY JournalStays
<1>2. Ascending(U)' /\ Sources(U)' /\ HiddenLast'
  BY JournalStays
<1>3. RowsFollow(U)'
  BY DEF UidsInv, RowsFollow, MsgOf
<1>4. BelowUidnext'
  BY DEF NextInv, BelowUidnext
<1>5. spent'.rebuilds = 0 =>
        \A n \in Indices' \ applied' : journal'[n].type = "delivered" => U[n] = uidnext'
  BY <1>1 DEF NextInv
<1>6. \A n : Rank(n)' = Rank(n)
  BY JournalStays
<1>7. NoneWasted' =>
        /\ \A n \in CreatingRecords' : U[n] = Rank(n)'
        /\ uidnext' = Cardinality(DOMAIN rows') + (IF Reserved' THEN 2 ELSE 1)
  BY <1>1, <1>6 DEF NextInv
<1> QED
  BY <1>2, <1>3, <1>4, <1>5, <1>7 DEF UidsInv, NextInv

LEMMA ReservedNext ==
  ASSUME IInv, WorkInv, CaughtUp, NEW a \in Indices, a \notin applied, Reserved
  PROVE  Answering /\ a = Len(journal) /\ journal[a].type \in Reserving
<1>1. request.pc # "idle"
  BY DEF Reserved, Answering
<1>2. serving /\ Answering
  BY <1>1 DEF WorkInv, PassWork, CaughtUp
<1>3. a = Len(journal)
  BY <1>2, PassFields DEF CaughtUp, Indices
<1> QED
  BY <1>2, <1>3 DEF Reserved, Answering

LEMMA UidsApply ==
  ASSUME IInv, SafeInv, ScanInv, AppliedInv, WorkInv, CaughtUp, Quiet,
         NEW U \in [Indices -> Nat], UidsInv(U), NextInv(U), ApplyRecord, pass.at \notin applied
  PROVE  UidsInv(U)' /\ NextInv(U)'
<1>1. PICK new, a :
        /\ a = pass.at /\ rows' = new.rows /\ uidnext' = new.uidnext
        /\ Catalog.rows = rows /\ Catalog.uidnext = uidnext
        /\ Shape(Catalog, new, a) /\ Preserved(rows, rows')
        /\ a \in Indices /\ UNCHANGED journal
        /\ applied' = applied \cup {a} /\ 1 .. (a - 1) \subseteq applied
  BY AppliedShape
<1>2. applied = 1 .. (a - 1) /\ a \in Nat \ {0} /\ a - 1 \in Nat
  BY <1>1, AppliedIs
<1>3. UNCHANGED <<request, spent, journal>>
  BY DEF ApplyRecord
<1> DEFINE c == Cardinality(DOMAIN rows)
<1>4. DOMAIN rows = CreatedAmong(a - 1) /\ a \notin DOMAIN rows
  BY <1>1, <1>2, CreatedRows DEF AppliedInv
<1>5. c = Rank(a - 1) /\ c \in Nat
  BY <1>2, <1>4, RankStep DEF Rank
<1> HIDE DEF c
<1>6. uidnext \in Nat /\ U[a] \in Nat /\ \A r \in DOMAIN rows : rows[r].uid \in Nat
  <2>1. \A r \in DOMAIN rows : rows[r] \in RowType
    BY DEF IInv, CatalogInv, Rows
  <2> QED
    BY <1>1, <2>1 DEF RowType, IInv, CatalogInv
<1>7. ~Reserved'
  <2>1. SUFFICES ASSUME Reserved' PROVE FALSE
    OBVIOUS
  <2>2. Len(journal) \in Nat /\ a <= Len(journal)
    BY <1>1, PassFields DEF Indices
  <2>3. CASE request.pc = "append" /\ request.type \in Reserving
    BY <1>1, <2>3, ReservedNext DEF Reserved, Answering
  <2>4. CASE Answering
    <3>1. serving
      BY <2>4 DEF WorkInv, PassWork, Answering
    <3>2. a = Len(journal)
      BY <1>1, <2>2, <3>1 DEF CaughtUp, Indices
    <3> QED
      BY <1>1, <1>3, <2>1, <2>4, <3>2 DEF Reserved, Answering
  <2> QED
    BY <1>3, <2>1, <2>3, <2>4 DEF Reserved, Answering
<1>8. journal[a].type \in Creating => UidOf(Catalog, a) = U[a]
  <2>1. CASE journal[a].type \in Reserving
    BY <1>1, <2>1 DEF UidOf, Reserving, UidsInv, Ascending
  <2>2. CASE journal[a].type = "delivered"
    <3>1. CASE spent.rebuilds = 0
      BY <1>1, <2>2, <3>1 DEF NextInv, UidOf
    <3>2. CASE NoneWasted
      <4>1. ~Reserved
        BY <1>1, <2>2, ReservedNext DEF Reserving
      <4>2. a \in CreatingRecords
        BY <1>1, <2>2 DEF CreatingRecords, Creating
      <4>3. U[a] = Rank(a) /\ uidnext = c + 1
        BY <3>2, <4>1, <4>2 DEF NextInv, c
      <4>4. Rank(a) = c + 1
        BY <1>2, <1>5, <4>2, RankStep DEF CreatingRecords
      <4> QED
        BY <1>1, <2>2, <4>3, <4>4 DEF UidOf
    <3> QED
      BY <3>1, <3>2 DEF Quiet
  <2> QED
    BY <2>1, <2>2 DEF Creating, Reserving
<1>9. ASSUME journal[a].type \in Creating
      PROVE  /\ RowsFollow(U)' /\ BelowUidnext'
             /\ NoneWasted => uidnext' = Cardinality(DOMAIN rows') + 1
  <2>1. Adds(Catalog, new, a)
    BY <1>1, <1>4, <1>9 DEF Shape
  <2>2. /\ DOMAIN rows' = DOMAIN rows \cup {a}
        /\ rows'[a].uid = U[a] /\ rows'[a].msg = MsgOf(a)
        /\ uidnext' = MaxOf(uidnext, U[a] + 1)
    BY <1>1, <1>8, <1>9, <2>1 DEF Adds
  <2>3. RowsFollow(U)'
    <3>1. ASSUME NEW r \in DOMAIN rows' PROVE rows'[r].uid = U[r] /\ rows'[r].msg = MsgOf(r)
      BY <1>1, <2>2 DEF UidsInv, RowsFollow, Preserved
    <3> QED
      BY <1>3, <3>1 DEF RowsFollow, MsgOf
  <2>4. BelowUidnext'
    <3>1. \A r \in DOMAIN rows : rows'[r].uid = rows[r].uid /\ rows[r].uid < uidnext
      BY <1>1 DEF NextInv, BelowUidnext, Preserved
    <3>2. uidnext <= uidnext' /\ U[a] < uidnext' /\ uidnext' \in Nat
      BY <1>6, <2>2 DEF MaxOf
    <3> QED
      BY <1>6, <2>2, <3>1, <3>2 DEF BelowUidnext
  <2>5. NoneWasted => uidnext' = Cardinality(DOMAIN rows') + 1
    <3>1. SUFFICES ASSUME NoneWasted PROVE uidnext' = Cardinality(DOMAIN rows') + 1
      OBVIOUS
    <3>2. U[a] = Rank(a) /\ uidnext \in {c + 1, c + 2}
      BY <1>1, <1>9, <3>1 DEF NextInv, CreatingRecords, c
    <3>3. Rank(a) = c + 1
      BY <1>2, <1>5, <1>9, RankStep
    <3>4. DOMAIN rows' = CreatedAmong(a)
      BY <1>2, <1>4, <1>9, <2>2 DEF CreatedAmong
    <3>5. Cardinality(DOMAIN rows') = c + 1
      BY <3>3, <3>4 DEF Rank
    <3> QED
      BY <1>5, <2>2, <3>2, <3>3, <3>5 DEF MaxOf
  <2> QED
    BY <2>3, <2>4, <2>5
<1>10. ASSUME journal[a].type \notin Creating
       PROVE  /\ RowsFollow(U)' /\ BelowUidnext'
              /\ NoneWasted => uidnext' = Cardinality(DOMAIN rows') + 1
  <2>1. /\ DOMAIN rows' = DOMAIN rows /\ uidnext' = uidnext
        /\ \A r \in DOMAIN rows : rows'[r].uid = rows[r].uid /\ rows'[r].msg = rows[r].msg
    BY <1>1, <1>10 DEF Shape, Retains, Preserved
  <2>2. ~Reserved
    BY <1>1, <1>10, ReservedNext DEF Creating, Reserving
  <2>3. RowsFollow(U)'
    BY <1>3, <2>1 DEF UidsInv, RowsFollow, MsgOf
  <2>4. BelowUidnext'
    BY <2>1 DEF NextInv, BelowUidnext
  <2> QED
    BY <2>1, <2>2, <2>3, <2>4 DEF NextInv
<1>11. /\ Indices' = Indices /\ CreatingRecords' = CreatingRecords
       /\ \A n : Rank(n)' = Rank(n)
       /\ Ascending(U)' /\ Sources(U)' /\ HiddenLast'
  BY <1>3, JournalStays
<1>12. spent.rebuilds = 0 => applied' = Indices
  <2>1. SUFFICES ASSUME spent.rebuilds = 0 PROVE applied' = Indices
    OBVIOUS
  <2>2. a = Len(journal)
    BY <1>1, <2>1, PassFields DEF CaughtUp, Indices
  <2> QED
    BY <1>1, <1>2, <2>2 DEF Indices
<1>13. NextInv(U)'
  <2>1. \A n \in CreatingRecords' : NoneWasted' => U[n] = Rank(n)'
    BY <1>3, <1>11 DEF NextInv, NoneWasted
  <2>2. NoneWasted' => uidnext' = Cardinality(DOMAIN rows') + (IF Reserved' THEN 2 ELSE 1)
    BY <1>3, <1>7, <1>9, <1>10 DEF NoneWasted
  <2>3. spent'.rebuilds = 0 =>
          \A n \in Indices' \ applied' : journal'[n].type = "delivered" => U[n] = uidnext'
    BY <1>3, <1>11, <1>12
  <2>4. BelowUidnext'
    BY <1>9, <1>10
  <2> QED
    BY <2>1, <2>2, <2>3, <2>4 DEF NextInv
<1> QED
  BY <1>9, <1>10, <1>11, <1>13 DEF UidsInv

(* The journal grows by a record whose UID is the next one.                *)
LEMMA UidsGrow ==
  ASSUME IInv, SafeInv, ScanInv, AppliedInv, NEW U \in [Indices -> Nat],
         UidsInv(U), NextInv(U), ReceiptsInv(U),
         Grown, Len(journal') = Len(journal) + 1, NEW N, N = Len(journal'),
         applied = Indices, UNCHANGED <<rows, uidnext, applied, receipts, spent>>,
         NEW u \in Nat,
         journal'[N].type \in Creating =>
           \A r \in DOMAIN rows : rows[r].uid < u,
         journal'[N].type = "delivered" => u = uidnext,
         journal'[N].type \in Reserving => u = journal'[N].dst /\ uidnext = u + 1,
         journal'[N].type \in {"copied", "moved"} =>
           SeesMessage(rows, journal'[N].src, journal'[N].msg),
         journal'[N].type = "expunged" => Sees(rows, journal'[N].src),
         journal'[N].type = "flags" => Sees(rows, journal'[N].src),
         journal'[N].type \in Types,
         journal'[N].type \in Reserving <=> Reserved,
         journal'[N].type \in Reserving <=> Reserved'
  PROVE  \E V \in [Indices' -> Nat] : UidsInv(V)' /\ NextInv(V)' /\ ReceiptsInv(V)'
<1> DEFINE rec == journal'[N]
           W == [n \in Indices' |-> IF n = N THEN u ELSE U[n]]
<1>1. /\ N \in Nat \ {0} /\ N - 1 = Len(journal) /\ N \notin Indices
      /\ Indices' = Indices \cup {N} /\ \A n \in Indices : n \in Nat \ {0} /\ n < N
      /\ \A n \in Indices : journal'[n] = journal[n]
      /\ Indices = 1 .. (N - 1)
  BY DEF Grown, Indices
<1>2. PICK V \in [Indices' -> Nat] : V[N] = u /\ \A n \in Indices : V[n] = U[n]
  <2>1. W \in [Indices' -> Nat] /\ W[N] = u /\ \A n \in Indices : W[n] = U[n]
    BY <1>1
  <2> QED
    BY <2>1
<1> HIDE DEF W
<1>3. \A n \in Indices : MsgOf(n)' = MsgOf(n)
  BY <1>1 DEF MsgOf
<1>4. /\ CreatingRecords \subseteq CreatingRecords' /\ CreatingRecords \subseteq Indices
      /\ \A n \in CreatingRecords' : \/ n \in CreatingRecords
                                     \/ n = N /\ rec.type \in Creating
  <2>1. \A n : n \in CreatingRecords' <=> n \in Indices' /\ journal'[n].type \in Creating
    BY DEF CreatingRecords
  <2>2. \A n : n \in CreatingRecords <=> n \in Indices /\ journal[n].type \in Creating
    BY DEF CreatingRecords
  <2> QED
    BY <1>1, <2>1, <2>2
<1>5. DOMAIN rows = CreatingRecords
  <2>1. applied = 1 .. (N - 1)
    BY <1>1
  <2>2. DOMAIN rows = CreatedAmong(N - 1)
    BY <2>1, CreatedRows
  <2> QED
    BY <1>1, <2>2 DEF CreatedAmong, CreatingRecords
<1>6. \A r \in CreatingRecords : r \in Indices /\ rows[r].uid = U[r] /\ rows[r].msg = MsgOf(r)
  BY <1>5 DEF UidsInv, RowsFollow, CreatingRecords
<1>7. Ascending(V)'
  <2>1. ASSUME NEW i \in CreatingRecords', NEW j \in CreatingRecords', i < j PROVE V[i] < V[j]
    <3>1. i \in Indices' /\ j \in Indices'
      BY <2>1 DEF CreatingRecords
    <3>2. CASE j = N
      BY <1>1, <1>2, <1>4, <1>5, <1>6, <2>1, <3>1, <3>2
    <3>3. CASE j # N
      <4>1. j \in CreatingRecords /\ j \in Indices
        BY <1>1, <1>4, <3>1, <3>3
      <4>2. i # N
        BY <1>1, <2>1, <4>1
      <4>3. i \in CreatingRecords /\ i \in Indices
        BY <1>1, <1>4, <3>1, <4>2
      <4> QED
        BY <1>2, <2>1, <4>1, <4>3 DEF UidsInv, Ascending
    <3> QED
      BY <3>2, <3>3
  <2>2. ASSUME NEW n \in Indices', journal'[n].type \in Reserving PROVE V[n] = journal'[n].dst
    BY <1>1, <1>2, <2>2 DEF UidsInv, Ascending
  <2> QED
    BY <2>1, <2>2 DEF Ascending
<1>8. RowsFollow(V)'
  <2>1. \A r \in DOMAIN rows : rows[r].uid = V[r] /\ rows[r].msg = MsgOf(r)'
    BY <1>2, <1>3, <1>5, <1>6
  <2> QED
    BY <2>1 DEF RowsFollow
<1>9. Sources(V)'
  <2>1. ASSUME NEW n \in Indices, journal[n].type \in Sourced PROVE SourceOf(V, n)'
    <3>1. PICK r \in CreatingRecords :
            /\ r < n /\ U[r] = journal[n].src
            /\ journal[n].type \in {"copied", "moved"} => journal[n].msg = MsgOf(r)
      BY <2>1 DEF UidsInv, Sources, SourceOf
    <3>2. r \in CreatingRecords' /\ V[r] = U[r] /\ MsgOf(r)' = MsgOf(r)
      BY <1>1, <1>2, <1>3, <1>4, <1>6
    <3> QED
      BY <1>1, <3>1, <3>2 DEF SourceOf
  <2>2. ASSUME rec.type \in Sourced PROVE SourceOf(V, N)'
    <3>1. \E r \in DOMAIN rows :
            /\ rows[r].uid = rec.src
            /\ rec.type \in {"copied", "moved"} => rows[r].msg = rec.msg
      BY <2>2 DEF Sourced, Sees, SeesMessage
    <3>2. PICK r \in CreatingRecords :
            /\ rows[r].uid = rec.src
            /\ rec.type \in {"copied", "moved"} => rows[r].msg = rec.msg
      BY <1>5, <3>1
    <3>3. /\ r \in CreatingRecords' /\ V[r] = rows[r].uid /\ MsgOf(r)' = rows[r].msg
          /\ r < N
      BY <1>1, <1>2, <1>3, <1>4, <1>6
    <3> QED
      BY <3>2, <3>3 DEF SourceOf
  <2>3. ASSUME NEW n \in Indices', journal'[n].type \in Sourced PROVE SourceOf(V, n)'
    BY <1>1, <2>1, <2>2, <2>3
  <2> QED
    BY <2>3 DEF Sources
<1>10. HiddenLast'
  <2>1. ASSUME NEW m \in Indices, journal[m].type \in Hiding, journal[m].src = rec.src,
               rec.type \in Hiding \cup {"copied"}
        PROVE  FALSE
    <3>1. PICK x \in DOMAIN rows : rows[x].uid = rec.src /\ rows[x].hidden = m
      BY <2>1 DEF AppliedInv, Effected
    <3>2. PICK y \in DOMAIN rows : rows[y].uid = rec.src /\ rows[y].hidden = 0
      BY <2>1 DEF Hiding, Sees, SeesMessage
    <3>3. x = y
      BY <3>1, <3>2 DEF SafeInv, Safe, UidsDiffer
    <3> QED
      BY <1>1, <3>1, <3>2, <3>3
  <2>2. ASSUME NEW m \in Indices', NEW n \in Indices',
               journal'[m].type \in Hiding, journal'[n].type \in Hiding \cup {"copied"},
               journal'[m].src = journal'[n].src, m # n
        PROVE  journal'[n].type = "copied" /\ n < m
    <3>1. CASE m \in Indices /\ n \in Indices
      BY <1>1, <2>2, <3>1 DEF UidsInv, HiddenLast
    <3>2. CASE m \in Indices /\ n = N
      BY <1>1, <2>1, <2>2, <3>2
    <3>3. CASE m = N /\ n \in Indices
      <4>1. journal[n].type \notin Hiding
        BY <1>1, <2>1, <2>2, <3>3
      <4> QED
        BY <1>1, <2>2, <3>3, <4>1
    <3> QED
      BY <1>1, <2>2, <3>1, <3>2, <3>3
  <2> QED
    BY <2>2 DEF HiddenLast
<1>11. NextInv(V)'
  <2>1. BelowUidnext'
    BY DEF NextInv, BelowUidnext
  <2>2. \A n \in Indices' \ applied' : journal'[n].type = "delivered" => V[n] = uidnext'
    BY <1>1, <1>2
  <2>3. ASSUME NoneWasted'
        PROVE  /\ \A n \in CreatingRecords' : V[n] = Rank(n)'
               /\ uidnext' = Cardinality(DOMAIN rows') + (IF Reserved' THEN 2 ELSE 1)
    <3>1. /\ \A n \in CreatingRecords : U[n] = Rank(n)
          /\ uidnext = Cardinality(DOMAIN rows) + (IF Reserved THEN 2 ELSE 1)
      BY <2>3 DEF NextInv, NoneWasted
    <3>2. \A n \in Indices : CreatedAmong(n)' = CreatedAmong(n)
      BY <1>1 DEF CreatedAmong
    <3>3. \A n \in CreatingRecords : V[n] = Rank(n)'
      BY <1>2, <1>6, <3>1, <3>2 DEF Rank
    <3>4. ASSUME rec.type \in Creating PROVE u = Rank(N)'
      <4>1. CreatedAmong(N)' = DOMAIN rows \cup {N} /\ N \notin DOMAIN rows
        <5>1. DOMAIN rows = {n \in 1 .. (N - 1) : journal[n].type \in Creating}
          BY <1>1, <1>5 DEF CreatingRecords
        <5> QED
          BY <1>1, <3>4, <5>1 DEF CreatedAmong
      <4>2. IsFiniteSet(DOMAIN rows) /\ Cardinality(DOMAIN rows) \in Nat
        <5>1. IsFiniteSet(1 .. (N - 1)) /\ DOMAIN rows \subseteq 1 .. (N - 1)
          BY <1>1, <1>5, FS_Interval DEF CreatingRecords
        <5> QED
          BY <5>1, FS_Subset, FS_CardinalityType
      <4>3. Rank(N)' = Cardinality(DOMAIN rows) + 1
        BY <4>1, <4>2, FS_AddElement DEF Rank
      <4> QED
        BY <3>1, <3>4, <4>2, <4>3 DEF Creating, Reserving
    <3>5. \A n \in CreatingRecords' : V[n] = Rank(n)'
      BY <1>2, <1>4, <3>3, <3>4 DEF CreatingRecords
    <3> QED
      BY <3>1, <3>5
  <2> QED
    BY <2>1, <2>2, <2>3 DEF NextInv
<1>12. ReceiptsInv(V)'
  BY <1>1, <1>2, <1>4, <1>6 DEF ReceiptsInv
<1> QED
  BY <1>2, <1>7, <1>8, <1>9, <1>10, <1>11, <1>12 DEF UidsInv

Promised == \E U \in [Indices -> Nat] : UidsInv(U) /\ NextInv(U) /\ ReceiptsInv(U)

LEMMA PromisedStays ==
  ASSUME IInv, [Next]_vars, Promised, UNCHANGED <<journal, uidnext, applied, receipts>>,
         DOMAIN rows' = DOMAIN rows,
         \A r \in DOMAIN rows : rows'[r].uid = rows[r].uid /\ rows'[r].msg = rows[r].msg,
         NoneWasted' => (Reserved' <=> Reserved)
  PROVE  Promised'
<1>1. PICK U \in [Indices -> Nat] : UidsInv(U) /\ NextInv(U) /\ ReceiptsInv(U)
  BY DEF Promised
<1>2. UidsInv(U)' /\ NextInv(U)'
  BY <1>1, UidsStay, QuietBefore
<1>3. ReceiptsInv(U)' /\ U \in [Indices' -> Nat]
  BY <1>1 DEF ReceiptsInv, CreatingRecords, Indices
<1> QED
  BY <1>2, <1>3 DEF Promised

LEMMA PromisedDelivers ==
  ASSUME IInv, SafeInv, ScanInv, AppliedInv, WorkInv, CaughtUp, Promised, Deliver
  PROVE  Promised'
<1>1. PICK U \in [Indices -> Nat] : UidsInv(U) /\ NextInv(U) /\ ReceiptsInv(U)
  BY DEF Promised
<1>2. /\ request'.pc = "materialize" /\ request.pc = "idle" /\ serving
      /\ Len(journal') = Len(journal) + 1 /\ Grown
      /\ journal'[Len(journal')].type = "delivered"
  BY DeliverFields
<1>3. applied = Indices /\ UNCHANGED <<rows, uidnext, applied, receipts, spent>>
  BY <1>2 DEF Deliver, CaughtUp, Answering, catalogVars
<1>4. ~Reserved /\ ~Reserved'
  BY <1>2 DEF Reserved, Answering, Reserving
<1>5. uidnext \in Nat /\ \A r \in DOMAIN rows : rows[r].uid < uidnext
  BY <1>1 DEF IInv, CatalogInv, NextInv, BelowUidnext
<1>6. PICK N : N = Len(journal')
  OBVIOUS
<1>7. journal'[N].type = "delivered" /\ "delivered" \in Types /\ "delivered" \notin Reserving
  BY <1>2, <1>6 DEF Types, Reserving
<1>8. \E V \in [Indices' -> Nat] : UidsInv(V)' /\ NextInv(V)' /\ ReceiptsInv(V)'
  BY <1>1, <1>2, <1>3, <1>4, <1>5, <1>6, <1>7, UidsGrow
<1> QED
  BY <1>8 DEF Promised

LEMMA PromisedAppends ==
  ASSUME IInv, SafeInv, ScanInv, AppliedInv, WorkInv, CaughtUp, AskInv, Promised, AppendWrite
  PROVE  Promised'
<1>1. PICK U \in [Indices -> Nat] : UidsInv(U) /\ NextInv(U) /\ ReceiptsInv(U)
  BY DEF Promised
<1>2. /\ request'.pc = "materialize" /\ request.pc = "append"
      /\ Len(journal') = Len(journal) + 1 /\ Grown
      /\ journal'[Len(journal')].type = request.type
      /\ journal'[Len(journal')].src = request.src
      /\ journal'[Len(journal')].dst = request.dst
      /\ journal'[Len(journal')].msg = request.msg
  BY AppendFields
<1>3. applied = Indices /\ UNCHANGED <<rows, uidnext, applied, receipts, spent>>
  BY <1>2 DEF AppendWrite, CaughtUp, Answering, catalogVars, WorkInv, PassWork
<1>4. PICK N : N = Len(journal')
  OBVIOUS
<1>5. request.type \in Reserving \cup {"expunged", "flags"} /\ request.dst \in Nat
      /\ request.type \in Types
  BY <1>2, RequestFields DEF WorkInv, AskWork, IInv
<1>6. request.type \in Reserving <=> Reserved
  BY <1>2 DEF Reserved, Answering
<1>7. request.type \in Reserving <=> Reserved'
  <2>1. Len(journal') \notin applied'
    BY <1>2, <1>3 DEF Indices, Grown
  <2> QED
    BY <1>2, <2>1 DEF Reserved, Answering
<1>8. /\ request.type \in Creating => \A r \in DOMAIN rows : rows[r].uid < request.dst
      /\ request.type # "delivered"
      /\ request.type \in Reserving => uidnext = request.dst + 1
      /\ request.type \in {"copied", "moved"} => SeesMessage(rows, request.src, request.msg)
      /\ request.type = "expunged" => Sees(rows, request.src)
      /\ request.type = "flags" => Sees(rows, request.src)
  <2>1. request.type # "delivered" /\ (request.type \in Creating => request.type \in Reserving)
    BY <1>5 DEF Reserving, Creating
  <2>2. request.type \in Reserving =>
          uidnext = request.dst + 1 /\ \A r \in DOMAIN rows : rows[r].uid < request.dst
    BY <1>2 DEF AskInv
  <2>3. /\ request.type \in {"copied", "moved"} => SeesMessage(rows, request.src, request.msg)
        /\ request.type = "expunged" => Sees(rows, request.src)
        /\ request.type = "flags" => Sees(rows, request.src)
    BY <1>2 DEF AskInv
  <2> QED
    BY <2>1, <2>2, <2>3
<1>9. \E V \in [Indices' -> Nat] : UidsInv(V)' /\ NextInv(V)' /\ ReceiptsInv(V)'
  <2>1. /\ journal'[N].type = request.type /\ journal'[N].src = request.src
        /\ journal'[N].dst = request.dst /\ journal'[N].msg = request.msg
    BY <1>2, <1>4
  <2> QED
    BY <1>1, <1>2, <1>3, <1>4, <1>5, <1>6, <1>7, <1>8, <2>1, UidsGrow
<1> QED
  BY <1>9 DEF Promised

LEMMA PromisedReserves ==
  ASSUME IInv, WorkInv, CaughtUp, AskInv, Promised, WriteUidnext
  PROVE  Promised'
<1>1. PICK U \in [Indices -> Nat] : UidsInv(U) /\ NextInv(U) /\ ReceiptsInv(U)
  BY DEF Promised
<1>2. /\ UNCHANGED <<journal, rows, applied, receipts, spent>>
      /\ uidnext' = request.dst + 1 /\ request.pc = "write uidnext"
      /\ request'.pc = "append" /\ request'.type = request.type
  BY GotoFields DEF WriteUidnext, At
<1>3. /\ uidnext' = uidnext + 1 /\ uidnext \in Nat
      /\ \A r \in DOMAIN rows : rows[r].uid \in Nat
  <2>1. \A r \in DOMAIN rows : rows[r] \in RowType
    BY DEF IInv, CatalogInv, Rows
  <2> QED
    BY <1>2, <2>1 DEF AskInv, IInv, CatalogInv, RowType
<1>4. applied = Indices
  BY <1>2 DEF CaughtUp, Answering, WorkInv, PassWork
<1>5. ~Reserved /\ Reserved'
  BY <1>2 DEF Reserved, Answering, WorkInv, AskWork
<1>6. /\ Indices' = Indices /\ CreatingRecords' = CreatingRecords
      /\ \A n : Rank(n)' = Rank(n)
  BY <1>1, <1>2, JournalStays
<1>7. UidsInv(U)'
  <2>1. RowsFollow(U)'
    BY <1>1, <1>2 DEF UidsInv, RowsFollow, MsgOf
  <2> QED
    BY <1>1, <1>2, <2>1, JournalStays DEF UidsInv
<1>8. NextInv(U)'
  <2>1. BelowUidnext'
    <3>1. ASSUME NEW r \in DOMAIN rows PROVE rows[r].uid < uidnext + 1
      <4>1. rows[r].uid < uidnext /\ rows[r].uid \in Nat /\ uidnext \in Nat
        BY <1>1, <1>3 DEF NextInv, BelowUidnext
      <4> QED
        BY <4>1
    <3> QED
      BY <1>2, <1>3, <3>1 DEF BelowUidnext
  <2>2. ASSUME NoneWasted'
        PROVE  /\ \A n \in CreatingRecords' : U[n] = Rank(n)'
               /\ uidnext' = Cardinality(DOMAIN rows') + (IF Reserved' THEN 2 ELSE 1)
    <3>1. /\ \A n \in CreatingRecords : U[n] = Rank(n)
          /\ uidnext = Cardinality(DOMAIN rows) + 1
      BY <1>1, <1>2, <1>5, <2>2 DEF NextInv, NoneWasted
    <3>2. Cardinality(DOMAIN rows) \in Nat
      <4>1. DOMAIN rows \subseteq 1 .. Len(journal) /\ Len(journal) \in Nat
        BY PassFields DEF IInv, CatalogInv, Rows
      <4>2. IsFiniteSet(1 .. Len(journal))
        BY <4>1, FS_Interval
      <4> QED
        BY <4>1, <4>2, FS_Subset, FS_CardinalityType
    <3>3. \A n \in CreatingRecords' : U[n] = Rank(n)'
      BY <1>6, <3>1
    <3>4. Cardinality(DOMAIN rows') = Cardinality(DOMAIN rows)
      BY <1>2
    <3>5. \A c \in Nat : (c + 1) + 1 = c + 2
      OBVIOUS
    <3> QED
      BY <1>3, <1>5, <3>1, <3>2, <3>3, <3>4, <3>5
  <2> QED
    BY <1>2, <1>4, <1>6, <2>1, <2>2 DEF NextInv
<1>9. ReceiptsInv(U)'
  BY <1>1, <1>2, <1>6 DEF ReceiptsInv
<1> QED
  BY <1>6, <1>7, <1>8, <1>9 DEF Promised

LEMMA PromisedRebuilds ==
  ASSUME IInv, [Next]_vars, Quiet', Promised, Rebuild
  PROVE  Promised'
<1>1. PICK U \in [Indices -> Nat] : UidsInv(U) /\ NextInv(U) /\ ReceiptsInv(U)
  BY DEF Promised
<1>2. /\ UNCHANGED <<journal, receipts>> /\ DOMAIN rows' = {} /\ uidnext' = 1
      /\ request'.pc = "idle"
  BY NoRows, RestartFields, NoRequestFields DEF Rebuild, EmptyCatalog
<1>3. spent'.rebuilds # 0 /\ NoneWasted' /\ NoneWasted
  BY QuietBefore DEF Quiet
<1>4. /\ Indices' = Indices /\ CreatingRecords' = CreatingRecords
      /\ \A n : Rank(n)' = Rank(n)
  BY <1>1, <1>2, JournalStays
<1>5. UidsInv(U)'
  <2>1. RowsFollow(U)'
    BY <1>2 DEF RowsFollow
  <2> QED
    BY <1>1, <1>2, <2>1, JournalStays DEF UidsInv
<1>6. ~Reserved'
  BY <1>2 DEF Reserved, Answering
<1>7. NextInv(U)'
  <2>1. Cardinality(DOMAIN rows') = 0
    BY <1>2, FS_EmptySet
  <2> QED
    BY <1>1, <1>2, <1>3, <1>4, <1>6, <2>1 DEF NextInv, BelowUidnext
<1>8. ReceiptsInv(U)'
  BY <1>1, <1>2, <1>4 DEF ReceiptsInv
<1> QED
  BY <1>4, <1>5, <1>7, <1>8 DEF Promised

LEMMA PromisedAnswers ==
  ASSUME IInv, WorkInv, CaughtUp', [Next]_vars, Promised, FinishPass
  PROVE  Promised'
<1>1. PICK U \in [Indices -> Nat] : UidsInv(U) /\ NextInv(U) /\ ReceiptsInv(U)
  BY DEF Promised
<1>2. /\ UNCHANGED <<journal, rows, uidnext, applied, spent>> /\ Answer
      /\ serving' <=> serving \/ pass.kind = "start"
  BY DEF FinishPass, Answer, catalogVars
<1>3. Reserved' <=> Reserved
  <2>1. CASE pass.kind = "catchUp"
    <3>1. request.pc = "catching up" /\ request' = [request EXCEPT !.pc = "check"]
      BY <1>2, <2>1 DEF Answer, WorkInv, PassWork
    <3>2. request'.pc = "check"
      BY <3>1, GotoFields DEF Goto
    <3> QED
      BY <3>1, <3>2 DEF Reserved, Answering
  <2>2. CASE pass.kind = "post"
    <3>1. request.pc = "materializing" /\ request'.pc = "idle"
      BY <1>2, <2>2, NoRequestFields DEF Answer, WorkInv, PassWork
    <3>2. serving /\ Len(journal) > 0
      BY <3>1 DEF WorkInv, PassWork, AskWork, Answering
    <3>3. applied = Indices
      BY <1>2, <3>1, <3>2 DEF CaughtUp, Answering, Indices
    <3>4. Len(journal) \in applied
      BY <3>2, <3>3, PassFields DEF Indices
    <3> QED
      BY <3>1, <3>4 DEF Reserved, Answering
  <2>3. CASE pass.kind \notin {"catchUp", "post"}
    BY <1>2, <2>3 DEF Answer, Reserved, Answering
  <2> QED
    BY <2>1, <2>2, <2>3
<1>4. UidsInv(U)' /\ NextInv(U)'
  BY <1>1, <1>2, <1>3, UidsStay, QuietBefore
<1>5. ASSUME NEW t \in receipts' PROVE t.rec \in CreatingRecords /\ U[t.rec] = t.uid
  <2>1. CASE t \in receipts
    BY <1>1, <2>1 DEF ReceiptsInv
  <2>2. CASE t \notin receipts
    <3>1. /\ request.pc = "materializing" /\ request.dst > 0
          /\ t.uid = request.dst /\ t.rec = request.src
      BY <1>2, <1>5, <2>2 DEF Answer
    <3>2. /\ Len(journal) > 0 /\ request.src = Len(journal)
          /\ journal[Len(journal)].dst = request.dst
          /\ journal[Len(journal)].type \in Reserving
      BY <3>1 DEF WorkInv, AskWork, Answering
    <3>3. Len(journal) \in Indices
      BY <3>2, PassFields DEF Indices
    <3> QED
      BY <1>1, <3>1, <3>2, <3>3
         DEF CreatingRecords, Creating, Reserving, UidsInv, Ascending
  <2> QED
    BY <2>1, <2>2
<1>6. ReceiptsInv(U)' /\ Indices' = Indices
  BY <1>2, <1>5 DEF ReceiptsInv, CreatingRecords, Indices
<1> QED
  BY <1>4, <1>6 DEF Promised

LEMMA PromisedStep ==
  ASSUME IInv, SafeInv, ScanInv, AppliedInv, WorkInv, CaughtUp, CaughtUp', AskInv, Promised,
         Quiet, Quiet', [Next]_vars
  PROVE  Promised'
<1> USE DEF Reserved, Answering
<1>1. CASE Asks
  <2>1. /\ UNCHANGED <<rows, applied, receipts>> /\ request.pc # "materializing"
        /\ request.pc # "materialize"
    BY <1>1, AskKeeps DEF WorkInv
  <2>2. ASSUME UNCHANGED <<journal, uidnext>>,
               NoneWasted' => (Reserved' <=> Reserved)
        PROVE  Promised'
    BY <2>1, <2>2, PromisedStays
  <2>3. ASSUME NEW t \in {"expunged", "flags"}, NEW u, NEW f, BeginUpdate(t, u, f)
        PROVE  Promised'
    <3>1. /\ UNCHANGED <<journal, uidnext>> /\ request.pc = "idle"
          /\ request'.pc = "append" /\ request'.type = t
      BY <2>3, BeginUpdateFields DEF BeginUpdate, Free, catalogVars
    <3>2. ~Reserved /\ ~Reserved'
      BY <3>1 DEF Reserving
    <3> QED
      BY <2>2, <3>1, <3>2
  <2>4. ASSUME NEW t \in Reserving, NEW u, BeginWrite(t, u) PROVE Promised'
    <3>1. /\ UNCHANGED <<journal, uidnext>> /\ request.pc = "idle"
          /\ request'.pc = "catch up"
      BY <2>4, BeginWriteFields DEF BeginWrite, Free, catalogVars
    <3> QED
      BY <2>2, <3>1
  <2>5. CASE CheckWrite
    <3>1. /\ UNCHANGED <<journal, uidnext>> /\ request.pc = "check"
          /\ request'.pc \in {"idle", "read uidnext"}
      BY <2>5, CheckFields, NoRequestFields DEF CheckWrite, At, catalogVars
    <3> QED
      BY <2>2, <3>1
  <2>6. CASE ReadUidnext
    <3>1. /\ UNCHANGED <<journal, uidnext>> /\ request.pc = "read uidnext"
          /\ request'.pc = "write uidnext"
      BY <2>6, ReadFields DEF ReadUidnext, At, catalogVars
    <3> QED
      BY <2>2, <3>1
  <2>7. CASE AppendFails
    <3>1. UNCHANGED <<journal, uidnext>> /\ ~NoneWasted'
      BY <2>7, QuietBefore DEF AppendFails, catalogVars
    <3> QED
      BY <2>2, <3>1
  <2> QED
    BY <1>1, <2>3, <2>4, <2>5, <2>6, <2>7, PromisedDelivers, PromisedAppends, PromisedReserves
       DEF Asks
<1>2. ASSUME UNCHANGED <<journal, catalogVars, receipts>>, NoneWasted' => (Reserved' <=> Reserved)
      PROVE  Promised'
  BY <1>2, PromisedStays DEF catalogVars
<1>3. CASE CatchUp \/ Materialize
  <2>1. /\ UNCHANGED <<journal, catalogVars, receipts>>
        /\ \/ request.pc = "catch up" /\ request'.pc = "catching up"
           \/ request.pc = "materialize" /\ request'.pc = "materializing"
    BY <1>3, GotoFields DEF CatchUp, Materialize, At
  <2>2. Reserved' <=> Reserved
    BY <2>1 DEF catalogVars
  <2> QED
    BY <1>2, <2>1, <2>2
<1>4. CASE \/ RetryFires \/ SkipRecord \/ HoldRecord
           \/ PassKept /\ UNCHANGED <<journal, catalogVars, receipts, serving, request>>
  <2>1. UNCHANGED <<journal, catalogVars, receipts, request>>
    BY <1>4 DEF RetryFires, SkipRecord, HoldRecord
  <2>2. Reserved' <=> Reserved
    BY <2>1 DEF catalogVars
  <2> QED
    BY <1>2, <2>1, <2>2
<1>5. CASE ApplyRecord
  <2>1. UNCHANGED <<journal, receipts, request>>
    BY <1>5 DEF ApplyRecord
  <2>2. CASE pass.at \in applied
    <3>1. /\ DOMAIN rows' = DOMAIN rows /\ uidnext' = uidnext /\ applied' = applied
          /\ \A r \in DOMAIN rows : rows'[r].uid = rows[r].uid /\ rows'[r].msg = rows[r].msg
      BY <1>5, <2>2, Reapplied
    <3>2. Reserved' <=> Reserved
      BY <2>1, <3>1
    <3> QED
      BY <2>1, <3>1, <3>2, PromisedStays
  <2>3. CASE pass.at \notin applied
    <3>1. PICK U \in [Indices -> Nat] : UidsInv(U) /\ NextInv(U) /\ ReceiptsInv(U)
      BY DEF Promised
    <3>2. UidsInv(U)' /\ NextInv(U)'
      BY <1>5, <2>3, <3>1, UidsApply
    <3>3. ReceiptsInv(U)' /\ Indices' = Indices
      BY <2>1, <3>1 DEF ReceiptsInv, CreatingRecords, Indices
    <3> QED
      BY <3>1, <3>2, <3>3 DEF Promised
  <2> QED
    BY <2>2, <2>3
<1>6. CASE Crash
  <2>1. UNCHANGED <<journal, catalogVars, receipts>> /\ ~NoneWasted'
    BY <1>6, RestartFields, QuietBefore DEF Crash
  <2> QED
    BY <1>2, <2>1
<1>7. ~AbortPass
  BY QuietBefore DEF Quiet
<1>8. CASE FinishPass
  BY <1>8, PromisedAnswers
<1>9. CASE Rebuild
  BY <1>9, PromisedRebuilds
<1> QED
  BY <1>1, <1>3, <1>4, <1>5, <1>6, <1>7, <1>8, <1>9, Steps

(* While nothing is held the next record of every pass can be applied.     *)
LEMMA NothingToHold ==
  ASSUME IInv, ScanInv, AppliedInv, Promised, NEW a \in Indices,
         a \in applied \/ 1 .. (a - 1) \subseteq applied
  PROVE  Effect(Catalog, a) # {}
<1>1. PICK U \in [Indices -> Nat] : UidsInv(U) /\ BelowUidnext
  BY DEF Promised, NextInv
<1> QED
  BY <1>1, NextApplies, AppliesAgain

QuietInv == Quiet => WorkInv /\ CaughtUp /\ AskInv /\ Promised

LEMMA QuietInvStep ==
  ASSUME IInv, SafeInv, ScanInv, AppliedInv, FlagsInv, QuietInv, [Next]_vars
  PROVE  QuietInv'
<1> SUFFICES ASSUME Quiet' PROVE WorkInv' /\ CaughtUp' /\ AskInv' /\ Promised'
  BY DEF QuietInv
<1>1. Quiet /\ ~AbortPass
  BY QuietBefore DEF Quiet
<1>2. WorkInv /\ CaughtUp /\ AskInv /\ Promised
  BY <1>1 DEF QuietInv
<1>3. ~HoldRecord
  <2>1. SUFFICES ASSUME HoldRecord PROVE FALSE
    OBVIOUS
  <2>2. bad = {}
    BY <1>1 DEF Quiet, NothingHeld, FlagsInv
  <2>3. Effect(Catalog, pass.at) = {} /\ ~OwnHeld /\ ~PassIdle /\ pass.at <= pass.end
    BY <2>1, <2>2 DEF HoldRecord, Scanning, Outcome
  <2>4. pass.at \in Indices /\ 1 .. (pass.at - 1) \subseteq applied
    BY <2>3, PassFields DEF ScanInv, Indices
  <2> QED
    BY <1>2, <2>3, <2>4, NothingToHold
<1>4. BelowUidnext
  BY <1>2 DEF Promised, NextInv
<1>5. WorkInv'
  BY <1>1, <1>2, PassWorkStep, AskWorkStep DEF WorkInv
<1>6. CaughtUp'
  BY <1>1, <1>2, <1>3, CaughtUpStep
<1>7. AskInv'
  BY <1>1, <1>2, <1>4, AskInvStep
<1>8. Promised'
  BY <1>1, <1>2, <1>6, PromisedStep
<1> QED
  BY <1>5, <1>6, <1>7, <1>8

LEMMA InitQuietInv == Init => QuietInv
<1> SUFFICES ASSUME Init PROVE WorkInv /\ CaughtUp /\ AskInv /\ Promised
  BY DEF QuietInv
<1>1. /\ Len(journal) = 0 /\ Indices = {} /\ DOMAIN rows = {} /\ applied = {} /\ uidnext = 1
      /\ receipts = {} /\ serving = TRUE /\ holds = {}
      /\ request.pc = "idle" /\ request.dst = 0
      /\ pass.kind = "none" /\ pass.held = {}
  BY NoRows, NoRequestFields DEF Init, NoPass, Indices, EmptyCatalog
<1>2. WorkInv /\ CaughtUp /\ AskInv
  BY <1>1 DEF WorkInv, PassWork, AskWork, CaughtUp, OwnHeld, Answering, AskInv
<1>3. PICK U : U \in [Indices -> Nat]
  <2>1. [n \in Indices |-> 0] \in [Indices -> Nat]
    OBVIOUS
  <2> QED
    BY <2>1
<1>4. UidsInv(U) /\ ReceiptsInv(U)
  BY <1>1 DEF UidsInv, Ascending, RowsFollow, Sources, HiddenLast, ReceiptsInv, CreatingRecords
<1>5. NextInv(U)
  <2>1. Cardinality(DOMAIN rows) = 0 /\ ~Reserved
    BY <1>1, FS_EmptySet DEF Reserved, Answering
  <2> QED
    BY <1>1, <2>1 DEF NextInv, BelowUidnext, CreatingRecords
<1> QED
  BY <1>2, <1>3, <1>4, <1>5 DEF Promised

LEMMA QuietInvariant == Spec => []QuietInv
<1>1. IInv /\ SafeInv /\ (ScanInv /\ AppliedInv /\ FlagsInv) /\ QuietInv /\ [Next]_vars => QuietInv'
  BY QuietInvStep
<1> QED
  BY <1>1, InitQuietInv, Invariant, SafeInvariant, ReplayInvariant, PTL DEF Spec

(* While no account is held every record can be applied when its turn      *)
(* comes, and applied again: UIDs ascend along the journal, a record's     *)
(* source is a membership of an older record which no other record hides,  *)
(* and a catalog that is built anew counts to the same UIDs.               *)
THEOREM RecordsApplyCorrect == Spec => []RecordsApplyUnlessHeld
<1>1. IInv /\ (ScanInv /\ AppliedInv /\ FlagsInv) /\ QuietInv => RecordsApplyUnlessHeld
  <2> SUFFICES ASSUME IInv, ScanInv, AppliedInv, QuietInv, Quiet,
                      NEW n \in Indices, n \in applied \/ 1 .. (n - 1) \subseteq applied
               PROVE  Effect(Catalog, n) # {}
    BY DEF RecordsApplyUnlessHeld, RecordsApply, Quiet
  <2> QED
    BY NothingToHold DEF QuietInv
<1> QED
  BY <1>1, Invariant, ReplayInvariant, QuietInvariant, PTL

(* While no account is held the UID in an answer belongs to the record the *)
(* answer is about, in the catalog it was given from and in those built    *)
(* from the journal later.                                                 *)
THEOREM ReceiptsHonouredCorrect == Spec => []ReceiptsHonouredUnlessHeld
<1>1. IInv /\ (ScanInv /\ AppliedInv /\ FlagsInv) /\ QuietInv => ReceiptsHonouredUnlessHeld
  <2> SUFFICES ASSUME IInv, AppliedInv, QuietInv, Quiet, NEW t \in receipts,
                      NEW r \in DOMAIN rows, rows[r].uid = t.uid
               PROVE  r = t.rec
    BY DEF ReceiptsHonouredUnlessHeld, ReceiptsHonoured, Quiet
  <2>1. PICK U \in [Indices -> Nat] : UidsInv(U) /\ ReceiptsInv(U)
    BY DEF QuietInv, Promised
  <2>2. /\ r \in CreatingRecords /\ t.rec \in CreatingRecords /\ U[r] = U[t.rec]
        /\ r \in Indices /\ t.rec \in Indices
    BY <2>1, PassFields DEF UidsInv, RowsFollow, ReceiptsInv, AppliedInv, CreatingRecords
  <2>3. ~(r < t.rec) /\ ~(t.rec < r)
    <3>1. U[r] \in Nat /\ U[t.rec] \in Nat
      BY <2>2
    <3> QED
      BY <2>1, <2>2, <3>1 DEF UidsInv, Ascending
  <2> QED
    BY <2>2, <2>3 DEF Indices
<1> QED
  BY <1>1, Invariant, ReplayInvariant, QuietInvariant, PTL
=============================================================================
