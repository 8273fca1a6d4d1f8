------------------------------ MODULE FormatsProofs ------------------------------
(***************************************************************************)
(* What is written for another to read, for every value of every type.     *)
(* Requests and answers survive the wire: their checks do not change what  *)
(* they check, and blanking is harmless where a text is.  Records survive  *)
(* the journal: a reading is a fold over a layout, a fold has a trace, and *)
(* a layout that lays out the parts a value is written as reads the value  *)
(* from them.  A shorter payload is read as far as it goes, or refused.    *)
(***************************************************************************)
EXTENDS Formats, SequenceTheorems, FiniteSetTheorems, WellFoundedInduction, TLAPS

(* What a text is on the wire, where none is an empty one. *)
Blank(s) == IF s = None THEN << >> ELSE s

(* A blanked text is a text, blank once and for all. *)
LEMMA BlankIsString ==
  ASSUME NEW s \in Nullables
  PROVE  /\ Blank(s) \in CStrings /\ Blank(s) # None
         /\ NoControl(Blank(s)) = NoControl(s)
         /\ Required(Blank(s)) = Required(s)
         /\ Blank(Blank(s)) = Blank(s) /\ Blank(Kept(Blank(s))) = Blank(s)
         /\ Required(s) => Blank(s) = s
  <1>1. << >> \in CStrings
    BY RequestsAssumption DEF CStrings
  <1>2. NoControl(<< >>) /\ ~Required(<< >>)
    BY DEF NoControl, Required, ToSet
  <1>3. Blank(s) \in CStrings
    BY <1>1 DEF Nullables, Blank
  <1>4. None \notin CStrings
    BY NoneAssumption
  <1> QED BY <1>1, <1>2, <1>3, <1>4 DEF NoControl, Required, Blank, Kept

(* A checked request is the same when it is blanked: a LIST, *)
LEMMA MailboxListBlanked ==
  ASSUME NEW b \in BodyTypes("list")
  PROVE  LET c == Blanked(b)
         IN  /\ c \in BodyTypes("list")
             /\ DOMAIN c = DOMAIN b
             /\ MailboxList(b) # None => MailboxList(c) # None
             /\ MailboxList(c) # None => Blanked(MailboxList(c)) = c
  <1> DEFINE c == Blanked(b)
  <1>1. b \in BodyTypes("list") /\ DOMAIN b = {"account", "prefix"}
    BY DEF BodyTypes
  <1>2. /\ c = [f \in {"account", "prefix"} |-> Blank(b[f])]
        /\ c.account = Blank(b.account)
        /\ c.prefix = Blank(b.prefix)
    BY <1>1 DEF Blanked, Blank
  <1>3. b.account \in Nullables /\ b.prefix \in Nullables
    BY DEF BodyTypes
  <1>5. c \in BodyTypes("list")
    BY <1>2, <1>3, BlankIsString DEF BodyTypes, Nullables
  <1>4. Blanked(c) = c
    BY <1>1, <1>2, <1>3, BlankIsString DEF Blanked
  <1>6. MailboxList(b) # None => MailboxList(c) # None
    <2>1. c # None
      BY <1>5, NoneAssumption DEF RequestKinds
    <2> QED BY <1>2, <1>3, <1>4, <2>1, BlankIsString DEF MailboxList, IsPlain
  <1>7. MailboxList(c) # None => Blanked(MailboxList(c)) = c
    BY <1>4 DEF MailboxList
  <1> QED BY <1>2, <1>1, <1>5, <1>6, <1>7

(* a SELECT or STATUS, *)
LEMMA MailboxSelectBlanked ==
  ASSUME NEW b \in BodyTypes("select")
  PROVE  LET c == Blanked(b)
         IN  /\ c \in BodyTypes("select")
             /\ DOMAIN c = DOMAIN b
             /\ MailboxSelect(b) # None => MailboxSelect(c) # None
             /\ MailboxSelect(c) # None => Blanked(MailboxSelect(c)) = c
  <1> DEFINE c == Blanked(b)
  <1>1. b \in BodyTypes("select") /\ DOMAIN b = {"account", "id", "name"}
    BY DEF BodyTypes
  <1>2. /\ c = [f \in {"account", "id", "name"} |-> Blank(b[f])]
        /\ c.account = Blank(b.account)
        /\ c.id = Blank(b.id)
        /\ c.name = Blank(b.name)
    BY <1>1 DEF Blanked, Blank
  <1>3. b.account \in Nullables /\ b.id \in Nullables /\ b.name \in Nullables
    BY DEF BodyTypes
  <1>5. c \in BodyTypes("select")
    BY <1>2, <1>3, BlankIsString DEF BodyTypes, Nullables
  <1>6. MailboxSelect(b) # None => MailboxSelect(c) # None
    <2>1. [c EXCEPT !.id = Kept(@), !.name = Kept(@)] \in BodyTypes("select")
      BY <1>5 DEF BodyTypes, Kept, Nullables
    <2>2. [c EXCEPT !.id = Kept(@), !.name = Kept(@)] # None
      BY <2>1, NoneAssumption DEF RequestKinds
    <2> QED BY <1>2, <1>3, <2>2, BlankIsString DEF MailboxSelect, IsPlain
  <1>7. MailboxSelect(c) # None => Blanked(MailboxSelect(c)) = c
    BY <1>2, <1>3, BlankIsString DEF MailboxSelect, Blanked, Blank, Kept
  <1> QED BY <1>2, <1>1, <1>5, <1>6, <1>7

(* a FETCH, *)
LEMMA MessageFetchBlanked ==
  ASSUME NEW b \in BodyTypes("fetch")
  PROVE  LET c == Blanked(b)
         IN  /\ c \in BodyTypes("fetch")
             /\ DOMAIN c = DOMAIN b
             /\ MessageFetch(b) # None => MessageFetch(c) # None
             /\ MessageFetch(c) # None => Blanked(MessageFetch(c)) = c
  <1> DEFINE c == Blanked(b)
  <1>1. b \in BodyTypes("fetch") /\ DOMAIN b = {"account", "mailbox", "kind", "uidvalidity", "uid"}
    BY DEF BodyTypes
  <1>2. /\ c = [f \in {"account", "mailbox", "kind", "uidvalidity", "uid"} |-> Blank(b[f])]
        /\ c.account = Blank(b.account)
        /\ c.mailbox = Blank(b.mailbox)
    BY <1>1 DEF Blanked, Blank
  <1>3. b.account \in Nullables /\ b.mailbox \in Nullables
    BY DEF BodyTypes
  <1>4. c.kind = b.kind /\ c.uidvalidity = b.uidvalidity /\ c.uid = b.uid
    BY <1>2, NoneAssumption DEF BodyTypes, Blank
  <1>5. c \in BodyTypes("fetch")
    BY <1>2, <1>3, <1>4, BlankIsString DEF BodyTypes, Nullables
  <1>6. MessageFetch(b) # None => MessageFetch(c) # None
    BY <1>2, <1>3, <1>4, <1>5, BlankIsString, NoneAssumption DEF MessageFetch, IsPlain, IsToken, IsPredicate, RequestKinds, Writes, Streams
  <1>7. MessageFetch(c) # None => Blanked(MessageFetch(c)) = c
    BY <1>2, <1>3, BlankIsString DEF MessageFetch, Blanked, Blank, Kept
  <1> QED BY <1>2, <1>1, <1>5, <1>6, <1>7

(* a SEARCH, *)
LEMMA MessageSearchBlanked ==
  ASSUME NEW b \in BodyTypes("search")
  PROVE  LET c == Blanked(b)
         IN  /\ c \in BodyTypes("search")
             /\ DOMAIN c = DOMAIN b
             /\ MessageSearch(b) # None => MessageSearch(c) # None
             /\ MessageSearch(c) # None => Blanked(MessageSearch(c)) = c
  <1> DEFINE c == Blanked(b)
  <1>1. b \in BodyTypes("search") /\ DOMAIN b = {"account", "mailbox", "kind", "uidvalidity", "criteria"}
    BY DEF BodyTypes
  <1>2. /\ c = [f \in {"account", "mailbox", "kind", "uidvalidity", "criteria"} |-> Blank(b[f])]
        /\ c.account = Blank(b.account)
        /\ c.mailbox = Blank(b.mailbox)
    BY <1>1 DEF Blanked, Blank
  <1>3. b.account \in Nullables /\ b.mailbox \in Nullables
    BY DEF BodyTypes
  <1>4. c.kind = b.kind /\ c.uidvalidity = b.uidvalidity /\ c.criteria = b.criteria
    BY <1>2, NoneAssumption DEF BodyTypes, Blank
  <1>5. c \in BodyTypes("search")
    BY <1>2, <1>3, <1>4, BlankIsString DEF BodyTypes, Nullables
  <1>6. MessageSearch(b) # None => MessageSearch(c) # None
    BY <1>2, <1>3, <1>4, <1>5, BlankIsString, NoneAssumption DEF MessageSearch, IsPlain, IsToken, IsPredicate, RequestKinds, Writes, Streams
  <1>7. MessageSearch(c) # None => Blanked(MessageSearch(c)) = c
    BY <1>2, <1>3, BlankIsString DEF MessageSearch, Blanked, Blank, Kept
  <1> QED BY <1>2, <1>1, <1>5, <1>6, <1>7

(* a query, *)
LEMMA QueryBlanked ==
  ASSUME NEW b \in BodyTypes("wirelog")
  PROVE  LET c == Blanked(b)
         IN  /\ c \in BodyTypes("wirelog")
             /\ DOMAIN c = DOMAIN b
             /\ Query(b) # None => Query(c) # None
             /\ Query(c) # None => Blanked(Query(c)) = c
  <1> DEFINE c == Blanked(b)
  <1>1. b \in BodyTypes("wirelog") /\ DOMAIN b = {"query", "target", "scope", "arguments"}
    BY DEF BodyTypes
  <1>2. /\ c = [f \in {"query", "target", "scope", "arguments"} |-> Blank(b[f])]
        /\ c.query = Blank(b.query)
        /\ c.target = Blank(b.target)
        /\ c.scope = Blank(b.scope)
    BY <1>1 DEF Blanked, Blank
  <1>3. b.query \in Nullables /\ b.target \in Nullables /\ b.scope \in Nullables
    BY DEF BodyTypes
  <1>4. c.arguments = b.arguments
    BY <1>2, NoneAssumption DEF BodyTypes, Blank
  <1>5. c \in BodyTypes("wirelog")
    BY <1>2, <1>3, <1>4, BlankIsString DEF BodyTypes, Nullables
  <1>6. Query(b) # None => Query(c) # None
    BY <1>2, <1>3, <1>4, <1>5, BlankIsString, NoneAssumption DEF Query, IsPlain, IsToken, IsPredicate, RequestKinds, Writes, Streams
  <1>7. Query(c) # None => Blanked(Query(c)) = c
    BY <1>2, <1>3, BlankIsString DEF Query, Blanked, Blank, Kept
  <1> QED BY <1>2, <1>1, <1>5, <1>6, <1>7

(* a delivery, *)
LEMMA DeliveryBlanked ==
  ASSUME NEW b \in BodyTypes("delivery")
  PROVE  LET c == Blanked(b)
         IN  /\ c \in BodyTypes("delivery")
             /\ DOMAIN c = DOMAIN b
             /\ Delivery(b) # None => Delivery(c) # None
             /\ Delivery(c) # None => Blanked(Delivery(c)) = c
  <1> DEFINE c == Blanked(b)
  <1>1. b \in BodyTypes("delivery") /\ DOMAIN b = {"delivery_id", "queue_id", "sender", "recipients", "bytes"}
    BY DEF BodyTypes
  <1>2. /\ c = [f \in {"delivery_id", "queue_id", "sender", "recipients", "bytes"} |-> Blank(b[f])]
        /\ c.delivery_id = Blank(b.delivery_id)
        /\ c.queue_id = Blank(b.queue_id)
        /\ c.sender = Blank(b.sender)
    BY <1>1 DEF Blanked, Blank
  <1>3. b.delivery_id \in Nullables /\ b.queue_id \in Nullables /\ b.sender \in Nullables
    BY DEF BodyTypes
  <1>4. c.recipients = b.recipients /\ c.bytes = b.bytes
    BY <1>2, NoneAssumption DEF BodyTypes, Blank
  <1>5. c \in BodyTypes("delivery")
    BY <1>2, <1>3, <1>4, BlankIsString DEF BodyTypes, Nullables
  <1>6. Delivery(b) # None => Delivery(c) # None
    BY <1>2, <1>3, <1>4, <1>5, BlankIsString, NoneAssumption DEF Delivery, IsPlain, IsToken, IsPredicate, RequestKinds, Writes, Streams
  <1>7. Delivery(c) # None => Blanked(Delivery(c)) = c
    BY <1>2, <1>3, BlankIsString DEF Delivery, Blanked, Blank, Kept
  <1> QED BY <1>2, <1>1, <1>5, <1>6, <1>7

(* a change of flags, *)
LEMMA FlagUpdateBlanked ==
  ASSUME NEW b \in BodyTypes("flags")
  PROVE  LET c == Blanked(b)
         IN  /\ c \in BodyTypes("flags")
             /\ DOMAIN c = DOMAIN b
             /\ FlagUpdate(b) # None => FlagUpdate(c) # None
             /\ FlagUpdate(c) # None => Blanked(FlagUpdate(c)) = c
  <1> DEFINE c == Blanked(b)
  <1>1. b \in BodyTypes("flags") /\ DOMAIN b = {"account", "mailbox", "uidvalidity", "uid", "mode", "flags", "keywords"}
    BY DEF BodyTypes
  <1>2. /\ c = [f \in {"account", "mailbox", "uidvalidity", "uid", "mode", "flags", "keywords"} |-> Blank(b[f])]
        /\ c.account = Blank(b.account)
        /\ c.mailbox = Blank(b.mailbox)
    BY <1>1 DEF Blanked, Blank
  <1>3. b.account \in Nullables /\ b.mailbox \in Nullables
    BY DEF BodyTypes
  <1>4. c.uidvalidity = b.uidvalidity /\ c.uid = b.uid /\ c.mode = b.mode /\ c.flags = b.flags /\ c.keywords = b.keywords
    BY <1>2, NoneAssumption DEF BodyTypes, Blank
  <1>5. c \in BodyTypes("flags")
    BY <1>2, <1>3, <1>4, BlankIsString DEF BodyTypes, Nullables
  <1>6. FlagUpdate(b) # None => FlagUpdate(c) # None
    BY <1>2, <1>3, <1>4, <1>5, BlankIsString, NoneAssumption DEF FlagUpdate, IsPlain, IsToken, IsPredicate, RequestKinds, Writes, Streams
  <1>7. FlagUpdate(c) # None => Blanked(FlagUpdate(c)) = c
    BY <1>2, <1>3, BlankIsString DEF FlagUpdate, Blanked, Blank, Kept
  <1> QED BY <1>2, <1>1, <1>5, <1>6, <1>7

(* an expunge, *)
LEMMA ExpungeBlanked ==
  ASSUME NEW b \in BodyTypes("expunge")
  PROVE  LET c == Blanked(b)
         IN  /\ c \in BodyTypes("expunge")
             /\ DOMAIN c = DOMAIN b
             /\ Expunge(b) # None => Expunge(c) # None
             /\ Expunge(c) # None => Blanked(Expunge(c)) = c
  <1> DEFINE c == Blanked(b)
  <1>1. b \in BodyTypes("expunge") /\ DOMAIN b = {"account", "mailbox", "uidvalidity", "uids"}
    BY DEF BodyTypes
  <1>2. /\ c = [f \in {"account", "mailbox", "uidvalidity", "uids"} |-> Blank(b[f])]
        /\ c.account = Blank(b.account)
        /\ c.mailbox = Blank(b.mailbox)
    BY <1>1 DEF Blanked, Blank
  <1>3. b.account \in Nullables /\ b.mailbox \in Nullables
    BY DEF BodyTypes
  <1>4. c.uidvalidity = b.uidvalidity /\ c.uids = b.uids
    BY <1>2, NoneAssumption DEF BodyTypes, Blank
  <1>5. c \in BodyTypes("expunge")
    BY <1>2, <1>3, <1>4, BlankIsString DEF BodyTypes, Nullables
  <1>6. Expunge(b) # None => Expunge(c) # None
    BY <1>2, <1>3, <1>4, <1>5, BlankIsString, NoneAssumption DEF Expunge, IsPlain, IsToken, IsPredicate, RequestKinds, Writes, Streams
  <1>7. Expunge(c) # None => Blanked(Expunge(c)) = c
    BY <1>2, <1>3, BlankIsString DEF Expunge, Blanked, Blank, Kept
  <1> QED BY <1>2, <1>1, <1>5, <1>6, <1>7

(* a COPY or MOVE, *)
LEMMA CopyMoveBlanked ==
  ASSUME NEW b \in BodyTypes("copy")
  PROVE  LET c == Blanked(b)
         IN  /\ c \in BodyTypes("copy")
             /\ DOMAIN c = DOMAIN b
             /\ CopyMove(b) # None => CopyMove(c) # None
             /\ CopyMove(c) # None => Blanked(CopyMove(c)) = c
  <1> DEFINE c == Blanked(b)
  <1>1. b \in BodyTypes("copy") /\ DOMAIN b = {"account", "source", "dest", "kind", "source_uidvalidity", "dest_uidvalidity", "uids"}
    BY DEF BodyTypes
  <1>2. /\ c = [f \in {"account", "source", "dest", "kind", "source_uidvalidity", "dest_uidvalidity", "uids"} |-> Blank(b[f])]
        /\ c.account = Blank(b.account)
        /\ c.source = Blank(b.source)
        /\ c.dest = Blank(b.dest)
    BY <1>1 DEF Blanked, Blank
  <1>3. b.account \in Nullables /\ b.source \in Nullables /\ b.dest \in Nullables
    BY DEF BodyTypes
  <1>4. c.kind = b.kind /\ c.source_uidvalidity = b.source_uidvalidity /\ c.dest_uidvalidity = b.dest_uidvalidity /\ c.uids = b.uids
    BY <1>2, NoneAssumption DEF BodyTypes, Blank
  <1>5. c \in BodyTypes("copy")
    BY <1>2, <1>3, <1>4, BlankIsString DEF BodyTypes, Nullables
  <1>6. CopyMove(b) # None => CopyMove(c) # None
    BY <1>2, <1>3, <1>4, <1>5, BlankIsString, NoneAssumption DEF CopyMove, IsPlain, IsToken, IsPredicate, RequestKinds, Writes, Streams
  <1>7. CopyMove(c) # None => Blanked(CopyMove(c)) = c
    BY <1>2, <1>3, BlankIsString DEF CopyMove, Blanked, Blank, Kept
  <1> QED BY <1>2, <1>1, <1>5, <1>6, <1>7

(* an APPEND, *)
LEMMA MessageAppendBlanked ==
  ASSUME NEW b \in BodyTypes("append")
  PROVE  LET c == Blanked(b)
         IN  /\ c \in BodyTypes("append")
             /\ DOMAIN c = DOMAIN b
             /\ MessageAppend(b) # None => MessageAppend(c) # None
             /\ MessageAppend(c) # None => Blanked(MessageAppend(c)) = c
  <1> DEFINE c == Blanked(b)
  <1>1. b \in BodyTypes("append") /\ DOMAIN b = {"account", "mailbox", "uidvalidity", "internal_date", "bytes", "flags", "keywords"}
    BY DEF BodyTypes
  <1>2. /\ c = [f \in {"account", "mailbox", "uidvalidity", "internal_date", "bytes", "flags", "keywords"} |-> Blank(b[f])]
        /\ c.account = Blank(b.account)
        /\ c.mailbox = Blank(b.mailbox)
    BY <1>1 DEF Blanked, Blank
  <1>3. b.account \in Nullables /\ b.mailbox \in Nullables
    BY DEF BodyTypes
  <1>4. c.uidvalidity = b.uidvalidity /\ c.internal_date = b.internal_date /\ c.bytes = b.bytes /\ c.flags = b.flags /\ c.keywords = b.keywords
    BY <1>2, NoneAssumption DEF BodyTypes, Blank
  <1>5. c \in BodyTypes("append")
    BY <1>2, <1>3, <1>4, BlankIsString DEF BodyTypes, Nullables
  <1>6. MessageAppend(b) # None => MessageAppend(c) # None
    BY <1>2, <1>3, <1>4, <1>5, BlankIsString, NoneAssumption DEF MessageAppend, IsPlain, IsToken, IsPredicate, RequestKinds, Writes, Streams
  <1>7. MessageAppend(c) # None => Blanked(MessageAppend(c)) = c
    BY <1>2, <1>3, BlankIsString DEF MessageAppend, Blanked, Blank, Kept
  <1> QED BY <1>2, <1>1, <1>5, <1>6, <1>7

(* a fact, *)
LEMMA FactMutationBlanked ==
  ASSUME NEW b \in BodyTypes("fact")
  PROVE  LET c == Blanked(b)
         IN  /\ c \in BodyTypes("fact")
             /\ DOMAIN c = DOMAIN b
             /\ FactMutation(b) # None => FactMutation(c) # None
             /\ FactMutation(c) # None => Blanked(FactMutation(c)) = c
  <1> DEFINE c == Blanked(b)
  <1>1. b \in BodyTypes("fact") /\ DOMAIN b = {"predicate", "scope", "mutation", "arguments"}
    BY DEF BodyTypes, FactBodies
  <1>2. /\ c = [f \in {"predicate", "scope", "mutation", "arguments"} |-> Blank(b[f])]
        /\ c.predicate = Blank(b.predicate)
        /\ c.scope = Blank(b.scope)
    BY <1>1 DEF Blanked, Blank
  <1>3. b.predicate \in Nullables /\ b.scope \in Nullables
    BY DEF BodyTypes, FactBodies
  <1>4. c.mutation = b.mutation /\ c.arguments = b.arguments
    BY <1>2, NoneAssumption DEF BodyTypes, FactBodies, Blank
  <1>5. c \in BodyTypes("fact")
    BY <1>2, <1>3, <1>4, BlankIsString DEF BodyTypes, FactBodies, Nullables
  <1>6. FactMutation(b) # None => FactMutation(c) # None
    BY <1>2, <1>3, <1>4, <1>5, BlankIsString, NoneAssumption DEF FactMutation, IsPlain, IsToken, IsPredicate, RequestKinds, Writes, Streams
  <1>7. FactMutation(c) # None => Blanked(FactMutation(c)) = c
    BY <1>2, <1>3, BlankIsString DEF FactMutation, Blanked, Blank, Kept
  <1> QED BY <1>2, <1>1, <1>5, <1>6, <1>7

(* a batch of them, *)
LEMMA FactBatchBlanked ==
  ASSUME NEW b \in BodyTypes("batch")
  PROVE  /\ Blanked(b) = b
         /\ FactBatch(b) # None => FactBatch(b) = b
  <1>1. b.entries # None /\ DOMAIN b = {"entries"} /\ b = [f \in DOMAIN b |-> b[f]]
    BY NoneAssumption DEF BodyTypes
  <1> QED BY <1>1 DEF Blanked, FactBatch

(* and an event stream, but for its filter. *)
LEMMA EventStreamBlanked ==
  ASSUME NEW b \in BodyTypes("events")
  PROVE  LET c == [b EXCEPT !.filter = None]
         IN  c \in BodyTypes("events") /\ (EventStream(b) # None => EventStream(c) = c)
  BY DEF BodyTypes, EventStream, Nullables

(* Blanking twice is blanking once. *)
LEMMA BlankedTwice ==
  ASSUME NEW r
  PROVE  Blanked(Blanked(r)) = Blanked(r)
  <1>1. << >> \in CStrings
    BY RequestsAssumption DEF CStrings
  <1>2. << >> # None
    BY <1>1, NoneAssumption
  <1> QED BY <1>2 DEF Blanked

(* What was checked is of the type it was. *)
LEMMA CheckedIsTyped ==
  ASSUME NEW kind \in RequestKinds, NEW b \in BodyTypes(kind), Checked(kind, b) # None
  PROVE  Checked(kind, b) \in BodyTypes(kind)
  <1>1. CASE kind = "list"
    <2>1. b \in BodyTypes("list") /\ Checked(kind, b) = MailboxList(b)
      BY <1>1 DEF Checked
    <2>2. Blanked(b) \in BodyTypes("list")
      BY <2>1, MailboxListBlanked
    <2> QED BY <1>1, <2>1, <2>2 DEF MailboxList
  <1>2. CASE kind \in {"select", "status"}
    BY <1>2 DEF Checked, MailboxSelect, BodyTypes, Kept, Nullables
  <1>3. CASE kind = "fetch"
    BY <1>3 DEF Checked, MessageFetch
  <1>4. CASE kind = "search"
    BY <1>4 DEF Checked, MessageSearch
  <1>5. CASE kind \in {"wirelog", "duckdb"}
    BY <1>5 DEF Checked, Query
  <1>6. CASE kind = "delivery"
    BY <1>6 DEF Checked, Delivery
  <1>7. CASE kind = "flags"
    BY <1>7 DEF Checked, FlagUpdate
  <1>8. CASE kind = "expunge"
    BY <1>8 DEF Checked, Expunge
  <1>9. CASE kind \in {"copy", "move"}
    BY <1>9 DEF Checked, CopyMove
  <1>10. CASE kind = "append"
    BY <1>10 DEF Checked, MessageAppend
  <1>11. CASE kind = "fact"
    BY <1>11 DEF Checked, FactMutation
  <1>12. CASE kind = "batch"
    BY <1>12 DEF Checked, FactBatch
  <1>13. CASE kind = "events"
    BY <1>13 DEF Checked, EventStream
  <1> QED BY <1>1, <1>2, <1>3, <1>4, <1>5, <1>6, <1>7, <1>8, <1>9, <1>10, <1>11, <1>12, <1>13
            DEF RequestKinds, Writes, Streams

(* What was checked passes the same checks again. *)
LEMMA CheckedAgain ==
  ASSUME NEW kind \in RequestKinds, NEW b \in BodyTypes(kind)
  PROVE  LET c == Body(kind, b)
         IN  /\ c \in BodyTypes(kind)
             /\ Checked(kind, b) # None =>
                  Checked(kind, c) # None /\ Blanked(Checked(kind, c)) = Blanked(c)
  <1> DEFINE c == Body(kind, b)
  <1>1. CASE kind = "list"
    BY <1>1, MailboxListBlanked, BlankedTwice DEF Checked, Body
  <1>2. CASE kind \in {"select", "status"}
    <2>1. b \in BodyTypes("select") /\ BodyTypes(kind) = BodyTypes("select")
      BY <1>2 DEF BodyTypes
    <2> QED BY <1>2, <2>1, MailboxSelectBlanked, BlankedTwice DEF Checked, Body
  <1>3. CASE kind = "fetch"
    BY <1>3, MessageFetchBlanked, BlankedTwice DEF Checked, Body
  <1>4. CASE kind = "search"
    BY <1>4, MessageSearchBlanked, BlankedTwice DEF Checked, Body
  <1>5. CASE kind \in {"wirelog", "duckdb"}
    <2>1. b \in BodyTypes("wirelog") /\ BodyTypes(kind) = BodyTypes("wirelog")
      BY <1>5 DEF BodyTypes
    <2> QED BY <1>5, <2>1, QueryBlanked, BlankedTwice DEF Checked, Body
  <1>6. CASE kind = "delivery"
    BY <1>6, DeliveryBlanked, BlankedTwice DEF Checked, Body
  <1>7. CASE kind = "flags"
    BY <1>7, FlagUpdateBlanked, BlankedTwice DEF Checked, Body
  <1>8. CASE kind = "expunge"
    BY <1>8, ExpungeBlanked, BlankedTwice DEF Checked, Body
  <1>9. CASE kind \in {"copy", "move"}
    <2>1. b \in BodyTypes("copy") /\ BodyTypes(kind) = BodyTypes("copy")
      BY <1>9 DEF BodyTypes
    <2> QED BY <1>9, <2>1, CopyMoveBlanked, BlankedTwice DEF Checked, Body
  <1>10. CASE kind = "append"
    BY <1>10, MessageAppendBlanked, BlankedTwice DEF Checked, Body
  <1>11. CASE kind = "fact"
    BY <1>11, FactMutationBlanked, BlankedTwice DEF Checked, Body
  <1>12. CASE kind = "batch"
    BY <1>12, FactBatchBlanked, BlankedTwice DEF Checked, Body
  <1>13. CASE kind = "events"
    <2>1. b \in BodyTypes("events") /\ c = [b EXCEPT !.filter = None]
      BY <1>13 DEF Body
    <2>2. c \in BodyTypes("events") /\ (EventStream(b) # None => EventStream(c) = c)
      BY <2>1, EventStreamBlanked
    <2>3. c # None
      BY <2>2, NoneAssumption DEF RequestKinds, Streams
    <2> QED BY <1>13, <2>2, <2>3 DEF Checked
  <1> QED BY <1>1, <1>2, <1>3, <1>4, <1>5, <1>6, <1>7, <1>8, <1>9, <1>10, <1>11, <1>12, <1>13
            DEF RequestKinds, Writes, Streams

(* What is written on the wire is of the type it was. *)
LEMMA WrittenIsTyped ==
  ASSUME NEW kind \in RequestKinds, NEW r \in RequestTypes(kind)
  PROVE  Written(r) \in RequestTypes(kind)
  <1>1. r.kind = kind /\ r.identity \in Identities /\ r.body \in BodyTypes(kind)
    BY DEF RequestTypes
  <1>2. Blanked(r.identity) \in Identities
    BY <1>1, BlankIsString DEF Blanked, Blank, Identities, Nullables
  <1>3. Body(kind, r.body) \in BodyTypes(kind)
    BY <1>1, CheckedAgain
  <1> QED BY <1>1, <1>2, <1>3 DEF Written, RequestTypes

-----------------------------------------------------------------------------
(* The exchange.                                                           *)

(* What is on the wire, and what became of it.                             *)
RequestInv ==
  \/ exchange.stage = "none"
  \/ /\ exchange.request \in Requests /\ exchange.own \in BOOLEAN
     /\ exchange.own => EncodeRequest(exchange.request) # None \/ exchange.stage = "unsent"
     /\ exchange.stage = "sent" => exchange.message = Written(exchange.request)
     /\ exchange.stage \in {"dropped", "received", "executed", "answered"} =>
          exchange.decoded = DecodeRequest(Written(exchange.request))
     /\ exchange.stage = "dropped" => exchange.decoded = None
     /\ exchange.stage \in {"received", "executed", "answered"} => exchange.decoded # None
     /\ exchange.stage = "executed" =>
          DOMAIN exchange = {"stage", "own", "request", "decoded", "failed", "answer"}

(* The exchange holds what its request was encoded and decoded as. *)
LEMMA RequestInvCorrect == Spec => []RequestInv
  <1>1. Init => RequestInv
    BY DEF Init, NoExchange, RequestInv
  <1>2. RequestInv /\ [Next]_vars => RequestInv'
    <2> SUFFICES ASSUME RequestInv, [Next]_vars PROVE RequestInv'
      OBVIOUS
    <2>1. CASE UNCHANGED exchange
      BY <2>1 DEF RequestInv
    <2>2. CASE Send
      BY <2>2 DEF Send, RequestInv, EncodeRequest
    <2>3. CASE Receive
      BY <2>3 DEF Receive, RequestInv
    <2>4. CASE Execute
      BY <2>4 DEF Execute, RequestInv
    <2>5. CASE Understand
      <3>1. /\ exchange'.stage = "answered" /\ exchange'.request = exchange.request
            /\ exchange'.own = exchange.own /\ exchange'.decoded = exchange.decoded
        BY <2>5 DEF Understand, RequestInv, Onto
      <3> QED BY <2>5, <3>1 DEF Understand, RequestInv
    <2> QED BY <2>1, <2>2, <2>3, <2>4, <2>5
              DEF Next, vars, WriteRecord, WriteForeign, ExtractFacts, ReadRecord
  <1> QED BY <1>1, <1>2, PTL DEF Spec

(* What a client's library encodes reaches the daemon as it was meant.     *)
LEMMA DecodedAsMeant ==
  ASSUME NEW kind \in RequestKinds, NEW r \in RequestTypes(kind), EncodeRequest(r) # None
  PROVE  LET m == Written(r)  d == DecodeRequest(m)
         IN  /\ d = None => kind = "list" /\ ~Required(r.identity.account_identity)
             /\ d # None => Blanked(d.identity) = Blanked(r.identity)
             /\ d # None => Blanked(d.body) = Blanked(Body(kind, r.body))
  <1> DEFINE m == Written(r)
             body == Checked(kind, m.body)
  <1>1. r.kind = kind /\ r.identity \in Identities /\ r.body \in BodyTypes(kind)
    BY DEF RequestTypes
  <1>2. m = [kind |-> kind, identity |-> Blanked(r.identity), body |-> Body(kind, r.body)]
    BY <1>1 DEF Written
  <1>3. m \in RequestTypes(kind)
    BY WrittenIsTyped
  <1>4. RequestIdentity(r.identity) # None /\ Checked(kind, r.body) # None
    BY <1>1 DEF EncodeRequest
  <1>5. body # None /\ Blanked(body) = Blanked(Body(kind, r.body))
    BY <1>1, <1>2, <1>4, CheckedAgain
  <1>6. [m EXCEPT !.body = body] # None
    <2>1. body \in BodyTypes(kind)
      BY <1>1, <1>2, <1>5, CheckedAgain, CheckedIsTyped
    <2>2. [m EXCEPT !.body = body] \in RequestTypes(kind)
      BY <1>3, <2>1 DEF RequestTypes
    <2> QED BY <2>2, NoneAssumption
  <1>7. Required(r.identity.request_id)
    BY <1>4 DEF RequestIdentity
  <1>8. /\ m.identity.request_id # << >>
        /\ m.identity.account_identity = << >> => ~Required(r.identity.account_identity)
    <2>1. /\ m.identity.request_id = r.identity.request_id
          /\ m.identity.account_identity = Blank(r.identity.account_identity)
      BY <1>1, <1>2, <1>7 DEF Blanked, Identities, Required, Blank
    <2> QED BY <1>7, <2>1 DEF Required, Blank
  <1>9. DecodeRequest(m) = None => kind = "list" /\ m.identity.account_identity = << >>
    BY <1>2, <1>5, <1>6, <1>8 DEF DecodeRequest, IdentityRead
  <1>10. ASSUME DecodeRequest(m) # None
         PROVE  /\ Blanked(DecodeRequest(m).identity) = Blanked(r.identity)
                /\ Blanked(DecodeRequest(m).body) = Blanked(Body(kind, r.body))
    <2>1. DecodeRequest(m) = [m EXCEPT !.body = body]
      BY <1>2, <1>10 DEF DecodeRequest
    <2>2. DecodeRequest(m).identity = Blanked(r.identity) /\ DecodeRequest(m).body = body
      BY <1>2, <2>1
    <2> QED BY <1>5, <2>2, BlankedTwice
  <1> QED BY <1>8, <1>9, <1>10

(* What the client library encodes the daemon understands as it was meant, *)
(* but for a LIST without an account and the filters of an event stream.   *)
THEOREM RequestsUnderstoodCorrect == Spec => []RequestsUnderstoodUnlessAnonymous
  <1>1. RequestInv => RequestsUnderstoodUnlessAnonymous
    <2> SUFFICES ASSUME RequestInv, exchange.stage \in {"dropped", "received"}, exchange.own
                 PROVE  RequestsUnderstoodUnlessAnonymous
      BY DEF RequestsUnderstoodUnlessAnonymous
    <2> DEFINE r == exchange.request
    <2>1. PICK kind \in RequestKinds : r \in RequestTypes(kind)
      BY RequestsAssumption DEF RequestInv
    <2>2. /\ EncodeRequest(r) # None /\ exchange.decoded = DecodeRequest(Written(r))
          /\ exchange.stage = "dropped" => exchange.decoded = None
          /\ exchange.stage = "received" => exchange.decoded # None
      BY DEF RequestInv
    <2>3. /\ exchange.decoded = None => kind = "list" /\ ~Required(r.identity.account_identity)
          /\ exchange.decoded # None => Blanked(exchange.decoded.identity) = Blanked(r.identity)
          /\ exchange.decoded # None => Blanked(exchange.decoded.body) = Blanked(Body(kind, r.body))
      BY <2>1, <2>2, DecodedAsMeant
    <2>4. r.kind = kind
      BY <2>1 DEF RequestTypes
    <2>5. Blanked(Body(kind, r.body)) = IF kind = "events" THEN Blanked([r.body EXCEPT !.filter = None])
                                        ELSE Blanked(r.body)
      BY BlankedTwice DEF Body
    <2> QED BY <2>2, <2>3, <2>4, <2>5 DEF RequestsUnderstoodUnlessAnonymous
  <1> QED BY <1>1, RequestInvCorrect, PTL

-----------------------------------------------------------------------------
(* Answers.                                                                *)

LEMMA KeptString ==
  ASSUME NEW s \in Nullables
  PROVE  /\ Kept(s) \in Nullables /\ Kept(Kept(s)) = Kept(s) /\ NoControl(Kept(s)) = NoControl(s)
         /\ Required(Kept(s)) = Required(s) /\ (Required(s) => Kept(s) = s)
         /\ Blank(Kept(s)) = Blank(s) /\ Kept(Blank(s)) = Kept(s)
  <1>1. NoControl(<< >>) /\ ~Required(<< >>) /\ NoControl(None) /\ ~Required(None)
    BY DEF NoControl, Required, ToSet
  <1> QED BY <1>1 DEF Kept, Blank, Nullables, Required

(* What becomes of a frame: it is one, and is read as it was written.      *)
Survives(f) ==
  /\ EncodeAnswer(f) # None /\ DecodeAnswer(EncodeAnswer(f)) = f

(* A receipt is read as it was answered. *)
LEMMA SuccessSurvives ==
  ASSUME NEW g \in FrameTypes("success"), Answer(g) # None
  PROVE  Survives(Answer(g)) /\ Answer(g).kind = "success" /\ Answer(g).request_id = g.request_id
  <1> DEFINE p == g.payload
             f == [kind |-> "success", request_id |-> g.request_id,
                   correlation_id |-> Kept(g.correlation_id), payload |-> p]
             m == [kind |-> "success", request_id |-> g.request_id, payload_id |-> g.request_id,
                   correlation_id |-> Blank(f.correlation_id), payload |-> Blanked(p)]
  <1>1. /\ g.request_id \in Nullables /\ g.correlation_id \in Nullables /\ p \in PayloadTypes("success")
        /\ g = [kind |-> "success", request_id |-> g.request_id, correlation_id |-> g.correlation_id, payload |-> p]
    BY DEF FrameTypes
  <1>2. /\ Answer(g) = f /\ Required(g.request_id) /\ Required(p.durable_marker)
        /\ p.sequence # 0 /\ Required(p.summary)
    BY <1>1 DEF Answer, SuccessReceipt
  <1>3. f \in FrameTypes("success")
    BY <1>1, KeptString DEF FrameTypes
  <1>4. Blanked(p) = p
    BY <1>1, <1>2, NoneAssumption DEF PayloadTypes, Blanked, Required
  <1>5. EncodeAnswer(f) = m
    BY <1>2 DEF EncodeAnswer, Writable, PayloadWritten, Blank
  <1>6. m \in AnswerTypes("success")
    BY <1>1, <1>4, KeptString, BlankIsString DEF AnswerTypes, Nullables
  <1>7. DecodeAnswer(m) = f
    BY <1>1, <1>2, <1>4, KeptString DEF DecodeAnswer, Answer, SuccessReceipt, Required
  <1> QED BY <1>2, <1>3, <1>5, <1>6, <1>7, NoneAssumption DEF Survives, AnswerKinds

(* An error makes an answer under every id. *)
LEMMA ErrorAnswer ==
  ASSUME NEW id, NEW co, NEW class, NEW message, NEW hint
  PROVE  LET frame(c, h) == [kind |-> "error", request_id |-> id, correlation_id |-> c,
                             payload |-> [class |-> class, message |-> message, retry_hint |-> h]]
         IN  Answer(frame(co, hint)) =
               IF Required(id) /\ Required(message) /\ class \in Classes
               THEN frame(Kept(co), Kept(hint)) ELSE None
  <1> DEFINE frame(c, h) == [kind |-> "error", request_id |-> id, correlation_id |-> c,
                             payload |-> [class |-> class, message |-> message, retry_hint |-> h]]
  <1>1. [frame(co, hint) EXCEPT !.correlation_id = Kept(@)] = frame(Kept(co), hint)
    OBVIOUS
  <1>2. Answer(frame(co, hint)) = IF Required(id) THEN ErrorFrame(frame(Kept(co), hint)) ELSE None
    BY <1>1 DEF Answer
  <1>3. ErrorFrame(frame(Kept(co), hint)) =
          IF Required(message) /\ class \in Classes THEN frame(Kept(co), Kept(hint)) ELSE None
    BY DEF ErrorFrame
  <1> QED BY <1>2, <1>3

(* An error is read as it was answered. *)
LEMMA ErrorSurvives ==
  ASSUME NEW g \in FrameTypes("error"), Answer(g) # None
  PROVE  Survives(Answer(g)) /\ Answer(g).kind = "error" /\ Answer(g).request_id = g.request_id
  <1> DEFINE p == g.payload
             q == [class |-> p.class, message |-> p.message, retry_hint |-> Kept(p.retry_hint)]
             f == [kind |-> "error", request_id |-> g.request_id,
                   correlation_id |-> Kept(g.correlation_id), payload |-> q]
             w == [class |-> p.class, message |-> p.message, retry_hint |-> Blank(q.retry_hint)]
             m == [kind |-> "error", request_id |-> g.request_id, payload_id |-> g.request_id,
                   correlation_id |-> Blank(f.correlation_id), payload |-> w]
             n == [kind |-> "error", request_id |-> g.request_id,
                   correlation_id |-> Blank(f.correlation_id), payload |-> w]
  <1>1. /\ g.request_id \in Nullables /\ g.correlation_id \in Nullables /\ p \in PayloadTypes("error")
        /\ g = [kind |-> "error", request_id |-> g.request_id, correlation_id |-> g.correlation_id, payload |-> p]
    BY DEF FrameTypes
  <1>2. /\ p = [class |-> p.class, message |-> p.message, retry_hint |-> p.retry_hint]
        /\ p.class \in STRING /\ p.message \in Nullables /\ p.retry_hint \in Nullables
    BY <1>1 DEF PayloadTypes
  <1>3. /\ Answer(g) = f /\ Required(g.request_id) /\ Required(p.message) /\ p.class \in Classes
    <2>1. g = [kind |-> "error", request_id |-> g.request_id, correlation_id |-> g.correlation_id,
               payload |-> [class |-> p.class, message |-> p.message, retry_hint |-> p.retry_hint]]
      BY <1>1, <1>2
    <2>2. Answer(g) = IF Required(g.request_id) /\ Required(p.message) /\ p.class \in Classes
                      THEN f ELSE None
      <3>1. Answer([kind |-> "error", request_id |-> g.request_id, correlation_id |-> g.correlation_id,
               payload |-> [class |-> p.class, message |-> p.message, retry_hint |-> p.retry_hint]]) =
             IF Required(g.request_id) /\ Required(p.message) /\ p.class \in Classes
                      THEN f ELSE None
        BY ErrorAnswer
      <3> QED BY <2>1, <3>1
    <2> QED BY <2>2
  <1>4. f \in FrameTypes("error")
    BY <1>1, <1>2, KeptString DEF FrameTypes, PayloadTypes
  <1>5. Blanked(q) = w
    BY <1>2, <1>3, NoneAssumption DEF Blanked, Required, Blank
  <1>6. EncodeAnswer(f) = m
    BY <1>3, <1>5 DEF EncodeAnswer, Writable, PayloadWritten, Blank
  <1>7. m \in AnswerTypes("error")
    BY <1>1, <1>2, KeptString, BlankIsString DEF AnswerTypes, PayloadTypes, Nullables
  <1>8. DecodeAnswer(m) = Answer(n)
    BY <1>3 DEF DecodeAnswer, Required
  <1>9. Answer(n) = f
    BY <1>1, <1>2, <1>3, KeptString, ErrorAnswer
  <1> QED BY <1>3, <1>4, <1>6, <1>7, <1>8, <1>9, NoneAssumption DEF Survives, AnswerKinds

(* So is a selected mailbox. *)
LEMMA SelectSurvives ==
  ASSUME NEW g \in FrameTypes("select"), Answer(g) # None
  PROVE  Survives(Answer(g)) /\ Answer(g).kind = "select" /\ Answer(g).request_id = g.request_id
  <1> DEFINE p == g.payload
             f == [kind |-> "select", request_id |-> g.request_id,
                   correlation_id |-> Kept(g.correlation_id), payload |-> p]
             m == [kind |-> "select", request_id |-> g.request_id, payload_id |-> g.request_id,
                   correlation_id |-> Blank(f.correlation_id), payload |-> p]
             n == [kind |-> "select", request_id |-> g.request_id,
                   correlation_id |-> Blank(f.correlation_id), payload |-> p]
  <1>1. /\ g.request_id \in Nullables /\ g.correlation_id \in Nullables /\ p \in PayloadTypes("select")
        /\ g = [kind |-> "select", request_id |-> g.request_id, correlation_id |-> g.correlation_id, payload |-> p]
    BY DEF FrameTypes
  <1>2. /\ Answer(g) = f /\ Required(g.request_id) /\ p.kind \in Kinds /\ IsPlain(p.id) /\ IsPlain(p.name)
        /\ p.uidvalidity # 0 /\ p.uidnext # 0
    BY <1>1 DEF Answer, SelectResult
  <1>3. f \in FrameTypes("select")
    BY <1>1, KeptString DEF FrameTypes
  <1>4. Blanked(p) = p
    BY <1>1, <1>2, NoneAssumption DEF PayloadTypes, Blanked, IsPlain, Required
  <1>5. EncodeAnswer(f) = m
    BY <1>2, <1>4 DEF EncodeAnswer, Writable, PayloadWritten, Blank, IsPlain
  <1>6. m \in AnswerTypes("select")
    BY <1>1, KeptString, BlankIsString DEF AnswerTypes, Nullables
  <1>7. DecodeAnswer(m) = Answer(n)
    BY <1>2 DEF DecodeAnswer, Required
  <1>8. Answer(n) = f
    BY <1>1, <1>2, KeptString DEF Answer, SelectResult
  <1> QED BY <1>2, <1>3, <1>5, <1>6, <1>7, <1>8, NoneAssumption DEF Survives, AnswerKinds

(* A chunk makes an answer where its identifiers are plain. *)
LEMMA ChunkAnswer ==
  ASSUME NEW id, NEW co, NEW m, NEW q, NEW index, NEW bytes, NEW end
  PROVE  LET frame(c, mi, qi) ==
               [kind |-> "chunk", request_id |-> id, correlation_id |-> c,
                payload |-> [message_id |-> mi, query_id |-> qi, index |-> index, bytes |-> bytes, end |-> end]]
         IN  Answer(frame(co, m, q)) =
               IF /\ Required(id) /\ Required(m) # Required(q)
                  /\ NoControl(id) /\ NoControl(m) /\ NoControl(q) /\ NoControl(Kept(co))
                  /\ end \/ bytes # << >>
               THEN frame(Kept(co), Kept(m), Kept(q)) ELSE None
  <1> DEFINE frame(c, mi, qi) ==
               [kind |-> "chunk", request_id |-> id, correlation_id |-> c,
                payload |-> [message_id |-> mi, query_id |-> qi, index |-> index, bytes |-> bytes, end |-> end]]
             f == frame(Kept(co), m, q)
  <1>1. [frame(co, m, q) EXCEPT !.correlation_id = Kept(@)] = f
    OBVIOUS
  <1>2. Answer(frame(co, m, q)) = IF Required(id) THEN StreamChunk(f) ELSE None
    BY <1>1 DEF Answer
  <1>3. [f EXCEPT !.payload = Identified(@)] = frame(Kept(co), Kept(m), Kept(q))
    <2>1. [f.payload EXCEPT !.message_id = Kept(m)] =
          [message_id |-> Kept(m), query_id |-> q, index |-> index, bytes |-> bytes, end |-> end]
      OBVIOUS
    <2>3. [[message_id |-> Kept(m), query_id |-> q, index |-> index, bytes |-> bytes, end |-> end]
             EXCEPT !.query_id = Kept(q)] =
          [message_id |-> Kept(m), query_id |-> Kept(q), index |-> index, bytes |-> bytes, end |-> end]
      OBVIOUS
    <2>2. Identified(f.payload) = frame(Kept(co), Kept(m), Kept(q)).payload
      BY <2>1, <2>3 DEF Identified
    <2> QED BY <2>2
  <1>4. OneStream(f) <=> /\ Required(m) # Required(q)
                         /\ NoControl(id) /\ NoControl(m) /\ NoControl(q) /\ NoControl(Kept(co))
    BY DEF OneStream
  <1>5. StreamChunk(f) = IF OneStream(f) /\ (end \/ bytes # << >>)
                         THEN frame(Kept(co), Kept(m), Kept(q)) ELSE None
    BY <1>3 DEF StreamChunk
  <1> QED BY <1>2, <1>4, <1>5

(* A chunk is read as it was answered. *)
LEMMA ChunkSurvives ==
  ASSUME NEW g \in FrameTypes("chunk"), Answer(g) # None
  PROVE  Survives(Answer(g)) /\ Answer(g).kind = "chunk" /\ Answer(g).request_id = g.request_id
  <1> DEFINE p == g.payload
             q == [message_id |-> Kept(p.message_id), query_id |-> Kept(p.query_id), index |-> p.index,
                   bytes |-> p.bytes, end |-> p.end]
             f == [kind |-> "chunk", request_id |-> g.request_id,
                   correlation_id |-> Kept(g.correlation_id), payload |-> q]
             w == [message_id |-> Blank(q.message_id), query_id |-> Blank(q.query_id), index |-> p.index,
                   bytes |-> p.bytes, end |-> p.end]
             m == [kind |-> "chunk", request_id |-> g.request_id, payload_id |-> g.request_id,
                   correlation_id |-> Blank(f.correlation_id), payload |-> w]
             n == [kind |-> "chunk", request_id |-> g.request_id,
                   correlation_id |-> Blank(f.correlation_id), payload |-> w]
  <1>1. /\ g.request_id \in Nullables /\ g.correlation_id \in Nullables /\ p \in PayloadTypes("chunk")
        /\ g = [kind |-> "chunk", request_id |-> g.request_id, correlation_id |-> g.correlation_id, payload |-> p]
    BY DEF FrameTypes
  <1>2. /\ p = [message_id |-> p.message_id, query_id |-> p.query_id, index |-> p.index, bytes |-> p.bytes,
                end |-> p.end]
        /\ p.message_id \in Nullables /\ p.query_id \in Nullables /\ p.index \in Nat /\ p.bytes \in Seq(Nat)
        /\ p.end \in BOOLEAN
    BY <1>1 DEF PayloadTypes
  <1>3. /\ Answer(g) = f /\ Required(g.request_id)
        /\ Required(p.message_id) # Required(p.query_id)
        /\ NoControl(g.request_id) /\ NoControl(p.message_id) /\ NoControl(p.query_id)
        /\ NoControl(Kept(g.correlation_id)) /\ (p.end \/ p.bytes # << >>)
    <2>1. g = [kind |-> "chunk", request_id |-> g.request_id, correlation_id |-> g.correlation_id,
               payload |-> [message_id |-> p.message_id, query_id |-> p.query_id, index |-> p.index,
                            bytes |-> p.bytes, end |-> p.end]]
      BY <1>1, <1>2
    <2>2. Answer(g) =
            IF /\ Required(g.request_id) /\ Required(p.message_id) # Required(p.query_id)
               /\ NoControl(g.request_id) /\ NoControl(p.message_id) /\ NoControl(p.query_id)
               /\ NoControl(Kept(g.correlation_id)) /\ (p.end \/ p.bytes # << >>)
            THEN f ELSE None
      <3>1. Answer([kind |-> "chunk", request_id |-> g.request_id, correlation_id |-> g.correlation_id,
                    payload |-> [message_id |-> p.message_id, query_id |-> p.query_id, index |-> p.index,
                                 bytes |-> p.bytes, end |-> p.end]]) =
              IF /\ Required(g.request_id) /\ Required(p.message_id) # Required(p.query_id)
                 /\ NoControl(g.request_id) /\ NoControl(p.message_id) /\ NoControl(p.query_id)
                 /\ NoControl(Kept(g.correlation_id)) /\ (p.end \/ p.bytes # << >>)
              THEN f ELSE None
        BY ChunkAnswer
      <3> QED BY <2>1, <3>1
    <2> QED BY <2>2
  <1>4. f \in FrameTypes("chunk")
    BY <1>1, <1>2, KeptString DEF FrameTypes, PayloadTypes
  <1>5. Blanked(q) = w
    <2>1. p.index # None /\ p.bytes # None /\ p.end # None
      BY <1>2, NoneAssumption
    <2> QED BY <2>1 DEF Blanked, Blank
  <1>6. EncodeAnswer(f) = m
    BY <1>1, <1>2, <1>3, <1>5, KeptString DEF EncodeAnswer, Writable, PayloadWritten, Blank
  <1>7. m \in AnswerTypes("chunk")
    BY <1>1, <1>2, KeptString, BlankIsString DEF AnswerTypes, PayloadTypes, Nullables
  <1>8. DecodeAnswer(m) = Answer(n)
    BY <1>3 DEF DecodeAnswer, Required
  <1>9. Answer(n) = f
    <2>1. /\ Kept(n.correlation_id) = f.correlation_id
          /\ Kept(w.message_id) = q.message_id /\ Kept(w.query_id) = q.query_id
          /\ Required(w.message_id) = Required(p.message_id) /\ Required(w.query_id) = Required(p.query_id)
          /\ NoControl(w.message_id) /\ NoControl(w.query_id)
      BY <1>1, <1>2, <1>3, KeptString, BlankIsString
    <2> QED BY <1>2, <1>3, <2>1, ChunkAnswer
  <1> QED BY <1>3, <1>4, <1>6, <1>7, <1>8, <1>9, NoneAssumption DEF Survives, AnswerKinds

(* What of a mailbox's entry is used is read as it was. *)
LEMMA UsedEntry ==
  ASSUME NEW e \in MailboxEntries, Entry(e)
  PROVE  LET u == Used(e)  b == Blanked(u)
         IN  /\ u \in MailboxEntries /\ u.kind \in Kinds /\ b \in MailboxEntries
             /\ Entry(b) /\ Used(b) = u
  <1> DEFINE with(s) == [kind |-> e.kind, id |-> e.id, name |-> e.name, delimiter |-> e.delimiter,
                         special_use |-> s, selectable |-> e.selectable, child_state |-> e.child_state]
             s == e.special_use
  <1>1. /\ e = with(s) /\ s \in Nullables
        /\ e.kind \in STRING /\ e.id \in Nullables /\ e.name \in Nullables /\ e.delimiter \in CStrings
        /\ e.selectable \in BOOLEAN /\ e.child_state \in STRING
    BY DEF MailboxEntries
  <1>2. /\ Kept(s) \in Nullables /\ Blank(Kept(s)) \in CStrings /\ Kept(Blank(Kept(s))) = Kept(s)
        /\ NoControl(Blank(Kept(s))) = NoControl(s)
    BY <1>1, KeptString, BlankIsString
  <1>3. ASSUME NEW t PROVE Used(with(t)) = with(Kept(t))
    BY DEF Used
  <1>4. Used(e) = with(Kept(s))
    BY <1>1, <1>3
  <1>5. Blanked(with(Kept(s))) = with(Blank(Kept(s)))
    <2>1. /\ e.kind # None /\ e.id # None /\ e.name # None /\ e.delimiter # None /\ e.selectable # None
          /\ e.child_state # None
      BY <1>1, NoneAssumption DEF Entry, IsPlain, Required
    <2> QED BY <2>1 DEF Blanked, Blank
  <1>6. with(Kept(s)) \in MailboxEntries /\ with(Blank(Kept(s))) \in MailboxEntries
    BY <1>1, <1>2 DEF MailboxEntries, Nullables
  <1>7. Entry(with(Blank(Kept(s))))
    BY <1>1, <1>2 DEF Entry
  <1>8. Used(with(Blank(Kept(s)))) = with(Kept(s))
    BY <1>2, <1>3
  <1>9. with(Kept(s)).kind \in Kinds
    BY DEF Entry
  <1> HIDE DEF with
  <1> QED BY <1>4, <1>5, <1>6, <1>7, <1>8, <1>9

(* A list of mailboxes is read as it was answered. *)
LEMMA ListSurvives ==
  ASSUME NEW g \in FrameTypes("list"), Answer(g) # None
  PROVE  Survives(Answer(g)) /\ Answer(g).kind = "list" /\ Answer(g).request_id = g.request_id
  <1> DEFINE p == g.payload
             q == [n \in DOMAIN p |-> Used(p[n])]
             w == [n \in DOMAIN q |-> Blanked(q[n])]
             frame(c, x) == [kind |-> "list", request_id |-> g.request_id, correlation_id |-> c, payload |-> x]
             f == frame(Kept(g.correlation_id), q)
             m == [kind |-> "list", request_id |-> g.request_id, payload_id |-> g.request_id,
                   correlation_id |-> Blank(f.correlation_id), payload |-> w]
             n == frame(Blank(f.correlation_id), w)
  <1>1. /\ g.request_id \in Nullables /\ g.correlation_id \in Nullables /\ p \in Seq(MailboxEntries)
        /\ g = frame(g.correlation_id, p)
    BY DEF FrameTypes, PayloadTypes
  <1>2. ASSUME NEW c, NEW x
        PROVE  Answer(frame(c, x)) =
                 IF Required(g.request_id) /\ \A e \in ToSet(x) : Entry(e)
                 THEN frame(Kept(c), [i \in DOMAIN x |-> Used(x[i])]) ELSE None
    <2>1. [frame(c, x) EXCEPT !.correlation_id = Kept(@)] = frame(Kept(c), x)
      OBVIOUS
    <2>2. Answer(frame(c, x)) = IF Required(g.request_id) THEN ListResult(frame(Kept(c), x)) ELSE None
      BY <2>1 DEF Answer
    <2>3. [frame(Kept(c), x) EXCEPT !.payload = [i \in DOMAIN x |-> Used(x[i])]] =
          frame(Kept(c), [i \in DOMAIN x |-> Used(x[i])])
      OBVIOUS
    <2> QED BY <2>2, <2>3 DEF ListResult
  <1>3. Answer(g) = f /\ Required(g.request_id) /\ \A e \in ToSet(p) : Entry(e)
    BY <1>1, <1>2
  <1>4. DOMAIN p = 1 .. Len(p) /\ Len(p) \in Nat /\ \A i \in DOMAIN p : p[i] \in MailboxEntries /\ Entry(p[i])
    <2>1. DOMAIN p = 1 .. Len(p) /\ Len(p) \in Nat /\ \A i \in DOMAIN p : p[i] \in MailboxEntries
      BY <1>1
    <2> QED BY <1>3, <2>1 DEF ToSet
  <1>5. \A i \in DOMAIN p : /\ q[i] \in MailboxEntries /\ q[i].kind \in Kinds
                            /\ w[i] \in MailboxEntries /\ Entry(w[i]) /\ Used(w[i]) = q[i]
    BY <1>4, UsedEntry
  <1>6. q \in Seq(MailboxEntries) /\ w \in Seq(MailboxEntries)
    <2>1. q \in [1 .. Len(p) -> MailboxEntries] /\ w \in [1 .. Len(p) -> MailboxEntries]
      BY <1>4, <1>5
    <2> HIDE DEF q, w
    <2> QED BY <1>4, <2>1
  <1>7. (\A e \in ToSet(q) : e.kind \in Kinds) /\ (\A e \in ToSet(w) : Entry(e))
    <2>1. DOMAIN q = DOMAIN p /\ DOMAIN w = DOMAIN p
      OBVIOUS
    <2>2. (\A i \in DOMAIN q : q[i].kind \in Kinds) /\ (\A i \in DOMAIN w : Entry(w[i]))
      BY <1>5, <2>1
    <2> HIDE DEF q, w
    <2> QED BY <2>2 DEF ToSet
  <1>8. [i \in DOMAIN w |-> Used(w[i])] = q
    BY <1>5
  <1>9. f \in FrameTypes("list")
    BY <1>1, <1>6, KeptString DEF FrameTypes, PayloadTypes
  <1>10. EncodeAnswer(f) = m
    BY <1>3, <1>7 DEF EncodeAnswer, Writable, PayloadWritten, Blank
  <1>11. m \in AnswerTypes("list")
    BY <1>1, <1>6, KeptString, BlankIsString DEF AnswerTypes, PayloadTypes, Nullables
  <1>12. DecodeAnswer(m) = Answer(n)
    BY <1>3 DEF DecodeAnswer, Required
  <1>13. Answer(n) = f
    <2>1. Kept(Blank(Kept(g.correlation_id))) = Kept(g.correlation_id)
      BY <1>1, KeptString
    <2>2. Answer(n) = frame(Kept(Blank(Kept(g.correlation_id))), [i \in DOMAIN w |-> Used(w[i])])
      BY <1>2, <1>3, <1>7
    <2> QED BY <1>8, <2>1, <2>2
  <1> QED BY <1>3, <1>9, <1>10, <1>11, <1>12, <1>13, NoneAssumption DEF Survives, AnswerKinds

(* So is an answer of any kind. *)
LEMMA AnswerSurvives ==
  ASSUME NEW kind \in AnswerKinds, NEW g \in FrameTypes(kind), Answer(g) # None
  PROVE  Survives(Answer(g)) /\ Answer(g).kind = kind /\ Answer(g).request_id = g.request_id
  BY SuccessSurvives, ErrorSurvives, SelectSurvives, ChunkSurvives, ListSurvives DEF AnswerKinds

(* What an outcome is framed with decides whether there is an answer only  *)
(* if it is a chunk.                                                       *)
LEMMA OutcomeIsAnswered ==
  ASSUME NEW o \in Outcomes, NEW id \in Nullables, Required(id), NEW co \in Nullables,
         o.kind = "chunk" => NoControl(id) /\ NoControl(co)
  PROVE  Answer([kind |-> o.kind, request_id |-> id, correlation_id |-> co, payload |-> o.payload]) # None
  <1> DEFINE p == o.payload
             frame(i, c) == [kind |-> o.kind, request_id |-> i, correlation_id |-> c, payload |-> p]
             f == frame(id, Kept(co))
  <1>1. /\ o.kind \in AnswerKinds /\ p \in PayloadTypes(o.kind)
        /\ Answer(frame(<<1>>, None)) # None
    BY OutcomesAssumption
  <1>2. Kept(None) = None
    <2>1. << >> \in Seq(Nat)
      OBVIOUS
    <2> QED BY <2>1, NoneAssumption DEF Kept
  <1>3. Required(<<1>>)
    <2>1. <<1>> \in Seq(Nat) /\ <<1>> # << >>
      OBVIOUS
    <2> QED BY <2>1, NoneAssumption DEF Required
  <1>4. [frame(id, co) EXCEPT !.correlation_id = Kept(@)] = f
    OBVIOUS
  <1>5. [frame(<<1>>, None) EXCEPT !.correlation_id = Kept(@)] = frame(<<1>>, None)
    BY <1>2
  <1>6. None \notin FrameTypes(o.kind)
    BY <1>1, NoneAssumption
  <1>7. f \in FrameTypes(o.kind)
    BY <1>1, KeptString DEF FrameTypes
  <1>8. CASE o.kind = "success"
    <2>1. SuccessReceipt(frame(<<1>>, None)) # None
      BY <1>1, <1>5, <1>8 DEF Answer
    <2>2. Required(p.durable_marker) /\ p.sequence # 0 /\ Required(p.summary)
      BY <2>1 DEF SuccessReceipt
    <2>3. SuccessReceipt(f) = f
      BY <2>2 DEF SuccessReceipt
    <2>4. Answer(frame(id, co)) = SuccessReceipt(f)
      BY <1>4, <1>8 DEF Answer
    <2> QED BY <1>6, <1>7, <2>3, <2>4
  <1>9. CASE o.kind = "select"
    <2>1. SelectResult(frame(<<1>>, None)) # None
      BY <1>1, <1>5, <1>9 DEF Answer
    <2>2. p.kind \in Kinds /\ IsPlain(p.id) /\ IsPlain(p.name) /\ p.uidvalidity # 0 /\ p.uidnext # 0
      BY <2>1 DEF SelectResult
    <2>3. SelectResult(f) = f
      BY <2>2 DEF SelectResult
    <2>4. Answer(frame(id, co)) = SelectResult(f)
      BY <1>4, <1>9 DEF Answer
    <2> QED BY <1>6, <1>7, <2>3, <2>4
  <1>10. CASE o.kind = "list"
    <2>1. ListResult(frame(<<1>>, None)) # None
      BY <1>1, <1>5, <1>10 DEF Answer
    <2>2. \A e \in ToSet(p) : Entry(e)
      BY <2>1 DEF ListResult
    <2>3. ListResult(f) = [f EXCEPT !.payload = [n \in DOMAIN p |-> Used(p[n])]]
      BY <2>2 DEF ListResult
    <2>4. Answer(frame(id, co)) = ListResult(f)
      BY <1>4, <1>10 DEF Answer
    <2>5. [n \in DOMAIN p |-> Used(p[n])] \in Seq(MailboxEntries)
      <3>1. p \in Seq(MailboxEntries)
        BY <1>1, <1>10 DEF PayloadTypes
      <3>2. DOMAIN p = 1 .. Len(p) /\ Len(p) \in Nat /\ \A i \in DOMAIN p : p[i] \in MailboxEntries
        BY <3>1
      <3>3. \A i \in DOMAIN p : Entry(p[i])
        BY <2>2 DEF ToSet
      <3>4. \A i \in DOMAIN p : Used(p[i]) \in MailboxEntries
        BY <3>2, <3>3, UsedEntry
      <3> QED BY <3>2, <3>4, IsASeq
    <2>6. [f EXCEPT !.payload = [n \in DOMAIN p |-> Used(p[n])]] \in FrameTypes("list")
      BY <1>7, <1>10, <2>5 DEF FrameTypes, PayloadTypes
    <2> QED BY <1>6, <1>10, <2>3, <2>4, <2>6
  <1>11. CASE o.kind = "error"
    <2>1. p = [class |-> p.class, message |-> p.message, retry_hint |-> p.retry_hint]
      BY <1>1, <1>11 DEF PayloadTypes
    <2> DEFINE answer(i, c) ==
                 [kind |-> "error", request_id |-> i, correlation_id |-> c,
                  payload |-> [class |-> p.class, message |-> p.message, retry_hint |-> p.retry_hint]]
    <2>2. frame(id, co) = answer(id, co) /\ frame(<<1>>, None) = answer(<<1>>, None)
      BY <1>11, <2>1
    <2>3. ASSUME NEW i, NEW c
          PROVE  Answer(answer(i, c)) =
                   IF Required(i) /\ Required(p.message) /\ p.class \in Classes
                   THEN [kind |-> "error", request_id |-> i, correlation_id |-> Kept(c),
                         payload |-> [class |-> p.class, message |-> p.message,
                                      retry_hint |-> Kept(p.retry_hint)]]
                   ELSE None
      BY ErrorAnswer
    <2>4. Required(p.message) /\ p.class \in Classes
      <3> HIDE DEF answer
      <3> QED BY <1>1, <2>2, <2>3
    <2>5. Answer(answer(id, co)) = [kind |-> "error", request_id |-> id, correlation_id |-> Kept(co),
                         payload |-> [class |-> p.class, message |-> p.message,
                                      retry_hint |-> Kept(p.retry_hint)]]
      BY <2>3, <2>4
    <2>6. Answer(answer(id, co)) \in FrameTypes("error")
      <3>1. p.class \in STRING /\ p.message \in Nullables /\ Kept(p.retry_hint) \in Nullables
        BY <1>1, <1>11, KeptString DEF PayloadTypes
      <3> QED BY <2>5, <3>1, KeptString DEF FrameTypes, PayloadTypes
    <2> QED BY <1>6, <1>11, <2>2, <2>6
  <1>12. CASE o.kind = "chunk"
    <2> DEFINE shape(m, q) == [message_id |-> m, query_id |-> q, index |-> p.index, bytes |-> p.bytes,
                               end |-> p.end]
               answer(i, c) == [kind |-> "chunk", request_id |-> i, correlation_id |-> c,
                                payload |-> shape(p.message_id, p.query_id)]
    <2>1. p = shape(p.message_id, p.query_id)
      BY <1>1, <1>12 DEF PayloadTypes
    <2>2. frame(id, co) = answer(id, co) /\ frame(<<1>>, None) = answer(<<1>>, None)
      BY <1>12, <2>1
    <2>3. ASSUME NEW i, NEW c
          PROVE  Answer(answer(i, c)) =
                   IF /\ Required(i) /\ Required(p.message_id) # Required(p.query_id)
                      /\ NoControl(i) /\ NoControl(p.message_id) /\ NoControl(p.query_id)
                      /\ NoControl(Kept(c)) /\ (p.end \/ p.bytes # << >>)
                   THEN [kind |-> "chunk", request_id |-> i, correlation_id |-> Kept(c),
                         payload |-> shape(Kept(p.message_id), Kept(p.query_id))]
                   ELSE None
      BY ChunkAnswer
    <2>4. /\ Required(p.message_id) # Required(p.query_id)
          /\ NoControl(p.message_id) /\ NoControl(p.query_id) /\ (p.end \/ p.bytes # << >>)
      <3> HIDE DEF answer, shape
      <3> QED BY <1>1, <2>2, <2>3
    <2>5. Answer(answer(id, co)) = [kind |-> "chunk", request_id |-> id, correlation_id |-> Kept(co),
                                    payload |-> shape(Kept(p.message_id), Kept(p.query_id))]
      <3>1. NoControl(Kept(co)) /\ NoControl(id)
        BY <1>12, KeptString
      <3> HIDE DEF answer, shape
      <3> QED BY <2>3, <2>4, <3>1
    <2>6. Answer(answer(id, co)) \in FrameTypes("chunk")
      <3>1. /\ Kept(p.message_id) \in Nullables /\ Kept(p.query_id) \in Nullables
            /\ p.index \in Nat /\ p.bytes \in Seq(Nat) /\ p.end \in BOOLEAN
        BY <1>1, <1>12, KeptString DEF PayloadTypes
      <3>2. shape(Kept(p.message_id), Kept(p.query_id)) \in PayloadTypes("chunk")
        BY <3>1 DEF PayloadTypes
      <3> QED BY <2>5, <3>2, KeptString DEF FrameTypes
    <2> QED BY <1>6, <1>12, <2>2, <2>6
  <1> QED BY <1>1, <1>8, <1>9, <1>10, <1>11, <1>12 DEF AnswerKinds

(* What the daemon answers: an answer that is read as it was meant, under  *)
(* the id of its request, and an error only if there is reason to.         *)
Odd(r) == /\ r.kind \in Streams
          /\ \E f \in {"request_id", "correlation_id"} : ~NoControl(r.identity[f])
(* The exchange holds what its outcome was answered and read as. *)
AnswerInv ==
  exchange.stage \in {"executed", "answered"} =>
    /\ Survives(exchange.answer)
    /\ exchange.answer.request_id = exchange.request.identity.request_id
    /\ exchange.answer.kind = "error" => exchange.failed \/ Odd(exchange.request)
    /\ exchange.stage = "answered" => exchange.seen = exchange.answer

(* Who asked is kept as it was meant.                                      *)
LEMMA DecodedIdentity ==
  ASSUME NEW kind \in RequestKinds, NEW r \in RequestTypes(kind), DecodeRequest(Written(r)) # None
  PROVE  LET d == DecodeRequest(Written(r))
         IN  /\ d.kind = kind /\ r.kind = kind /\ d.identity \in Identities
             /\ d.identity.request_id = r.identity.request_id /\ Required(d.identity.request_id)
             /\ NoControl(d.identity.correlation_id) = NoControl(r.identity.correlation_id)
  <1> DEFINE m == Written(r)
             d == DecodeRequest(m)
  <1>1. r.kind = kind /\ r.identity \in Identities
    BY DEF RequestTypes
  <1>2. m = [kind |-> kind, identity |-> Blanked(r.identity), body |-> Body(kind, r.body)]
    BY <1>1 DEF Written
  <1>3. d = [m EXCEPT !.body = Checked(m.kind, m.body)] /\ m.identity.request_id # << >>
    BY DEF DecodeRequest, IdentityRead
  <1>4. d.kind = kind /\ d.identity = Blanked(r.identity) /\ Blanked(r.identity).request_id # << >>
    BY <1>2, <1>3
  <1>5. /\ Blanked(r.identity).request_id = Blank(r.identity.request_id)
        /\ Blanked(r.identity).correlation_id = Blank(r.identity.correlation_id)
    BY <1>1 DEF Blanked, Blank, Identities
  <1>6. Blanked(r.identity) \in Identities
    BY <1>1, BlankIsString DEF Blanked, Blank, Identities, Nullables
  <1>7. /\ r.identity.request_id \in Nullables /\ r.identity.correlation_id \in Nullables
    BY <1>1 DEF Identities
  <1>8. Required(Blank(r.identity.request_id)) /\ Blank(r.identity.request_id) = r.identity.request_id
    BY <1>4, <1>5, <1>7, BlankIsString DEF Required, Blank
  <1> QED BY <1>1, <1>4, <1>5, <1>6, <1>7, <1>8, BlankIsString

(* Every step keeps that. *)
LEMMA AnswerInvCorrect == Spec => []AnswerInv
  <1>1. Init => AnswerInv
    BY DEF Init, NoExchange, AnswerInv
  <1>2. RequestInv /\ AnswerInv /\ [Next]_vars => AnswerInv'
    <2> SUFFICES ASSUME RequestInv, AnswerInv, [Next]_vars PROVE AnswerInv'
      OBVIOUS
    <2>1. CASE UNCHANGED exchange
      BY <2>1 DEF AnswerInv
    <2>2. CASE Send
      BY <2>2 DEF Send, AnswerInv
    <2>3. CASE Receive
      BY <2>3 DEF Receive, AnswerInv
    <2>4. CASE Execute
      <3> DEFINE r == exchange.request
                 d == exchange.decoded
      <3>1. r \in Requests /\ d = DecodeRequest(Written(r)) /\ d # None
        BY <2>4 DEF Execute, RequestInv
      <3>2. PICK kind \in RequestKinds : r \in RequestTypes(kind)
        BY <3>1, RequestsAssumption
      <3>3. /\ d.kind = kind /\ r.kind = kind /\ d.identity \in Identities
            /\ d.identity.request_id = r.identity.request_id /\ Required(d.identity.request_id)
            /\ NoControl(d.identity.correlation_id) = NoControl(r.identity.correlation_id)
        BY <3>1, <3>2, DecodedIdentity
      <3>4. d.identity.request_id \in Nullables /\ d.identity.correlation_id \in Nullables
        BY <3>3 DEF Identities
      <3>5. PICK o \in Outcomes, e \in Outcomes :
              /\ o.kind \in {AnswerKind(d.kind), "error"} /\ e.kind = "error"
              /\ LET f == IF o.kind = "error" THEN None ELSE Answer(Framed(o.kind, o.payload))
                 IN  exchange' = [stage |-> "executed", own |-> exchange.own, request |-> r, decoded |-> d,
                                  failed |-> o.kind = "error",
                                  answer |-> IF f # None THEN f ELSE Answer(Framed("error", e.payload))]
        BY <2>4 DEF Execute
      <3> DEFINE f == IF o.kind = "error" THEN None ELSE Answer(Framed(o.kind, o.payload))
                 x == Answer(Framed("error", e.payload))
      <3>6. ASSUME NEW y \in Outcomes
            PROVE  /\ y.kind \in AnswerKinds
                   /\ Framed(y.kind, y.payload) =
                        [kind |-> y.kind, request_id |-> d.identity.request_id,
                         correlation_id |-> d.identity.correlation_id, payload |-> y.payload]
                   /\ Framed(y.kind, y.payload) \in FrameTypes(y.kind)
        BY <3>4, OutcomesAssumption DEF Framed, FrameTypes
      <3>11. ASSUME NEW y \in Outcomes,
                    y.kind = "chunk" => /\ NoControl(d.identity.request_id)
                                        /\ NoControl(d.identity.correlation_id)
             PROVE  Answer(Framed(y.kind, y.payload)) # None
        <4>1. Answer([kind |-> y.kind, request_id |-> d.identity.request_id,
                      correlation_id |-> d.identity.correlation_id, payload |-> y.payload]) # None
          BY <3>3, <3>4, <3>11, OutcomeIsAnswered
        <4> QED BY <3>6, <4>1
      <3>7. x # None /\ Survives(x) /\ x.request_id = r.identity.request_id /\ x.kind = "error"
        <4>1. x # None
          BY <3>5, <3>11
        <4>2. Survives(x) /\ x.kind = "error" /\ x.request_id = Framed("error", e.payload).request_id
          BY <3>5, <3>6, <4>1, AnswerSurvives
        <4> QED BY <3>3, <4>1, <4>2 DEF Framed
      <3>8. ASSUME f # None
            PROVE  Survives(f) /\ f.request_id = r.identity.request_id /\ f.kind # "error"
        <4>1. Survives(f) /\ f.kind = o.kind /\ f.request_id = Framed(o.kind, o.payload).request_id
          BY <3>6, <3>8, AnswerSurvives
        <4> QED BY <3>3, <3>8, <4>1 DEF Framed
      <3>9. ASSUME f = None, o.kind # "error"
            PROVE  Odd(r)
        <4>1. o.kind = "chunk" /\ ~(NoControl(d.identity.request_id) /\ NoControl(d.identity.correlation_id))
          <5>1. Answer(Framed(o.kind, o.payload)) = None
            BY <3>9
          <5> QED BY <3>11, <5>1
        <4>2. AnswerKind(kind) = "chunk"
          BY <3>3, <3>5, <4>1
        <4>3. kind \in Streams
          BY <4>2 DEF AnswerKind, RequestKinds
        <4> QED BY <3>3, <4>1, <4>3 DEF Odd
      <3>10. /\ exchange'.stage = "executed" /\ exchange'.request = r
             /\ exchange'.failed = (o.kind = "error") /\ exchange'.answer = IF f # None THEN f ELSE x
        BY <3>5
      <3> HIDE DEF r, d, f, x
      <3> QED BY <3>7, <3>8, <3>9, <3>10 DEF AnswerInv
    <2>5. CASE Understand
      <3>1. /\ exchange'.stage = "answered" /\ exchange'.request = exchange.request
            /\ exchange'.failed = exchange.failed /\ exchange'.answer = exchange.answer
            /\ exchange'.seen = IF EncodeAnswer(exchange.answer) = None THEN None
                                ELSE DecodeAnswer(EncodeAnswer(exchange.answer))
        BY <2>5 DEF Understand, RequestInv, Onto
      <3> QED BY <2>5, <3>1 DEF Understand, AnswerInv, Survives
    <2> QED BY <2>1, <2>2, <2>3, <2>4, <2>5
              DEF Next, vars, WriteRecord, WriteForeign, ExtractFacts, ReadRecord
  <1> QED BY <1>1, <1>2, RequestInvCorrect, PTL DEF Spec

(* What the client sees is what the daemon answered, under the id of its   *)
(* request, and no error in place of what was executed.                    *)
THEOREM AnswersUnderstoodCorrect == Spec => []AnswersUnderstoodUnlessOdd
  <1>1. AnswerInv => AnswersUnderstoodUnlessOdd
    BY DEF AnswerInv, AnswersUnderstoodUnlessOdd, Odd
  <1> QED BY <1>1, AnswerInvCorrect, PTL

(* A set of numbers that is not empty has a least one.                     *)
LEMMA LeastNumber ==
  ASSUME NEW S, S \subseteq Nat, S # {}
  PROVE  \E n \in S : \A k \in S : n <= k
  <1>1. \E x \in S : \A y \in S : ~(<<y, x>> \in OpToRel(<, Nat))
    BY NatLessThanWellFounded, WFMin
  <1>2. PICK x \in S : \A y \in S : ~(<<y, x>> \in OpToRel(<, Nat))
    BY <1>1
  <1>3. \A y \in S : ~(y < x)
    BY <1>2 DEF OpToRel
  <1>4. \A y \in S : x =< y
    BY <1>3
  <1> QED BY <1>4

(* What a fold does with an element, for every fold of the model.          *)
FoldStep(k, acc, x) ==
  CASE k.of = "string" -> String(acc, x)
    [] k.of = "field" -> Field(acc, x)
    [] k.of = "item" -> ReadItem(acc, k.layout)
    [] OTHER -> acc

(* The largest of the first n numbers. *)
LEMMA MaxOfInterval ==
  ASSUME NEW n \in Nat, NEW x, x \subseteq 1 .. n, n \in x
  PROVE  Max(x) = n
  <1>1. \A y \in x : n >= y /\ y \in Nat
    OBVIOUS
  <1>2. \A m \in x : (\A y \in x : m >= y) => m = n
    BY <1>1
  <1> QED BY <1>1, <1>2 DEF Max

(* The function by which a fold over n elements is defined.                *)
Folds(k, base, s, n, h) ==
  h = [x \in SUBSET (1 .. n) |-> IF x = {} THEN base ELSE FoldStep(k, h[x \ {Max(x)}], s[Max(x)])]

(* Every sequence has a fold, over the subsets of its places. *)
LEMMA FoldExists ==
  ASSUME NEW k, NEW base, NEW s, NEW n \in Nat
  PROVE  \E h : Folds(k, base, s, n, h)
  <1> USE DEF Folds
  <1> DEFINE Rec(h, m) == Folds(k, base, s, m, h)
             Bad == {m \in Nat : ~\E h : Rec(h, m)}
  <1>1. SUFFICES ASSUME Bad # {} PROVE FALSE
    OBVIOUS
  <1>2. PICK m \in Bad : \A l \in Bad : m <= l
    <2>1. Bad \subseteq Nat
      OBVIOUS
    <2> HIDE DEF Bad
    <2> QED BY <1>1, <2>1, LeastNumber
  <1>3. m # 0
    <2> SUFFICES ASSUME m = 0 PROVE FALSE
      OBVIOUS
    <2>1. SUBSET (1 .. 0) = {{}}
      OBVIOUS
    <2>2. Rec([x \in {{}} |-> base], 0)
      BY <2>1
    <2> QED BY <2>2
  <1>4. m - 1 \in Nat /\ m - 1 \notin Bad
    <2>1. m \in Nat
      BY <1>2
    <2> HIDE DEF Bad
    <2> QED BY <1>2, <1>3, <2>1
  <1>5. PICK g : Rec(g, m - 1)
    BY <1>4
  <1> DEFINE h == [x \in SUBSET (1 .. m) |->
                     IF m \in x THEN FoldStep(k, g[x \ {m}], s[m]) ELSE g[x]]
  <1>6. ASSUME NEW x \in SUBSET (1 .. m)
        PROVE  h[x] = IF x = {} THEN base ELSE FoldStep(k, h[x \ {Max(x)}], s[Max(x)])
    <2>1. CASE m \in x
      <3>1. Max(x) = m
        BY <2>1, <1>2, MaxOfInterval
      <3>2. x \ {m} \in SUBSET (1 .. m) /\ m \notin x \ {m}
        OBVIOUS
      <3> QED BY <2>1, <3>1, <3>2
    <2>2. CASE m \notin x
      <3>1. x \in SUBSET (1 .. m - 1)
        BY <2>2, <1>2
      <3>2. g[x] = IF x = {} THEN base ELSE FoldStep(k, g[x \ {Max(x)}], s[Max(x)])
        BY <1>5, <3>1
      <3>3. h[x] = g[x]
        BY <2>2
      <3>4. h[x \ {Max(x)}] = g[x \ {Max(x)}]
        <4>1. x \ {Max(x)} \in SUBSET (1 .. m) /\ m \notin x \ {Max(x)}
          BY <2>2
        <4> QED BY <4>1
      <3> HIDE DEF h
      <3> QED BY <3>2, <3>3, <3>4
    <2> QED BY <2>1, <2>2
  <1>7. Rec(h, m)
    <2>1. h = [x \in SUBSET (1 .. m) |-> h[x]]
      OBVIOUS
    <2> HIDE DEF h
    <2> QED BY <1>6, <2>1
  <1> QED BY <1>2, <1>7

(* The results of a fold, one after the other.                             *)
LEMMA FoldStart ==
  ASSUME NEW k, NEW base, NEW s, NEW n \in Nat, NEW h, Folds(k, base, s, n, h)
  PROVE  h[{}] = base
  BY DEF Folds

(* A fold of one more place is one more step. *)
LEMMA FoldTrace ==
  ASSUME NEW k, NEW base, NEW s, NEW n \in Nat, NEW h, Folds(k, base, s, n, h)
  PROVE  \A i \in 1 .. n : h[1 .. i] = FoldStep(k, h[1 .. (i - 1)], s[i])
  <1>2. ASSUME NEW i \in 1 .. n
        PROVE  h[1 .. i] = FoldStep(k, h[1 .. (i - 1)], s[i])
    <2>1. Max(1 .. i) = i
      BY MaxOfInterval
    <2>2. (1 .. i) \ {i} = 1 .. (i - 1) /\ 1 .. i # {} /\ 1 .. i \in SUBSET (1 .. n)
      OBVIOUS
    <2> QED BY <2>1, <2>2 DEF Folds
  <1> QED BY <1>2

(* The results of a fold, one for each place. *)
LEMMA FoldResults ==
  ASSUME NEW k, NEW base, NEW s, NEW n \in Nat, NEW h, Folds(k, base, s, n, h)
  PROVE  \E F : /\ F = [i \in 0 .. n |-> F[i]] /\ F[0] = base /\ F[n] = h[1 .. n]
                /\ \A i \in 1 .. n : F[i] = FoldStep(k, F[i - 1], s[i])
  <1> DEFINE F == [i \in 0 .. n |-> h[1 .. i]]
  <1>1. \A i \in 0 .. n : F[i] = h[1 .. i]
    OBVIOUS
  <1>2. F = [i \in 0 .. n |-> F[i]]
    OBVIOUS
  <1>3. 0 \in 0 .. n /\ n \in 0 .. n /\ \A i \in 1 .. n : i \in 0 .. n /\ i - 1 \in 0 .. n
    OBVIOUS
  <1> HIDE DEF F
  <1>4. F[0] = base /\ F[n] = h[1 .. n]
    <2>1. h[{}] = base
      BY FoldStart
    <2>2. 1 .. 0 = {}
      OBVIOUS
    <2> QED BY <1>1, <1>3, <2>1, <2>2
  <1>5. \A i \in 1 .. n : F[i] = FoldStep(k, F[i - 1], s[i])
    <2> TAKE i \in 1 .. n
    <2>1. h[1 .. i] = FoldStep(k, h[1 .. (i - 1)], s[i])
      BY FoldTrace
    <2> QED BY <1>1, <1>3, <2>1
  <1> QED BY <1>2, <1>4, <1>5

(* The readings of a fold, one for each element.                           *)
FieldRun(F, base, s, n) ==
  /\ F = [i \in 0 .. n |-> F[i]] /\ F[0] = base /\ F[n] = FoldLeft(Field, base, s)
  /\ \A i \in 1 .. n : F[i] = Field(F[i - 1], s[i])
StringRun(F, base, s, n) ==
  /\ F = [i \in 0 .. n |-> F[i]] /\ F[0] = base /\ F[n] = FoldLeft(String, base, s)
  /\ \A i \in 1 .. n : F[i] = String(F[i - 1], s[i])
ItemRun(F, layout, r, n) ==
  /\ F = [i \in 0 .. n |-> F[i]] /\ F[0] = Reading(r.rest) /\ F[n] = ReadItems(r, n, layout)
  /\ \A i \in 1 .. n : F[i] = ReadItem(F[i - 1], layout)

(* A layout is read one field after another. *)
LEMMA FieldTrace ==
  ASSUME NEW base, NEW s, NEW n \in Nat, DOMAIN s = 1 .. n
  PROVE  \E F : FieldRun(F, base, s, n)
  <1> DEFINE k == [of |-> "field"]
             g == CHOOSE h : h = [x \in SUBSET (1 .. n) |->
                                    IF x = {} THEN base ELSE Field(h[x \ {Max(x)}], s[Max(x)])]
  <1>1. ASSUME NEW acc, NEW x PROVE FoldStep(k, acc, x) = Field(acc, x)
    BY DEF FoldStep
  <1> HIDE DEF k
  <1>2. PICK h : Folds(k, base, s, n, h)
    BY FoldExists
  <1>3. h = [x \in SUBSET (1 .. n) |-> IF x = {} THEN base ELSE Field(h[x \ {Max(x)}], s[Max(x)])]
    BY <1>1, <1>2 DEF Folds
  <1>4. g = [x \in SUBSET (1 .. n) |-> IF x = {} THEN base ELSE Field(g[x \ {Max(x)}], s[Max(x)])]
    BY <1>3
  <1>5. FoldLeft(Field, base, s) = g[1 .. n]
    BY DEF FoldLeft, MapThenFoldSet
  <1> HIDE DEF g
  <1>6. Folds(k, base, s, n, g)
    BY <1>1, <1>4 DEF Folds
  <1>7. PICK F : /\ F = [i \in 0 .. n |-> F[i]] /\ F[0] = base /\ F[n] = g[1 .. n]
                 /\ \A i \in 1 .. n : F[i] = FoldStep(k, F[i - 1], s[i])
    BY <1>6, FoldResults
  <1>8. \A i \in 1 .. n : F[i] = Field(F[i - 1], s[i])
    BY <1>1, <1>7
  <1>9. FieldRun(F, base, s, n)
    BY <1>5, <1>7, <1>8 DEF FieldRun
  <1> QED BY <1>9

(* A list is read one string after another. *)
LEMMA StringTrace ==
  ASSUME NEW base, NEW s, NEW n \in Nat, DOMAIN s = 1 .. n
  PROVE  \E F : StringRun(F, base, s, n)
  <1> DEFINE k == [of |-> "string"]
             g == CHOOSE h : h = [x \in SUBSET (1 .. n) |->
                                    IF x = {} THEN base ELSE String(h[x \ {Max(x)}], s[Max(x)])]
  <1>1. ASSUME NEW acc, NEW x PROVE FoldStep(k, acc, x) = String(acc, x)
    BY DEF FoldStep
  <1> HIDE DEF k
  <1>2. PICK h : Folds(k, base, s, n, h)
    BY FoldExists
  <1>3. h = [x \in SUBSET (1 .. n) |-> IF x = {} THEN base ELSE String(h[x \ {Max(x)}], s[Max(x)])]
    BY <1>1, <1>2 DEF Folds
  <1>4. g = [x \in SUBSET (1 .. n) |-> IF x = {} THEN base ELSE String(g[x \ {Max(x)}], s[Max(x)])]
    BY <1>3
  <1>5. FoldLeft(String, base, s) = g[1 .. n]
    BY DEF FoldLeft, MapThenFoldSet
  <1> HIDE DEF g
  <1>6. Folds(k, base, s, n, g)
    BY <1>1, <1>4 DEF Folds
  <1>7. PICK F : /\ F = [i \in 0 .. n |-> F[i]] /\ F[0] = base /\ F[n] = g[1 .. n]
                 /\ \A i \in 1 .. n : F[i] = FoldStep(k, F[i - 1], s[i])
    BY <1>6, FoldResults
  <1>8. \A i \in 1 .. n : F[i] = String(F[i - 1], s[i])
    BY <1>1, <1>7
  <1>9. StringRun(F, base, s, n)
    BY <1>5, <1>7, <1>8 DEF StringRun
  <1> QED BY <1>9

(* Items are read one after another. *)
LEMMA ItemTrace ==
  ASSUME NEW layout, NEW r, NEW n \in Nat
  PROVE  \E F : ItemRun(F, layout, r, n)
  <1> DEFINE k == [of |-> "item", layout |-> layout]
             base == Reading(r.rest)
             s == [i \in 1 .. n |-> i]
             g == CHOOSE h : h = [x \in SUBSET (1 .. n) |->
                                    IF x = {} THEN base ELSE ReadItem(h[x \ {Max(x)}], layout)]
  <1>1. ASSUME NEW acc, NEW x PROVE FoldStep(k, acc, x) = ReadItem(acc, layout)
    BY DEF FoldStep
  <1>5. ReadItems(r, n, layout) = g[1 .. n]
    BY DEF ReadItems, FoldLeft, MapThenFoldSet
  <1> HIDE DEF k, base, s
  <1>2. PICK h : Folds(k, base, s, n, h)
    BY FoldExists
  <1>3. h = [x \in SUBSET (1 .. n) |-> IF x = {} THEN base ELSE ReadItem(h[x \ {Max(x)}], layout)]
    BY <1>1, <1>2 DEF Folds
  <1>4. g = [x \in SUBSET (1 .. n) |-> IF x = {} THEN base ELSE ReadItem(g[x \ {Max(x)}], layout)]
    BY <1>3
  <1> HIDE DEF g
  <1>6. Folds(k, base, s, n, g)
    BY <1>1, <1>4 DEF Folds
  <1>7. \E F : /\ F = [i \in 0 .. n |-> F[i]] /\ F[0] = base /\ F[n] = g[1 .. n]
               /\ \A i \in 1 .. n : F[i] = FoldStep(k, F[i - 1], s[i])
    BY <1>6, FoldResults
  <1>8. PICK F : /\ F = [i \in 0 .. n |-> F[i]] /\ F[0] = base /\ F[n] = g[1 .. n]
                /\ \A i \in 1 .. n : F[i] = FoldStep(k, F[i - 1], s[i])
    BY <1>7
  <1>9. \A i \in 1 .. n : F[i] = ReadItem(F[i - 1], layout)
    BY <1>1, <1>8
  <1>10. ItemRun(F, layout, r, n)
    BY <1>5, <1>8, <1>9 DEF ItemRun, base
  <1> QED BY <1>10

(* Induction over an interval, on the set of the numbers that are good.    *)
LEMMA Induction ==
  ASSUME NEW n \in Nat, NEW S, 0 \in S, \A i \in 1 .. n : i - 1 \in S => i \in S
  PROVE  \A i \in 0 .. n : i \in S
  <1> DEFINE Bad == (0 .. n) \ S
  <1>1. SUFFICES ASSUME Bad # {} PROVE FALSE
    OBVIOUS
  <1>2. PICK m \in Bad : \A l \in Bad : m <= l
    <2>1. Bad \subseteq Nat
      OBVIOUS
    <2> HIDE DEF Bad
    <2> QED BY <1>1, <2>1, LeastNumber
  <1>3. m \in 1 .. n
    BY <1>2
  <1>4. m - 1 \in 0 .. n /\ m - 1 \notin Bad
    <2>1. m - 1 \in 0 .. n /\ m - 1 < m
      BY <1>3
    <2> HIDE DEF Bad
    <2> QED BY <1>2, <1>3, <2>1
  <1>5. m - 1 \in S
    BY <1>4
  <1> QED BY <1>2, <1>3, <1>5

(* What is left of a concatenation, part after part.                       *)
LEMMA Concatenation ==
  ASSUME NEW n \in Nat, NEW seqs
  PROVE  \E f : f = [i \in 1 .. n |-> IF i = 1 THEN seqs[i] ELSE f[i - 1] \o seqs[i]]
  <1> DEFINE Rec(f, m) == f = [i \in 1 .. m |-> IF i = 1 THEN seqs[i] ELSE f[i - 1] \o seqs[i]]
             Good == {m \in Nat : \E f : Rec(f, m)}
  <1>1. 0 \in Good
    <2>1. Rec([i \in 1 .. 0 |-> seqs[i]], 0)
      OBVIOUS
    <2> QED BY <2>1
  <1>2. ASSUME NEW m \in 1 .. n, m - 1 \in Good PROVE m \in Good
    <2>1. PICK g : Rec(g, m - 1)
      BY <1>2
    <2> DEFINE f == [i \in 1 .. m |-> IF i < m THEN g[i] ELSE IF i = 1 THEN seqs[i] ELSE g[i - 1] \o seqs[i]]
    <2>2. ASSUME NEW i \in 1 .. m PROVE f[i] = IF i = 1 THEN seqs[i] ELSE f[i - 1] \o seqs[i]
      <3>1. CASE i < m
        <4>1. i \in 1 .. m - 1
          BY <3>1
        <4>2. g[i] = IF i = 1 THEN seqs[i] ELSE g[i - 1] \o seqs[i]
          BY <2>1, <4>1
        <4>3. i # 1 => i - 1 \in 1 .. m /\ i - 1 < m
          BY <4>1
        <4> QED BY <3>1, <4>2, <4>3
      <3>2. CASE i = m
        <4>1. i # 1 => i - 1 \in 1 .. m /\ i - 1 < m
          BY <3>2
        <4> QED BY <3>2, <4>1
      <3> QED BY <3>1, <3>2
    <2>3. f = [i \in 1 .. m |-> f[i]]
      OBVIOUS
    <2> HIDE DEF f
    <2>4. Rec(f, m)
      BY <2>2, <2>3
    <2>5. m \in Nat
      OBVIOUS
    <2> HIDE DEF Rec
    <2> QED BY <2>4, <2>5
  <1> HIDE DEF Good
  <1>3. n \in Good
    BY <1>1, <1>2, Induction
  <1> QED BY <1>3 DEF Good

(* P has the beginnings of a joined sequence, one for each part.           *)
Joins(P, seqs, n) ==
  /\ P \in [0 .. n -> Seq(Nat)] /\ P[0] = << >> /\ P[n] = FlattenSeq(seqs)
  /\ \A i \in 1 .. n : P[i] = P[i - 1] \o seqs[i]

(* The joined beginnings of a list of parts exist. *)
LEMMA Joined ==
  ASSUME NEW seqs, NEW n, seqs \in Seq(Seq(Nat)), n = Len(seqs)
  PROVE  \E P : Joins(P, seqs, n)
  <1> DEFINE f == CHOOSE h : h = [i \in 1 .. n |-> IF i = 1 THEN seqs[i] ELSE h[i - 1] \o seqs[i]]
             P == [i \in 0 .. n |-> IF i = 0 THEN << >> ELSE f[i]]
  <1>1. n \in Nat /\ DOMAIN seqs = 1 .. n /\ \A i \in 1 .. n : seqs[i] \in Seq(Nat)
    OBVIOUS
  <1>2. FlattenSeq(seqs) = IF n = 0 THEN seqs ELSE f[n]
    BY DEF FlattenSeq
  <1>3. n = 0 => seqs = << >>
    BY EmptySeq
  <1>4. f = [i \in 1 .. n |-> IF i = 1 THEN seqs[i] ELSE f[i - 1] \o seqs[i]]
    BY <1>1, Concatenation
  <1> HIDE DEF f
  <1>5. ASSUME NEW i \in 1 .. n PROVE P[i] = P[i - 1] \o seqs[i]
    <2>1. f[i] = IF i = 1 THEN seqs[i] ELSE f[i - 1] \o seqs[i]
      BY <1>4
    <2>2. P[i] = f[i] /\ P[i - 1] = IF i = 1 THEN << >> ELSE f[i - 1]
      BY <1>1
    <2>3. << >> \o seqs[i] = seqs[i]
      BY <1>1, ConcatEmptySeq
    <2> QED BY <2>1, <2>2, <2>3
  <1>6. P[0] = << >> /\ P[n] = FlattenSeq(seqs)
    BY <1>1, <1>2, <1>3
  <1>10. P = [i \in 0 .. n |-> P[i]]
    OBVIOUS
  <1> HIDE DEF P
  <1>7. \A i \in 0 .. n : P[i] \in Seq(Nat)
    <2> DEFINE Good == {i \in 0 .. n : P[i] \in Seq(Nat)}
    <2>1. 0 \in Good
      <3>1. << >> \in Seq(Nat) /\ 0 \in 0 .. n
        BY <1>1
      <3> QED BY <1>6, <3>1
    <2>2. ASSUME NEW i \in 1 .. n, i - 1 \in Good PROVE i \in Good
      <3>1. seqs[i] \in Seq(Nat) /\ P[i - 1] \in Seq(Nat) /\ i \in 0 .. n
        BY <1>1, <2>2
      <3>2. P[i - 1] \o seqs[i] \in Seq(Nat)
        BY <3>1, ConcatProperties
      <3> QED BY <1>5, <3>1, <3>2
    <2> HIDE DEF Good
    <2>3. \A i \in 0 .. n : i \in Good
      BY <1>1, <2>1, <2>2, Induction
    <2> QED BY <2>3 DEF Good
  <1>8. P \in [0 .. n -> Seq(Nat)]
    BY <1>7, <1>10
  <1>9. Joins(P, seqs, n)
    BY <1>5, <1>6, <1>8 DEF Joins
  <1> QED BY <1>9


(* What a sequence of cells begins with, and what is left behind it.       *)
Begins(c, p) == Len(p) <= Len(c) /\ \A k \in 1 .. Len(p) : c[k] = p[k]
Rest(c, n) == SubSeq(c, n + 1, Len(c))

(* What is left behind n cells. *)
LEMMA RestIs ==
  ASSUME NEW c \in Seq(Nat), NEW n \in 0 .. Len(c)
  PROVE  /\ Rest(c, n) \in Seq(Nat) /\ Len(Rest(c, n)) = Len(c) - n
         /\ \A k \in 1 .. Len(c) - n : Rest(c, n)[k] = c[n + k]
  <1>1. n + 1 \in 1 .. Len(c) + 1 /\ Len(c) \in Nat /\ n \in Nat
    OBVIOUS
  <1>2. \A k \in n + 1 .. Len(c) : c[k] \in Nat
    <2>1. \A k \in n + 1 .. Len(c) : k \in 1 .. Len(c)
      BY <1>1
    <2> QED BY <2>1, ElementOfSeq
  <1>3. /\ SubSeq(c, n + 1, Len(c)) \in Seq(Nat)
        /\ Len(SubSeq(c, n + 1, Len(c))) = IF n + 1 <= Len(c) THEN Len(c) - (n + 1) + 1 ELSE 0
        /\ \A k \in 1 .. Len(c) - (n + 1) + 1 : SubSeq(c, n + 1, Len(c))[k] = c[(n + 1) + k - 1]
    OBVIOUS
  <1> QED BY <1>1, <1>3 DEF Rest

(* What is left is left in two steps as in one. *)
LEMMA RestOfRest ==
  ASSUME NEW c \in Seq(Nat), NEW a \in Nat, NEW b \in Nat, a + b <= Len(c)
  PROVE  Rest(Rest(c, a), b) = Rest(c, a + b)
  <1> DEFINE r == Rest(c, a)  x == Rest(r, b)  y == Rest(c, a + b)
  <1>1. r \in Seq(Nat) /\ Len(r) = Len(c) - a /\ \A k \in 1 .. Len(c) - a : r[k] = c[a + k]
    <2>1. a \in 0 .. Len(c)
      OBVIOUS
    <2> QED BY <2>1, RestIs
  <1> HIDE DEF r
  <1>2. x \in Seq(Nat) /\ Len(x) = Len(r) - b /\ \A k \in 1 .. Len(r) - b : x[k] = r[b + k]
    <2>1. b \in 0 .. Len(r)
      BY <1>1
    <2> QED BY <1>1, <2>1, RestIs
  <1>3. y \in Seq(Nat) /\ Len(y) = Len(c) - (a + b) /\ \A k \in 1 .. Len(c) - (a + b) : y[k] = c[(a + b) + k]
    <2>1. a + b \in 0 .. Len(c)
      OBVIOUS
    <2> QED BY <2>1, RestIs
  <1> HIDE DEF x, y
  <1>4. Len(x) = Len(y) /\ Len(x) \in Nat
    BY <1>1, <1>2, <1>3
  <1>5. \A k \in 1 .. Len(x) : x[k] = y[k]
    <2> TAKE k \in 1 .. Len(x)
    <2>1. k \in 1 .. Len(r) - b /\ b + k \in 1 .. Len(c) - a /\ k \in 1 .. Len(c) - (a + b)
      BY <1>1, <1>2, <1>4
    <2>2. a + (b + k) = (a + b) + k
      BY <2>1
    <2> QED BY <1>1, <1>2, <1>3, <2>1, <2>2
  <1>6. x = y
    BY <1>2, <1>3, <1>4, <1>5, SeqEqual
  <1> QED BY <1>6 DEF x, y, r

(* Where the parts of a joined sequence are.                               *)
Places(p, seqs, n, full) ==
  /\ p \in [0 .. n -> Nat] /\ p[0] = 0 /\ p[n] = Len(full) /\ full \in Seq(Nat)
  /\ \A i \in 1 .. n : p[i] = p[i - 1] + Len(seqs[i]) /\ p[i] <= p[n]
  /\ \A i \in 1 .. n : \A k \in 1 .. Len(seqs[i]) : full[p[i - 1] + k] = seqs[i][k]

(* Where each part stands among the joined parts. *)
LEMMA PlacesOfParts ==
  ASSUME NEW seqs, NEW n, seqs \in Seq(Seq(Nat)), n = Len(seqs)
  PROVE  \E p : Places(p, seqs, n, FlattenSeq(seqs))
  <1> DEFINE full == FlattenSeq(seqs)
  <1>1. n \in Nat /\ DOMAIN seqs = 1 .. n /\ \A i \in 1 .. n : seqs[i] \in Seq(Nat)
    OBVIOUS
  <1>0. PICK P : Joins(P, seqs, n)
    BY Joined
  <1>2. /\ P \in [0 .. n -> Seq(Nat)] /\ P[0] = << >> /\ P[n] = full
        /\ \A i \in 1 .. n : P[i] = P[i - 1] \o seqs[i]
    BY <1>0 DEF Joins
  <1> HIDE DEF full
  <1> DEFINE p == [i \in 0 .. n |-> Len(P[i])]
  <1>3. \A i \in 1 .. n : i \in 0 .. n /\ i - 1 \in 0 .. n
    BY <1>1
  <1>4. 0 \in 0 .. n /\ n \in 0 .. n
    BY <1>1
  <1>5. p \in [0 .. n -> Nat] /\ \A i \in 0 .. n : p[i] = Len(P[i])
    BY <1>2
  <1> HIDE DEF p
  <1>6. p[0] = 0 /\ p[n] = Len(full) /\ full \in Seq(Nat)
    BY <1>2, <1>4, <1>5
  <1>7. ASSUME NEW i \in 1 .. n
        PROVE  /\ p[i] = p[i - 1] + Len(seqs[i])
               /\ \A k \in 1 .. p[i - 1] : P[i][k] = P[i - 1][k]
               /\ \A k \in 1 .. Len(seqs[i]) : P[i][p[i - 1] + k] = seqs[i][k]
    <2>1. seqs[i] \in Seq(Nat) /\ P[i - 1] \in Seq(Nat) /\ p[i] = Len(P[i]) /\ p[i - 1] = Len(P[i - 1])
      BY <1>1, <1>2, <1>3, <1>5
    <2>2. P[i] = P[i - 1] \o seqs[i]
      BY <1>2
    <2>3. ASSUME NEW a \in Seq(Nat), NEW b \in Seq(Nat)
          PROVE  /\ Len(a \o b) = Len(a) + Len(b)
                 /\ \A k \in 1 .. Len(a) : (a \o b)[k] = a[k]
                 /\ \A k \in 1 .. Len(b) : (a \o b)[Len(a) + k] = b[k]
      OBVIOUS
    <2> DEFINE a == P[i - 1]  b == seqs[i]
    <2>5. a \in Seq(Nat) /\ b \in Seq(Nat)
      BY <2>1
    <2>6. P[i] = a \o b
      BY <2>2
    <2> HIDE DEF a, b
    <2>7. /\ Len(a \o b) = Len(a) + Len(b)
          /\ \A k \in 1 .. Len(a) : (a \o b)[k] = a[k]
          /\ \A k \in 1 .. Len(b) : (a \o b)[Len(a) + k] = b[k]
      BY <2>3, <2>5, Zenon
    <2>4. /\ Len(P[i]) = Len(P[i - 1]) + Len(seqs[i])
          /\ \A k \in 1 .. Len(P[i - 1]) : P[i][k] = P[i - 1][k]
          /\ \A k \in 1 .. Len(seqs[i]) : P[i][Len(P[i - 1]) + k] = seqs[i][k]
      BY <2>6, <2>7 DEF a, b
    <2> QED BY <2>1, <2>4
  <1>8. ASSUME NEW i \in 0 .. n
        PROVE  p[i] <= p[n] /\ \A k \in 1 .. p[i] : full[k] = P[i][k]
    <2> DEFINE Good == {d \in 0 .. n : i + d <= n => p[i] <= p[i + d] /\ \A k \in 1 .. p[i] : P[i + d][k] = P[i][k]}
    <2>1. 0 \in Good
      <3>1. i + 0 = i /\ p[i] \in Nat
        BY <1>5
      <3> QED BY <1>4, <3>1
    <2>2. ASSUME NEW d \in 1 .. n, d - 1 \in Good PROVE d \in Good
      <3> SUFFICES ASSUME i + d <= n PROVE p[i] <= p[i + d] /\ \A k \in 1 .. p[i] : P[i + d][k] = P[i][k]
        BY <1>1
      <3>1. i + d \in 1 .. n /\ i + (d - 1) = (i + d) - 1 /\ i + (d - 1) <= n
        BY <1>1
      <3>2. p[i] <= p[(i + d) - 1] /\ \A k \in 1 .. p[i] : P[(i + d) - 1][k] = P[i][k]
        BY <2>2, <3>1
      <3>3. p[i + d] = p[(i + d) - 1] + Len(seqs[i + d]) /\ \A k \in 1 .. p[(i + d) - 1] : P[i + d][k] = P[(i + d) - 1][k]
        BY <1>7, <3>1
      <3>4. Len(seqs[i + d]) \in Nat /\ p[i] \in Nat /\ p[(i + d) - 1] \in Nat
        BY <1>1, <1>3, <1>5, <3>1
      <3> QED BY <3>2, <3>3, <3>4
    <2> HIDE DEF Good
    <2>3. \A d \in 0 .. n : d \in Good
      BY <1>1, <2>1, <2>2, Induction
    <2>4. n - i \in 0 .. n /\ i + (n - i) = n
      BY <1>1
    <2>5. n - i \in Good
      BY <2>3, <2>4
    <2>6. p[i] <= p[n] /\ \A k \in 1 .. p[i] : P[n][k] = P[i][k]
      BY <1>1, <2>4, <2>5 DEF Good
    <2> QED BY <1>2, <2>6
  <1>9. ASSUME NEW i \in 1 .. n
        PROVE  /\ p[i] = p[i - 1] + Len(seqs[i]) /\ p[i] <= p[n]
               /\ \A k \in 1 .. Len(seqs[i]) : full[p[i - 1] + k] = seqs[i][k]
    <2>1. p[i] <= p[n] /\ \A k \in 1 .. p[i] : full[k] = P[i][k]
      BY <1>3, <1>8
    <2>2. Len(seqs[i]) \in Nat /\ p[i - 1] \in Nat
      <3>1. i - 1 \in 0 .. n
        BY <1>3
      <3>2. p[i - 1] \in Nat
        BY <1>5, <3>1
      <3>3. seqs[i] \in Seq(Nat)
        BY <1>1
      <3> QED BY <3>2, <3>3
    <2>3. p[i] = p[i - 1] + Len(seqs[i])
      BY <1>7
    <2>4. ASSUME NEW k \in 1 .. Len(seqs[i]) PROVE full[p[i - 1] + k] = seqs[i][k]
      <3>1. p[i - 1] + k \in 1 .. p[i]
        BY <2>2, <2>3
      <3> QED BY <1>7, <2>1, <3>1
    <2> QED BY <2>1, <2>3, <2>4
  <1>10. Places(p, seqs, n, full)
    BY <1>5, <1>6, <1>9 DEF Places
  <1> QED BY <1>10 DEF full

(* R has what is left of c behind each of the parts it begins with.        *)
Leaves(R, c, seqs, n) ==
  /\ R = [i \in 0 .. n |-> R[i]] /\ R[0] = c /\ R[n] = Rest(c, Len(FlattenSeq(seqs)))
  /\ \A i \in 0 .. n : R[i] \in Seq(Nat)
  /\ \A i \in 1 .. n : Begins(R[i - 1], seqs[i]) /\ R[i] = Rest(R[i - 1], Len(seqs[i]))

(* What is left after each part, when cells begin with the joined parts. *)
LEMMA LeftOver ==
  ASSUME NEW seqs, NEW n, NEW c \in Seq(Nat), seqs \in Seq(Seq(Nat)), n = Len(seqs), Begins(c, FlattenSeq(seqs))
  PROVE  \E R : Leaves(R, c, seqs, n)
  <1> DEFINE full == FlattenSeq(seqs)
  <1>1. n \in Nat /\ DOMAIN seqs = 1 .. n /\ \A i \in 1 .. n : seqs[i] \in Seq(Nat)
    OBVIOUS
  <1>0. PICK p : Places(p, seqs, n, full)
    BY PlacesOfParts
  <1>2. /\ p \in [0 .. n -> Nat] /\ p[0] = 0 /\ p[n] = Len(full) /\ full \in Seq(Nat)
        /\ \A i \in 1 .. n : p[i] = p[i - 1] + Len(seqs[i]) /\ p[i] <= p[n]
        /\ \A i \in 1 .. n : \A k \in 1 .. Len(seqs[i]) : full[p[i - 1] + k] = seqs[i][k]
    BY <1>0 DEF Places
  <1>3. Len(full) <= Len(c) /\ \A k \in 1 .. Len(full) : c[k] = full[k]
    BY DEF Begins
  <1> HIDE DEF full
  <1> DEFINE R == [i \in 0 .. n |-> Rest(c, p[i])]
  <1>4. \A i \in 1 .. n : i \in 0 .. n /\ i - 1 \in 0 .. n
    BY <1>1
  <1>5. 0 \in 0 .. n /\ n \in 0 .. n
    BY <1>1
  <1>6. R = [i \in 0 .. n |-> R[i]] /\ \A i \in 0 .. n : R[i] = Rest(c, p[i])
    OBVIOUS
  <1> HIDE DEF R
  <1>7. \A i \in 0 .. n : p[i] \in 0 .. Len(c)
    <2> TAKE i \in 0 .. n
    <2>1. p[i] \in Nat /\ p[n] <= Len(c)
      BY <1>2, <1>3
    <2>2. i = 0 \/ i \in 1 .. n
      BY <1>1
    <2>3. p[i] <= p[n]
      BY <1>2, <1>5, <2>1, <2>2
    <2> QED BY <1>2, <2>1, <2>3
  <1>8. \A i \in 0 .. n : R[i] \in Seq(Nat)
    BY <1>6, <1>7, RestIs
  <1>9. R[0] = c
    <2>1. Rest(c, 0) = c
      <3>1. Rest(c, 0) \in Seq(Nat) /\ Len(Rest(c, 0)) = Len(c) - 0 /\ \A k \in 1 .. Len(c) - 0 : Rest(c, 0)[k] = c[0 + k]
        <4>1. 0 \in 0 .. Len(c)
          OBVIOUS
        <4> QED BY <4>1, RestIs
      <3> QED BY <3>1, SeqEqual
    <2> QED BY <1>2, <1>5, <1>6, <2>1
  <1>10. R[n] = Rest(c, Len(full))
    BY <1>2, <1>5, <1>6
  <1>11. ASSUME NEW i \in 1 .. n PROVE Begins(R[i - 1], seqs[i]) /\ R[i] = Rest(R[i - 1], Len(seqs[i]))
    <2>1. /\ p[i] = p[i - 1] + Len(seqs[i]) /\ p[i] <= Len(full)
          /\ \A k \in 1 .. Len(seqs[i]) : full[p[i - 1] + k] = seqs[i][k]
      BY <1>2
    <2>2. p[i - 1] \in Nat /\ Len(seqs[i]) \in Nat /\ p[i] <= Len(c)
      <3>1. i - 1 \in 0 .. n /\ i \in 0 .. n
        BY <1>4
      <3>2. p[i - 1] \in Nat /\ p[i] \in Nat
        BY <1>2, <3>1
      <3>3. seqs[i] \in Seq(Nat)
        BY <1>1
      <3>4. Len(seqs[i]) \in Nat
        BY <3>3
      <3>5. Len(full) \in Nat /\ Len(full) <= Len(c)
        BY <1>2, <1>3
      <3>6. p[i] <= Len(full)
        BY <2>1
      <3> HIDE DEF Begins
      <3> QED BY <3>2, <3>4, <3>5, <3>6
    <2>3. R[i - 1] = Rest(c, p[i - 1]) /\ R[i] = Rest(c, p[i - 1] + Len(seqs[i]))
      BY <1>4, <1>6, <2>1
    <2>4. /\ Len(R[i - 1]) = Len(c) - p[i - 1]
          /\ \A k \in 1 .. Len(c) - p[i - 1] : R[i - 1][k] = c[p[i - 1] + k]
      <3>1. p[i - 1] \in 0 .. Len(c)
        BY <1>4, <1>7
      <3> DEFINE q == p[i - 1]
      <3> HIDE DEF q
      <3>2. Len(Rest(c, q)) = Len(c) - q /\ \A k \in 1 .. Len(c) - q : Rest(c, q)[k] = c[q + k]
        BY <3>1, RestIs DEF q
      <3> QED BY <2>3, <3>2 DEF q
    <2>5. Rest(R[i - 1], Len(seqs[i])) = R[i]
      BY <2>1, <2>2, <2>3, RestOfRest
    <2>6. Len(seqs[i]) <= Len(R[i - 1])
      <3>1. Len(R[i - 1]) = Len(c) - p[i - 1]
        BY <2>4
      <3>2. p[i - 1] + Len(seqs[i]) <= Len(c) /\ Len(c) \in Nat
        BY <2>1, <2>2
      <3>3. ASSUME NEW a \in Nat, NEW b \in Nat, NEW d \in Nat, a + b <= d PROVE b <= d - a
        BY <3>3
      <3> QED BY <2>2, <3>1, <3>2, <3>3
    <2>7. \A k \in 1 .. Len(seqs[i]) : R[i - 1][k] = seqs[i][k]
      <3> TAKE k \in 1 .. Len(seqs[i])
      <3>1. k \in 1 .. Len(c) - p[i - 1] /\ p[i - 1] + k \in 1 .. Len(full)
        <4>1. Len(full) \in Nat /\ Len(full) <= Len(c) /\ Len(c) \in Nat
          BY <1>2, <1>3
        <4>2. ASSUME NEW a \in Nat, NEW b \in Nat, NEW d \in Nat, NEW e \in Nat, a + b <= e, e <= d, NEW j \in 1 .. b
              PROVE  j \in 1 .. d - a /\ a + j \in 1 .. e
          BY <4>2
        <4>3. p[i - 1] + Len(seqs[i]) <= Len(full)
          BY <2>1
        <4> QED BY <2>2, <4>1, <4>2, <4>3
      <3> QED BY <1>3, <2>1, <2>4, <3>1
    <2> QED BY <2>5, <2>6, <2>7 DEF Begins
  <1>12. Leaves(R, c, seqs, n)
    BY <1>6, <1>8, <1>9, <1>10, <1>11 DEF Leaves, full
  <1> QED BY <1>12

(* What a field of each kind is written as, and the values it has room for. *)
Put(kind, v) ==
  CASE kind = "word" -> <<v>>
    [] kind \in {"string", "nonempty"} -> Text(v)
    [] kind = "nullable" -> Nullable(v)
    [] kind = "list" -> List(v)
FieldKinds == {"word", "string", "nonempty", "nullable", "list"}
Fits(kind, v) ==
  CASE kind = "word" -> v \in Nat
    [] kind = "string" -> v \in CStrings
    [] kind = "nonempty" -> v \in CStrings /\ v # << >>
    [] kind = "nullable" -> v \in Nullables
    [] kind = "list" -> v \in Seq(CStrings)

(* A string is a sequence of cells, shorter than the null word, and never None. *)
LEMMA CStringIs ==
  ASSUME NEW v \in CStrings
  PROVE  /\ v \in Seq(Nat) /\ Len(v) \in Nat /\ Len(v) < NullWord /\ 0 \notin ToSet(v) /\ v # None
         /\ \A k \in 1 .. Len(v) : v[k] \in Nat \ {0}
  <1>1. v \in Seq(Nat \ {0}) /\ Len(v) < NullWord
    BY DEF CStrings
  <1>2. Len(v) \in Nat /\ \A k \in 1 .. Len(v) : v[k] \in Nat \ {0}
    BY <1>1
  <1>3. v = [k \in 1 .. Len(v) |-> v[k]]
    BY <1>1
  <1>4. v \in Seq(Nat)
    BY <1>2, <1>3, IsASeq
  <1>5. 0 \notin ToSet(v)
    BY <1>1, <1>2 DEF ToSet
  <1>6. v # None
    BY NoneAssumption
  <1> QED BY <1>1, <1>2, <1>4, <1>5, <1>6

(* A text is its length and its cells. *)
LEMMA TextIs ==
  ASSUME NEW v \in CStrings
  PROVE  /\ Text(v) \in Seq(Nat) /\ Len(Text(v)) = Len(v) + 1 /\ Text(v)[1] = Len(v)
         /\ \A k \in 1 .. Len(v) : Text(v)[k + 1] = v[k]
  <1>1. v \in Seq(Nat) /\ Len(v) \in Nat
    BY CStringIs
  <1>2. <<Len(v)>> \in Seq(Nat) /\ Len(<<Len(v)>>) = 1 /\ <<Len(v)>>[1] = Len(v)
    BY <1>1
  <1> QED BY <1>1, <1>2 DEF Text

(* A string reads as it was written, and what is behind it is left. *)
LEMMA StringReads ==
  ASSUME NEW c \in Seq(Nat), NEW g, NEW name, NEW v \in CStrings, Begins(c, Text(v))
  PROVE  /\ String(Holding(c, g), name) = Holding(Rest(c, Len(Text(v))), Onto(Single(name, v), g))
         /\ c # << >> /\ Head(c) = Len(v)
  <1>1. v \in Seq(Nat) /\ Len(v) \in Nat /\ 0 \notin ToSet(v)
    BY CStringIs
  <1>2. /\ Len(Text(v)) = Len(v) + 1 /\ Text(v)[1] = Len(v)
        /\ \A k \in 1 .. Len(v) : Text(v)[k + 1] = v[k]
    BY TextIs
  <1>3. Len(v) + 1 <= Len(c) /\ c[1] = Len(v) /\ \A k \in 1 .. Len(v) : c[k + 1] = v[k]
    <2>1. Len(Text(v)) <= Len(c) /\ \A k \in 1 .. Len(Text(v)) : c[k] = Text(v)[k]
      BY DEF Begins
    <2>2. 1 \in 1 .. Len(Text(v)) /\ \A k \in 1 .. Len(v) : k + 1 \in 1 .. Len(Text(v))
      BY <1>1, <1>2
    <2> QED BY <1>2, <2>1, <2>2
  <1>4. c # << >> /\ Head(c) = Len(v)
    BY <1>1, <1>3
  <1>5. SubSeq(c, 2, Len(v) + 1) = v
    <2> DEFINE s == SubSeq(c, 2, Len(v) + 1)
    <2>1. s \in Seq(Nat) /\ Len(s) = Len(v) /\ \A k \in 1 .. Len(v) : s[k] = c[k + 1]
      BY <1>1, <1>3
    <2> HIDE DEF s
    <2>2. \A k \in 1 .. Len(s) : s[k] = v[k]
      BY <1>3, <2>1
    <2>3. s = v
      BY <1>1, <2>1, <2>2, SeqEqual
    <2> QED BY <2>3 DEF s
  <1>6. ~(Head(c) > Len(c) - 1)
    BY <1>1, <1>3, <1>4
  <1> DEFINE r == Holding(c, g)
  <1>7. r.rest = c /\ r.got = g
    BY DEF Holding
  <1> HIDE DEF r
  <1>8. String(r, name) = Take(r, name, v, Len(v) + 1)
    BY <1>1, <1>4, <1>5, <1>6, <1>7 DEF String
  <1>9. Take(r, name, v, Len(v) + 1) = Holding(Rest(c, Len(Text(v))), Onto(Single(name, v), g))
    BY <1>2, <1>7 DEF Take, Holding, Rest
  <1> QED BY <1>4, <1>8, <1>9 DEF r

(* A word reads as it was written. *)
LEMMA WordReads ==
  ASSUME NEW c \in Seq(Nat), NEW g, NEW name, NEW v \in Nat, Begins(c, <<v>>)
  PROVE  /\ Word(Holding(c, g), name) = Holding(Rest(c, 1), Onto(Single(name, v), g))
         /\ c # << >> /\ Head(c) = v /\ 1 <= Len(c)
  <1>1. 1 <= Len(c) /\ c[1] = v
    BY DEF Begins
  <1>2. c # << >> /\ Head(c) = v
    BY <1>1
  <1> QED BY <1>1, <1>2 DEF Word, Holding, Take, Rest

(* A string or None reads as it was written. *)
LEMMA NullableReads ==
  ASSUME NEW c \in Seq(Nat), NEW g, NEW name, NEW v \in Nullables, Begins(c, Nullable(v))
  PROVE  NullableString(Holding(c, g), name) = Holding(Rest(c, Len(Nullable(v))), Onto(Single(name, v), g))
  <1> DEFINE r == Holding(c, g)
  <1>0. r.rest = c /\ r.got = g
    BY DEF Holding
  <1>1. CASE v = None
    <2>1. Nullable(v) = <<NullWord>> /\ Len(<<NullWord>>) = 1
      BY <1>1 DEF Nullable
    <2>2. 1 <= Len(c) /\ c[1] = NullWord
      BY <2>1 DEF Begins
    <2>3. c # << >> /\ Head(c) = NullWord
      BY <2>2
    <2>4. NullableString(r, name) = Take(r, name, None, 1)
      <3> HIDE DEF r
      <3> QED BY <1>0, <2>3 DEF NullableString
    <2> QED BY <1>0, <1>1, <2>1, <2>4 DEF Take, Rest, Holding
  <1>2. CASE v # None
    <2>1. v \in CStrings /\ Nullable(v) = Text(v)
      BY <1>2 DEF Nullables, Nullable
    <2>2. /\ String(r, name) = Holding(Rest(c, Len(Text(v))), Onto(Single(name, v), g))
          /\ c # << >> /\ Head(c) = Len(v)
      BY <2>1, StringReads
    <2>3. Head(c) # NullWord
      <3>1. Len(v) \in Nat /\ Len(v) < NullWord /\ NullWord \in Nat
        BY <2>1, CStringIs, RequestsAssumption
      <3> QED BY <2>2, <3>1
    <2>4. NullableString(r, name) = String(r, name)
      <3> HIDE DEF r
      <3> QED BY <1>0, <2>3 DEF NullableString
    <2> QED BY <2>1, <2>2, <2>4
  <1> QED BY <1>1, <1>2

(* What a reading holds. *)
LEMMA HoldingIs ==
  ASSUME NEW c, NEW g
  PROVE  Holding(c, g).ok /\ Holding(c, g).rest = c /\ Holding(c, g).got = g
  BY DEF Holding

(* Parts of at least one cell each make at least as many cells.            *)
LEMMA LongEnough ==
  ASSUME NEW seqs, NEW n, seqs \in Seq(Seq(Nat)), n = Len(seqs), \A i \in 1 .. n : Len(seqs[i]) >= 1
  PROVE  n <= Len(FlattenSeq(seqs)) /\ FlattenSeq(seqs) \in Seq(Nat)
  <1> DEFINE full == FlattenSeq(seqs)
  <1>1. n \in Nat /\ DOMAIN seqs = 1 .. n /\ \A i \in 1 .. n : seqs[i] \in Seq(Nat)
    OBVIOUS
  <1>2. PICK p : Places(p, seqs, n, full)
    BY PlacesOfParts
  <1>3. /\ p \in [0 .. n -> Nat] /\ p[0] = 0 /\ p[n] = Len(full) /\ full \in Seq(Nat)
        /\ \A i \in 1 .. n : p[i] = p[i - 1] + Len(seqs[i])
    BY <1>2 DEF Places
  <1> HIDE DEF full
  <1> DEFINE Good == {i \in 0 .. n : i <= p[i]}
  <1>4. 0 \in Good
    BY <1>1, <1>3
  <1>5. ASSUME NEW i \in 1 .. n, i - 1 \in Good PROVE i \in Good
    <2>1. i - 1 <= p[i - 1] /\ i - 1 \in 0 .. n /\ i \in 0 .. n
      BY <1>5
    <2>2. p[i - 1] \in Nat
      BY <1>3, <2>1
    <2>3. seqs[i] \in Seq(Nat) /\ Len(seqs[i]) >= 1
      BY <1>1
    <2>4. Len(seqs[i]) \in Nat
      BY <2>3
    <2>5. p[i] = p[i - 1] + Len(seqs[i])
      BY <1>3
    <2>6. i <= p[i]
      BY <2>1, <2>2, <2>3, <2>4, <2>5
    <2> QED BY <2>1, <2>6
  <1> HIDE DEF Good
  <1>6. \A i \in 0 .. n : i \in Good
    BY <1>1, <1>4, <1>5, Induction
  <1>7. n \in Good
    BY <1>1, <1>6
  <1> QED BY <1>3, <1>7 DEF Good, full

(* The strings of a list.                                                  *)
TextsOf(v) == [i \in DOMAIN v |-> Text(v[i])]
(* The texts of a list are its strings, one behind the other. *)
LEMMA TextsAre ==
  ASSUME NEW v \in Seq(CStrings)
  PROVE  /\ TextsOf(v) \in Seq(Seq(Nat)) /\ Len(TextsOf(v)) = Len(v)
         /\ Each(Text, v) = FlattenSeq(TextsOf(v)) /\ Each(Text, v) \in Seq(Nat) /\ Len(v) <= Len(Each(Text, v))
         /\ \A i \in 1 .. Len(v) : TextsOf(v)[i] = Text(v[i]) /\ v[i] \in CStrings
  <1> DEFINE parts == TextsOf(v)  n == Len(v)
  <1>1. n \in Nat /\ DOMAIN v = 1 .. n /\ \A i \in 1 .. n : v[i] \in CStrings
    OBVIOUS
  <1>2. \A i \in 1 .. n : Text(v[i]) \in Seq(Nat) /\ Len(Text(v[i])) >= 1
    <2> TAKE i \in 1 .. n
    <2>1. v[i] \in CStrings
      BY <1>1
    <2>2. Len(v[i]) \in Nat
      BY <2>1, CStringIs
    <2> QED BY <2>1, <2>2, TextIs
  <1>3. parts = [i \in 1 .. n |-> parts[i]] /\ \A i \in 1 .. n : parts[i] = Text(v[i])
    BY <1>1 DEF TextsOf
  <1>4. Each(Text, v) = FlattenSeq(parts)
    BY DEF Each, TextsOf
  <1> HIDE DEF parts, n
  <1>5. parts \in Seq(Seq(Nat))
    <2>1. \A i \in 1 .. n : parts[i] \in Seq(Nat)
      BY <1>2, <1>3
    <2>2. [i \in 1 .. n |-> parts[i]] \in Seq(Seq(Nat))
      BY <1>1, <2>1, IsASeq
    <2> QED BY <1>3, <2>2
  <1>6. Len(parts) = n
    BY <1>1, <1>3, LenProperties, <1>5
  <1>7. \A i \in 1 .. n : Len(parts[i]) >= 1
    BY <1>2, <1>3
  <1>8. n <= Len(FlattenSeq(parts)) /\ FlattenSeq(parts) \in Seq(Nat)
    BY <1>5, <1>6, <1>7, LongEnough
  <1> QED BY <1>1, <1>3, <1>4, <1>5, <1>6, <1>8 DEF parts, n

(* The strings of a list read as they were written. *)
LEMMA StringsRead ==
  ASSUME NEW c \in Seq(Nat), NEW g, NEW name, NEW v \in Seq(CStrings), Begins(c, Each(Text, v))
  PROVE  Strings(Holding(c, g), name, Len(v)) = Holding(Rest(c, Len(Each(Text, v))), Onto(Single(name, v), g))
  <1> DEFINE parts == TextsOf(v)  n == Len(v)  full == Each(Text, v)
  <1>1. /\ parts \in Seq(Seq(Nat)) /\ Len(parts) = n
        /\ full = FlattenSeq(parts) /\ full \in Seq(Nat) /\ n <= Len(full)
        /\ \A i \in 1 .. n : parts[i] = Text(v[i]) /\ v[i] \in CStrings
    BY TextsAre
  <1>2. n \in Nat /\ v = [i \in 1 .. n |-> v[i]]
    OBVIOUS
  <1> HIDE DEF parts, n, full
  <1>3. Begins(c, FlattenSeq(parts)) /\ Len(full) <= Len(c)
    BY <1>1 DEF Begins, full
  <1>4. PICK R : Leaves(R, c, parts, n)
    BY <1>1, <1>3, LeftOver
  <1>5. /\ R[0] = c /\ R[n] = Rest(c, Len(full))
        /\ \A i \in 0 .. n : R[i] \in Seq(Nat)
        /\ \A i \in 1 .. n : Begins(R[i - 1], parts[i]) /\ R[i] = Rest(R[i - 1], Len(parts[i]))
    BY <1>1, <1>4 DEF Leaves
  <1> DEFINE s == [i \in 1 .. n |-> i]  r == Holding(c, g)  base == Reading(r.rest)
  <1>6. base = Holding(c, << >>) /\ r.ok /\ r.rest = c /\ r.got = g
    BY HoldingIs DEF Reading
  <1> HIDE DEF base, r
  <1>6a. DOMAIN s = 1 .. n /\ \A i \in 1 .. n : s[i] = i
    OBVIOUS
  <1> HIDE DEF s
  <1>6b. PICK F : StringRun(F, base, s, n)
    BY <1>2, <1>6a, StringTrace
  <1>7. /\ F[0] = base /\ F[n] = FoldLeft(String, base, s)
        /\ \A i \in 1 .. n : F[i] = String(F[i - 1], s[i])
    BY <1>6b DEF StringRun
  <1> DEFINE G(i) == [j \in 1 .. i |-> v[j]]
             Good == {i \in 0 .. n : F[i] = Holding(R[i], G(i))}
  <1>8. 0 \in Good
    <2>1. G(0) = << >>
      OBVIOUS
    <2> QED BY <1>2, <1>5, <1>6, <1>7, <2>1
  <1>9. ASSUME NEW i \in 1 .. n, i - 1 \in Good PROVE i \in Good
    <2>1. i - 1 \in 0 .. n /\ i \in 0 .. n /\ s[i] = i
      BY <1>2, <1>6a
    <2>2. F[i - 1] = Holding(R[i - 1], G(i - 1)) /\ F[i] = String(F[i - 1], i)
      BY <1>7, <1>9, <2>1
    <2>3. R[i - 1] \in Seq(Nat) /\ Begins(R[i - 1], Text(v[i])) /\ R[i] = Rest(R[i - 1], Len(Text(v[i]))) /\ v[i] \in CStrings
      BY <1>1, <1>5, <2>1
    <2>4. F[i] = Holding(R[i], Onto(Single(i, v[i]), G(i - 1)))
      <3> HIDE DEF G
      <3> QED BY <2>2, <2>3, StringReads
    <2>5. Onto(Single(i, v[i]), G(i - 1)) = G(i)
      <3>1. {i} \cup 1 .. i - 1 = 1 .. i
        BY <1>2
      <3> QED BY <3>1 DEF Onto, Single
    <2> QED BY <2>1, <2>4, <2>5
  <1>10. F[n] = Holding(R[n], G(n))
    <2> HIDE DEF Good
    <2>1. \A i \in 0 .. n : i \in Good
      BY <1>2, <1>8, <1>9, Induction
    <2>2. n \in Good
      BY <1>2, <2>1
    <2> QED BY <2>2 DEF Good
  <1>11. G(n) = v
    BY <1>2
  <1> DEFINE all == FoldLeft(String, base, s)
  <1>12. all = Holding(R[n], v)
    BY <1>7, <1>10, <1>11
  <1> HIDE DEF all
  <1>13. all.ok /\ all.got = v /\ all.rest = R[n] /\ [i \in 1 .. n |-> all.got[i]] = v
    <2>1. all.ok /\ all.got = v /\ all.rest = R[n]
      BY <1>12, HoldingIs
    <2> QED BY <1>2, <2>1
  <1>14. ~(n > Len(c))
    BY <1>1, <1>2, <1>3
  <1>15. Strings(r, name, n) = Holding(all.rest, Onto(Single(name, [i \in 1 .. n |-> all.got[i]]), r.got))
    <2>1. Strings(r, name, n) = IF ~r.ok \/ n > Len(r.rest) THEN Refused
             ELSE IF all.ok THEN Holding(all.rest, Onto(Single(name, [i \in 1 .. n |-> all.got[i]]), r.got)) ELSE Refused
      BY DEF Strings, base, s, all
    <2> QED BY <1>6, <1>13, <1>14, <2>1
  <1>16. Strings(r, name, n) = Holding(R[n], Onto(Single(name, v), g))
    BY <1>6, <1>13, <1>15
  <1> QED BY <1>5, <1>16 DEF r, n, full

(* A list reads as it was written: its length, then its strings. *)
LEMMA ListReads ==
  ASSUME NEW c \in Seq(Nat), NEW g, NEW name, NEW v \in Seq(CStrings), Begins(c, List(v))
  PROVE  /\ Strings(Holding(Tail(c), g), name, Head(c))
              = Holding(Rest(c, Len(List(v))), Onto(Single(name, v), g))
         /\ c # << >>
  <1> DEFINE n == Len(v)  full == Each(Text, v)
  <1>1. full \in Seq(Nat) /\ n \in Nat
    <2>1. Each(Text, v) \in Seq(Nat)
      BY TextsAre
    <2> QED BY <2>1
  <1>2. List(v) = <<n>> \o full
    BY DEF List
  <1> HIDE DEF n, full
  <1>3. /\ Len(List(v)) = Len(full) + 1 /\ List(v)[1] = n
        /\ \A k \in 1 .. Len(full) : List(v)[k + 1] = full[k]
    BY <1>1, <1>2
  <1>4. Len(full) + 1 <= Len(c) /\ c[1] = n /\ \A k \in 1 .. Len(full) : c[k + 1] = full[k]
    <2>1. Len(List(v)) <= Len(c) /\ \A k \in 1 .. Len(List(v)) : c[k] = List(v)[k]
      BY DEF Begins
    <2>2. Len(full) \in Nat
      BY <1>1
    <2>3. 1 \in 1 .. Len(List(v)) /\ \A k \in 1 .. Len(full) : k + 1 \in 1 .. Len(List(v))
      BY <1>3, <2>2
    <2> QED BY <1>3, <2>1, <2>3
  <1>5. c # << >> /\ Head(c) = n /\ Tail(c) = Rest(c, 1) /\ Len(full) \in Nat
    BY <1>1, <1>4 DEF Rest
  <1>6. Begins(Rest(c, 1), full) /\ Rest(c, 1) \in Seq(Nat)
    <2>1. 1 \in 0 .. Len(c)
      BY <1>4, <1>5
    <2>2. /\ Rest(c, 1) \in Seq(Nat) /\ Len(Rest(c, 1)) = Len(c) - 1
          /\ \A k \in 1 .. Len(c) - 1 : Rest(c, 1)[k] = c[1 + k]
      BY <2>1, RestIs
    <2> QED BY <1>4, <1>5, <2>2 DEF Begins
  <1>7. Strings(Holding(Rest(c, 1), g), name, n) = Holding(Rest(Rest(c, 1), Len(full)), Onto(Single(name, v), g))
    BY <1>6, StringsRead DEF n, full
  <1>8. Rest(Rest(c, 1), Len(full)) = Rest(c, 1 + Len(full))
    BY <1>4, <1>5, RestOfRest
  <1>10. 1 + Len(full) = Len(List(v))
    BY <1>3, <1>5
  <1> QED BY <1>5, <1>7, <1>8, <1>10

(* A field of any kind reads as it was put.                                *)
LEMMA PutIs ==
  ASSUME NEW kind \in FieldKinds, NEW v, Fits(kind, v)
  PROVE  Put(kind, v) \in Seq(Nat) /\ Len(Put(kind, v)) >= 1
  <1>1. CASE kind = "word"
    <2>1. v \in Nat /\ Put(kind, v) = <<v>>
      BY <1>1 DEF Fits, Put
    <2>2. <<v>> \in Seq(Nat) /\ Len(<<v>>) = 1
      BY <2>1
    <2> QED BY <2>1, <2>2
  <1>2. ASSUME v \in CStrings PROVE Text(v) \in Seq(Nat) /\ Len(Text(v)) >= 1
    <2>1. Len(v) \in Nat
      BY <1>2, CStringIs
    <2> QED BY <1>2, <2>1, TextIs
  <1>3. CASE kind \in {"string", "nonempty"}
    <2>1. v \in CStrings /\ Put(kind, v) = Text(v)
      BY <1>3 DEF Fits, Put
    <2> QED BY <1>2, <2>1
  <1>4. CASE kind = "nullable"
    <2>1. v \in Nullables /\ Put(kind, v) = Nullable(v)
      BY <1>4 DEF Fits, Put
    <2>2. CASE v = None
      <3>1. NullWord \in Nat
        BY RequestsAssumption
      <3>2. <<NullWord>> \in Seq(Nat) /\ Len(<<NullWord>>) = 1
        BY <3>1
      <3> QED BY <2>1, <2>2, <3>2 DEF Nullable
    <2>3. CASE v # None
      <3>1. v \in CStrings /\ Put(kind, v) = Text(v)
        BY <2>1, <2>3 DEF Nullables, Nullable
      <3> QED BY <1>2, <3>1
    <2> QED BY <2>2, <2>3
  <1>5. CASE kind = "list"
    <2>1. v \in Seq(CStrings) /\ Put(kind, v) = List(v)
      BY <1>5 DEF Fits, Put
    <2>2. Each(Text, v) \in Seq(Nat) /\ List(v) = <<Len(v)>> \o Each(Text, v)
      BY <2>1, TextsAre DEF List
    <2>3. ASSUME NEW a \in Seq(Nat), NEW m \in Nat PROVE <<m>> \o a \in Seq(Nat) /\ Len(<<m>> \o a) >= 1
      OBVIOUS
    <2>4. Len(v) \in Nat
      BY <2>1
    <2> QED BY <2>1, <2>2, <2>3, <2>4
  <1> QED BY <1>1, <1>3, <1>4, <1>5 DEF FieldKinds

(* A field of any kind reads as it was written. *)
LEMMA FieldReads ==
  ASSUME NEW c \in Seq(Nat), NEW g, NEW kind \in FieldKinds, NEW name, NEW v, Fits(kind, v),
         Begins(c, Put(kind, v))
  PROVE  Field(Holding(c, g), <<kind, name>>) = Holding(Rest(c, Len(Put(kind, v))), Onto(Single(name, v), g))
  <1> DEFINE r == Holding(c, g)  f == <<kind, name>>
  <1>0. r.ok /\ r.rest = c /\ r.got = g /\ f[1] = kind /\ f[2] = name
    BY HoldingIs
  <1> HIDE DEF r, f
  <1>1. CASE kind = "word"
    <2>1. v \in Nat /\ Put(kind, v) = <<v>> /\ Len(<<v>>) = 1
      BY <1>1 DEF Fits, Put
    <2>2. Word(r, name) = Holding(Rest(c, 1), Onto(Single(name, v), g))
      BY <2>1, WordReads DEF r
    <2>3. Field(r, f) = Word(r, name)
      BY <1>0, <1>1 DEF Field
    <2> QED BY <2>1, <2>2, <2>3 DEF r, f
  <1>2. CASE kind = "string"
    <2>1. v \in CStrings /\ Put(kind, v) = Text(v)
      BY <1>2 DEF Fits, Put
    <2>2. String(r, name) = Holding(Rest(c, Len(Text(v))), Onto(Single(name, v), g))
      BY <2>1, StringReads DEF r
    <2>3. Field(r, f) = String(r, name)
      BY <1>0, <1>2 DEF Field
    <2> QED BY <2>1, <2>2, <2>3 DEF r, f
  <1>3. CASE kind = "nonempty"
    <2>1. v \in CStrings /\ v # << >> /\ Put(kind, v) = Text(v)
      BY <1>3 DEF Fits, Put
    <2>2. String(r, name) = Holding(Rest(c, Len(Text(v))), Onto(Single(name, v), g)) /\ c # << >> /\ Head(c) = Len(v)
      BY <2>1, StringReads DEF r
    <2>3. Len(v) # 0
      <3>1. v \in Seq(Nat)
        BY <2>1, CStringIs
      <3> QED BY <2>1, <3>1, EmptySeq
    <2>4. Field(r, f) = String(r, name)
      BY <1>0, <1>3, <2>2, <2>3 DEF Field
    <2> QED BY <2>1, <2>2, <2>4 DEF r, f
  <1>4. CASE kind = "nullable"
    <2>1. v \in Nullables /\ Put(kind, v) = Nullable(v)
      BY <1>4 DEF Fits, Put
    <2>2. NullableString(r, name) = Holding(Rest(c, Len(Nullable(v))), Onto(Single(name, v), g))
      BY <2>1, NullableReads DEF r
    <2>3. Field(r, f) = NullableString(r, name)
      BY <1>0, <1>4 DEF Field
    <2> QED BY <2>1, <2>2, <2>3 DEF r, f
  <1>5. CASE kind = "list"
    <2>1. v \in Seq(CStrings) /\ Put(kind, v) = List(v)
      BY <1>5 DEF Fits, Put
    <2>2. /\ Strings(Holding(Tail(c), g), name, Head(c)) = Holding(Rest(c, Len(List(v))), Onto(Single(name, v), g))
          /\ c # << >>
      BY <2>1, ListReads
    <2>3. Field(r, f) = Strings(Holding(Tail(c), g), name, Head(c))
      BY <1>0, <1>5, <2>2 DEF Field
    <2> QED BY <2>1, <2>2, <2>3 DEF r, f
  <1> QED BY <1>1, <1>2, <1>3, <1>4, <1>5 DEF FieldKinds

(* A value that is a function. *)
IsFunction(g) == g = [x \in DOMAIN g |-> g[x]]

(* Values of a set, one for each of the first n numbers, are a sequence of that set. *)
LEMMA MakesSeq ==
  ASSUME NEW S, NEW n \in Nat, NEW f, f = [i \in 1 .. n |-> f[i]], \A i \in 1 .. n : f[i] \in S
  PROVE  f \in Seq(S) /\ Len(f) = n
  <1>1. [i \in 1 .. n |-> f[i]] \in Seq(S)
    BY IsASeq
  <1> QED BY <1>1

(* The parts are what a layout's fields are written as.                    *)
NamesOf(layout, n) == {layout[j][2] : j \in 1 .. n}
Lays(layout, u, parts) ==
  /\ Len(layout) \in Nat /\ layout = [i \in 1 .. Len(layout) |-> layout[i]]
  /\ parts \in Seq(Seq(Nat)) /\ Len(parts) = Len(layout)
  /\ \A i \in 1 .. Len(layout) :
       /\ layout[i] = <<layout[i][1], layout[i][2]>> /\ layout[i][1] \in FieldKinds
       /\ Fits(layout[i][1], u[layout[i][2]])
       /\ parts[i] = Put(layout[i][1], u[layout[i][2]])

(* Cells that begin as a layout lays them out read as that layout's fields. *)
LEMMA FieldsRead ==
  ASSUME NEW c \in Seq(Nat), NEW g, NEW layout, NEW u, NEW parts, NEW n, Lays(layout, u, parts), n = Len(layout),
         Begins(c, FlattenSeq(parts)), IsFunction(g)
  PROVE  Read(Holding(c, g), layout)
           = Holding(Rest(c, Len(FlattenSeq(parts))), Onto(Restrict(u, NamesOf(layout, n)), g))
  <1>1. /\ n \in Nat /\ DOMAIN layout = 1 .. n /\ parts \in Seq(Seq(Nat)) /\ Len(parts) = n
        /\ \A i \in 1 .. n :
             /\ layout[i] = <<layout[i][1], layout[i][2]>> /\ layout[i][1] \in FieldKinds
             /\ Fits(layout[i][1], u[layout[i][2]]) /\ parts[i] = Put(layout[i][1], u[layout[i][2]])
    BY DEF Lays
  <1> DEFINE base == Holding(c, g)  full == FlattenSeq(parts)
  <1>2. PICK R : Leaves(R, c, parts, n)
    BY <1>1, LeftOver
  <1>3. /\ R[0] = c /\ R[n] = Rest(c, Len(full))
        /\ \A i \in 0 .. n : R[i] \in Seq(Nat)
        /\ \A i \in 1 .. n : Begins(R[i - 1], parts[i]) /\ R[i] = Rest(R[i - 1], Len(parts[i]))
    BY <1>2 DEF Leaves
  <1>4. PICK F : FieldRun(F, base, layout, n)
    BY <1>1, FieldTrace
  <1>5. F[0] = base /\ F[n] = Read(base, layout) /\ \A i \in 1 .. n : F[i] = Field(F[i - 1], layout[i])
    BY <1>4 DEF FieldRun, Read
  <1> HIDE DEF full
  <1> DEFINE N(i) == NamesOf(layout, i)
             G(i) == Onto(Restrict(u, N(i)), g)
             Good == {i \in 0 .. n : F[i] = Holding(R[i], G(i))}
  <1>6. 0 \in Good
    <2>1. N(0) = {}
      BY DEF NamesOf
    <2>2. G(0) = g
      <3>1. G(0) = [x \in DOMAIN g |-> g[x]]
        BY <2>1 DEF Onto, Restrict
      <3> QED BY <3>1, <1>1 DEF IsFunction
    <2>3. 0 \in 0 .. n
      BY <1>1
    <2>4. F[0] = Holding(R[0], g)
      BY <1>3, <1>5
    <2> HIDE DEF G, base
    <2> QED BY <2>2, <2>3, <2>4
  <1>7. ASSUME NEW i \in 1 .. n, i - 1 \in Good PROVE i \in Good
    <2>1. i - 1 \in 0 .. n /\ i \in 0 .. n
      BY <1>1
    <2>2. F[i - 1] = Holding(R[i - 1], G(i - 1)) /\ F[i] = Field(F[i - 1], layout[i])
      BY <1>5, <1>7
    <2> DEFINE kind == layout[i][1]  name == layout[i][2]
    <2>3. layout[i] = <<kind, name>> /\ kind \in FieldKinds /\ Fits(kind, u[name]) /\ parts[i] = Put(kind, u[name])
      BY <1>1
    <2>4. R[i - 1] \in Seq(Nat) /\ Begins(R[i - 1], parts[i]) /\ R[i] = Rest(R[i - 1], Len(parts[i]))
      BY <1>3, <2>1
    <2>5. N(i) = {name} \cup N(i - 1)
      <3>1. 1 .. i = {i} \cup 1 .. i - 1
        BY <1>1
      <3> QED BY <3>1 DEF NamesOf
    <2> HIDE DEF kind, name, N
    <2>6. Onto(Single(name, u[name]), G(i - 1)) = G(i)
      <3> DEFINE h == Restrict(u, N(i - 1))  k == Restrict(u, N(i))
      <3>1. DOMAIN h = N(i - 1) /\ DOMAIN k = N(i) /\ (\A x \in N(i - 1) : h[x] = u[x]) /\ \A x \in N(i) : k[x] = u[x]
        BY DEF Restrict
      <3>2. DOMAIN Single(name, u[name]) = {name} /\ Single(name, u[name])[name] = u[name]
        BY DEF Single
      <3> HIDE DEF h, k
      <3>3. Onto(Single(name, u[name]), Onto(h, g)) = Onto(k, g)
        BY <2>5, <3>1, <3>2 DEF Onto
      <3> QED BY <3>3 DEF h, k
    <2> HIDE DEF G
    <2>7. F[i] = Holding(R[i], G(i))
      BY <2>2, <2>3, <2>4, <2>6, FieldReads
    <2> QED BY <2>1, <2>7
  <1>8. F[n] = Holding(R[n], G(n))
    <2> HIDE DEF Good
    <2>1. \A i \in 0 .. n : i \in Good
      BY <1>1, <1>6, <1>7, Induction
    <2>2. n \in Good
      BY <1>1, <2>1
    <2> QED BY <2>2 DEF Good
  <1> QED BY <1>3, <1>5, <1>8 DEF full

(* Two layouts, one behind the other.                                      *)
LEMMA LaysBehind ==
  ASSUME NEW l, NEW m, NEW u, NEW p, NEW q, Lays(l, u, p), Lays(m, u, q)
  PROVE  /\ Lays(l \o m, u, p \o q)
         /\ NamesOf(l \o m, Len(l \o m)) = NamesOf(l, Len(l)) \cup NamesOf(m, Len(m))
  <1> DEFINE S == {l[i] : i \in 1 .. Len(l)} \cup {m[i] : i \in 1 .. Len(m)}
  <1>a. /\ Len(l) \in Nat /\ l = [i \in 1 .. Len(l) |-> l[i]]
        /\ Len(m) \in Nat /\ m = [i \in 1 .. Len(m) |-> m[i]]
        /\ p \in Seq(Seq(Nat)) /\ q \in Seq(Seq(Nat)) /\ Len(p) = Len(l) /\ Len(q) = Len(m)
    BY DEF Lays
  <1>b. (\A i \in 1 .. Len(l) : l[i] \in S) /\ \A i \in 1 .. Len(m) : m[i] \in S
    OBVIOUS
  <1> HIDE DEF S
  <1>1. l \in Seq(S) /\ m \in Seq(S)
        /\ p \in Seq(Seq(Nat)) /\ q \in Seq(Seq(Nat)) /\ Len(p) = Len(l) /\ Len(q) = Len(m)
    BY <1>a, <1>b, MakesSeq
  <1> DEFINE s == l \o m  r == p \o q
  <1>0. ASSUME NEW T, NEW a \in Seq(T), NEW b \in Seq(T)
        PROVE  /\ a \o b \in Seq(T) /\ Len(a \o b) = Len(a) + Len(b)
               /\ \A i \in 1 .. Len(a \o b) : (a \o b)[i] = IF i <= Len(a) THEN a[i] ELSE b[i - Len(a)]
    BY ConcatProperties
  <1>2. /\ s \in Seq(S) /\ Len(s) = Len(l) + Len(m)
        /\ \A i \in 1 .. Len(s) : s[i] = IF i <= Len(l) THEN l[i] ELSE m[i - Len(l)]
    BY <1>1, <1>0, Zenon
  <1>3. /\ r \in Seq(Seq(Nat)) /\ Len(r) = Len(p) + Len(q)
        /\ \A i \in 1 .. Len(r) : r[i] = IF i <= Len(p) THEN p[i] ELSE q[i - Len(p)]
    BY <1>1, <1>0, Zenon
  <1>4. Len(l) \in Nat /\ Len(m) \in Nat
    BY <1>1
  <1> HIDE DEF s, r
  <1>5. ASSUME NEW i \in 1 .. Len(s)
        PROVE  /\ s[i] = <<s[i][1], s[i][2]>> /\ s[i][1] \in FieldKinds
               /\ Fits(s[i][1], u[s[i][2]]) /\ r[i] = Put(s[i][1], u[s[i][2]])
    <2>1. CASE i <= Len(l)
      <3>1. i \in 1 .. Len(l) /\ s[i] = l[i] /\ r[i] = p[i]
        BY <1>1, <1>2, <1>3, <1>4, <2>1
      <3> QED BY <3>1 DEF Lays
    <2>2. CASE ~(i <= Len(l))
      <3>1. i - Len(l) \in 1 .. Len(m)
        BY <1>2, <1>4, <2>2
      <3>2. s[i] = m[i - Len(l)]
        BY <1>2, <2>2
      <3>3. r[i] = q[i - Len(l)]
        <4>1. i \in 1 .. Len(r) /\ ~(i <= Len(p))
          BY <1>1, <1>2, <1>3, <2>2
        <4> QED BY <1>1, <1>3, <4>1
      <3> QED BY <3>1, <3>2, <3>3 DEF Lays
    <2> QED BY <2>1, <2>2
  <1>6. Lays(s, u, r)
    <2>1. Len(s) \in Nat /\ s = [i \in 1 .. Len(s) |-> s[i]]
      BY <1>2
    <2> QED BY <1>1, <1>2, <1>3, <1>5, <2>1 DEF Lays
  <1>7. \A x \in NamesOf(s, Len(s)) : x \in NamesOf(l, Len(l)) \cup NamesOf(m, Len(m))
    <2> TAKE x \in NamesOf(s, Len(s))
    <2>1. PICK i \in 1 .. Len(s) : x = s[i][2]
      BY DEF NamesOf
    <2>2. CASE i <= Len(l)
      <3>1. i \in 1 .. Len(l) /\ s[i] = l[i]
        BY <1>2, <1>4, <2>2
      <3> QED BY <2>1, <3>1 DEF NamesOf
    <2>3. CASE ~(i <= Len(l))
      <3>1. i - Len(l) \in 1 .. Len(m) /\ s[i] = m[i - Len(l)]
        BY <1>2, <1>4, <2>3
      <3> QED BY <2>1, <3>1 DEF NamesOf
    <2> QED BY <2>2, <2>3
  <1>8. \A x \in NamesOf(l, Len(l)) : x \in NamesOf(s, Len(s))
    <2> TAKE x \in NamesOf(l, Len(l))
    <2>1. PICK i \in 1 .. Len(l) : x = l[i][2]
      BY DEF NamesOf
    <2>2. i \in 1 .. Len(s) /\ s[i] = l[i]
      BY <1>2, <1>4
    <2> QED BY <2>1, <2>2 DEF NamesOf
  <1>9. \A x \in NamesOf(m, Len(m)) : x \in NamesOf(s, Len(s))
    <2> TAKE x \in NamesOf(m, Len(m))
    <2>1. PICK i \in 1 .. Len(m) : x = m[i][2]
      BY DEF NamesOf
    <2>2. i + Len(l) \in 1 .. Len(s) /\ s[i + Len(l)] = m[i]
      <3>1. i + Len(l) \in 1 .. Len(s) /\ ~(i + Len(l) <= Len(l)) /\ (i + Len(l)) - Len(l) = i
        BY <1>2, <1>4
      <3> QED BY <1>2, <3>1
    <2> QED BY <2>1, <2>2 DEF NamesOf
  <1>10. NamesOf(s, Len(s)) = NamesOf(l, Len(l)) \cup NamesOf(m, Len(m))
    BY <1>7, <1>8, <1>9
  <1> QED BY <1>6, <1>10 DEF s, r

(* What is written in front is read first.                                 *)
LEMMA Halves ==
  ASSUME NEW a \in Seq(Nat), NEW b \in Seq(Nat)
  PROVE  Begins(a \o b, a) /\ Rest(a \o b, Len(a)) = b /\ a \o b \in Seq(Nat)
  <1> DEFINE c == a \o b
  <1>1. /\ c \in Seq(Nat) /\ Len(c) = Len(a) + Len(b)
        /\ \A i \in 1 .. Len(c) : c[i] = IF i <= Len(a) THEN a[i] ELSE b[i - Len(a)]
    BY ConcatProperties
  <1>2. Len(a) \in Nat /\ Len(b) \in Nat
    OBVIOUS
  <1> HIDE DEF c
  <1>3. Begins(c, a)
    BY <1>1, <1>2 DEF Begins
  <1> DEFINE r == Rest(c, Len(a))
  <1>4. r \in Seq(Nat) /\ Len(r) = Len(c) - Len(a) /\ \A k \in 1 .. Len(c) - Len(a) : r[k] = c[Len(a) + k]
    <2>1. Len(a) \in 0 .. Len(c)
      BY <1>1, <1>2
    <2> QED BY <1>1, <2>1, RestIs
  <1> HIDE DEF r
  <1>5. Len(r) = Len(b) /\ \A k \in 1 .. Len(r) : r[k] = b[k]
    <2>1. Len(r) = Len(b)
      BY <1>1, <1>2, <1>4
    <2>2. ASSUME NEW k \in 1 .. Len(r) PROVE r[k] = b[k]
      <3>1. k \in 1 .. Len(c) - Len(a) /\ Len(a) + k \in 1 .. Len(c) /\ ~(Len(a) + k <= Len(a)) /\ (Len(a) + k) - Len(a) = k
        BY <1>1, <1>2, <2>1
      <3> QED BY <1>1, <1>4, <3>1
    <2> QED BY <2>1, <2>2
  <1>6. r = b
    BY <1>4, <1>5, SeqEqual
  <1> QED BY <1>1, <1>3, <1>6 DEF c, r

(* The parts of a layout are cells, at least one for each field. *)
LEMMA PartsMake ==
  ASSUME NEW layout, NEW u, NEW parts, Lays(layout, u, parts)
  PROVE  FlattenSeq(parts) \in Seq(Nat) /\ Len(layout) <= Len(FlattenSeq(parts))
  <1>1. /\ parts \in Seq(Seq(Nat)) /\ Len(parts) = Len(layout)
        /\ \A i \in 1 .. Len(layout) : layout[i][1] \in FieldKinds /\ Fits(layout[i][1], u[layout[i][2]]) /\ parts[i] = Put(layout[i][1], u[layout[i][2]])
    BY DEF Lays
  <1>2. \A i \in 1 .. Len(layout) : Len(parts[i]) >= 1
    BY <1>1, PutIs
  <1> QED BY <1>1, <1>2, LongEnough

(* A layout's parts read as its fields, whatever stands behind them. *)
LEMMA ReadBefore ==
  ASSUME NEW g, NEW layout, NEW u, NEW parts, NEW b \in Seq(Nat), Lays(layout, u, parts),
         IsFunction(g)
  PROVE  /\ Read(Holding(FlattenSeq(parts) \o b, g), layout)
              = Holding(b, Onto(Restrict(u, NamesOf(layout, Len(layout))), g))
         /\ FlattenSeq(parts) \o b \in Seq(Nat)
  <1> DEFINE full == FlattenSeq(parts)
  <1>1. full \in Seq(Nat)
    BY PartsMake
  <1>2. Begins(full \o b, full) /\ Rest(full \o b, Len(full)) = b /\ full \o b \in Seq(Nat)
    BY <1>1, Halves
  <1> DEFINE c == full \o b
  <1>3. c \in Seq(Nat) /\ Begins(c, FlattenSeq(parts)) /\ Rest(c, Len(FlattenSeq(parts))) = b
    BY <1>2
  <1> HIDE DEF c, full
  <1>4. Read(Holding(c, g), layout)
          = Holding(Rest(c, Len(FlattenSeq(parts))), Onto(Restrict(u, NamesOf(layout, Len(layout))), g))
    BY <1>3, FieldsRead
  <1>5. Read(Holding(c, g), layout) = Holding(b, Onto(Restrict(u, NamesOf(layout, Len(layout))), g))
    BY <1>3, <1>4
  <1> QED BY <1>3, <1>5 DEF c, full

(* A layout's parts read as its fields, with nothing left. *)
LEMMA ReadAlone ==
  ASSUME NEW g, NEW layout, NEW u, NEW parts, Lays(layout, u, parts), IsFunction(g)
  PROVE  Read(Holding(FlattenSeq(parts), g), layout)
           = Holding(<< >>, Onto(Restrict(u, NamesOf(layout, Len(layout))), g))
  <1>1. FlattenSeq(parts) \in Seq(Nat)
    BY PartsMake
  <1>2. FlattenSeq(parts) \o << >> = FlattenSeq(parts) /\ << >> \in Seq(Nat)
    BY <1>1, ConcatEmptySeq
  <1> QED BY <1>2, ReadBefore

(* A record laid onto nothing is itself. *)
LEMMA OntoNothing ==
  ASSUME NEW u, NEW N
  PROVE  Onto(Restrict(u, N), << >>) = Restrict(u, N) /\ IsFunction(<< >>) /\ IsFunction(Restrict(u, N))
  BY DEF Onto, Restrict, IsFunction

(* A payload of one layout reads as its fields, with nothing left. *)
LEMMA ReadWhole ==
  ASSUME NEW layout, NEW u, NEW parts, Lays(layout, u, parts)
  PROVE  Read(Reading(FlattenSeq(parts)), layout) = Holding(<< >>, Restrict(u, NamesOf(layout, Len(layout))))
  <1>1. IsFunction(<< >>)
    BY OntoNothing
  <1>2. Read(Holding(FlattenSeq(parts), << >>), layout)
          = Holding(<< >>, Onto(Restrict(u, NamesOf(layout, Len(layout))), << >>))
    BY <1>1, ReadAlone
  <1> QED BY <1>2, OntoNothing DEF Reading

(* A payload's first layout reads as its fields, with the rest left. *)
LEMMA ReadHead ==
  ASSUME NEW layout, NEW u, NEW parts, NEW b \in Seq(Nat), Lays(layout, u, parts)
  PROVE  Read(Reading(FlattenSeq(parts) \o b), layout) = Holding(b, Restrict(u, NamesOf(layout, Len(layout))))
  <1>1. IsFunction(<< >>)
    BY OntoNothing
  <1>2. Read(Holding(FlattenSeq(parts) \o b, << >>), layout)
          = Holding(b, Onto(Restrict(u, NamesOf(layout, Len(layout))), << >>))
    BY <1>1, ReadBefore
  <1> QED BY <1>2, OntoNothing DEF Reading

(* A value is what its fields are.                                         *)
LEMMA SameValue ==
  ASSUME NEW f, NEW g, IsFunction(f), IsFunction(g), DOMAIN f = DOMAIN g, \A x \in DOMAIN f : f[x] = g[x]
  PROVE  f = g
  BY DEF IsFunction

(* The values and the writing of each kind of field. *)
LEMMA Kinds5 ==
  /\ \A v : Fits("word", v) = (v \in Nat) /\ Put("word", v) = <<v>>
  /\ \A v : Fits("string", v) = (v \in CStrings) /\ Put("string", v) = Text(v)
  /\ \A v : Fits("nonempty", v) = (v \in CStrings /\ v # << >>) /\ Put("nonempty", v) = Text(v)
  /\ \A v : Fits("nullable", v) = (v \in Nullables) /\ Put("nullable", v) = Nullable(v)
  /\ \A v : Fits("list", v) = (v \in Seq(CStrings)) /\ Put("list", v) = List(v)
  BY DEF Fits, Put

(* The kinds of a layout's fields, by name.                                *)
Lists(layout, n, words, strings, nonempties, nullables, lists) ==
  /\ n \in Nat /\ Len(layout) = n /\ layout = [i \in 1 .. n |-> layout[i]]
  /\ \A i \in 1 .. n :
       /\ layout[i] = <<layout[i][1], layout[i][2]>>
       /\ \/ layout[i][1] = "word" /\ layout[i][2] \in words
          \/ layout[i][1] = "string" /\ layout[i][2] \in strings
          \/ layout[i][1] = "nonempty" /\ layout[i][2] \in nonempties
          \/ layout[i][1] = "nullable" /\ layout[i][2] \in nullables
          \/ layout[i][1] = "list" /\ layout[i][2] \in lists

(* The values have room in fields of these kinds.                          *)
Suits(u, words, strings, nonempties, nullables, lists) ==
  /\ \A x \in words : u[x] \in Nat
  /\ \A x \in strings : u[x] \in CStrings
  /\ \A x \in nonempties : u[x] \in CStrings /\ u[x] # << >>
  /\ \A x \in nullables : u[x] \in Nullables
  /\ \A x \in lists : u[x] \in Seq(CStrings)

(* Parts written field by field are laid out, when the values suit their kinds. *)
LEMMA LaysAs ==
  ASSUME NEW layout, NEW u, NEW parts, NEW n,
         NEW words, NEW strings, NEW nonempties, NEW nullables, NEW lists,
         Lists(layout, n, words, strings, nonempties, nullables, lists),
         Suits(u, words, strings, nonempties, nullables, lists),
         Len(parts) = n, parts = [i \in 1 .. n |-> parts[i]],
         \A i \in 1 .. n : parts[i] = Put(layout[i][1], u[layout[i][2]])
  PROVE  Lays(layout, u, parts)
  <1>1. ASSUME NEW i \in 1 .. n
        PROVE  layout[i][1] \in FieldKinds /\ Fits(layout[i][1], u[layout[i][2]])
    <2> DEFINE kind == layout[i][1]  name == layout[i][2]
    <2>1. /\ layout[i] = <<kind, name>>
          /\ \/ kind = "word" /\ name \in words
             \/ kind = "string" /\ name \in strings
             \/ kind = "nonempty" /\ name \in nonempties
             \/ kind = "nullable" /\ name \in nullables
             \/ kind = "list" /\ name \in lists
      BY DEF Lists
    <2> HIDE DEF kind, name
    <2>2. kind \in FieldKinds /\ Fits(kind, u[name])
      <3> DEFINE v == u[name]
      <3>6. /\ name \in words => v \in Nat
            /\ name \in strings => v \in CStrings
            /\ name \in nonempties => v \in CStrings /\ v # << >>
            /\ name \in nullables => v \in Nullables
            /\ name \in lists => v \in Seq(CStrings)
        BY DEF Suits
      <3> HIDE DEF v
      <3>1. CASE kind = "word" /\ name \in words
        BY <3>1, <3>6 DEF FieldKinds, Fits, v
      <3>2. CASE kind = "string" /\ name \in strings
        BY <3>2, <3>6 DEF FieldKinds, Fits, v
      <3>3. CASE kind = "nonempty" /\ name \in nonempties
        BY <3>3, <3>6 DEF FieldKinds, Fits, v
      <3>4. CASE kind = "nullable" /\ name \in nullables
        BY <3>4, <3>6 DEF FieldKinds, Fits, v
      <3>5. CASE kind = "list" /\ name \in lists
        BY <3>5, <3>6 DEF FieldKinds, Fits, v
      <3> QED BY <2>1, <3>1, <3>2, <3>3, <3>4, <3>5
    <2> QED BY <2>2 DEF kind, name
  <1>2. n \in Nat /\ Len(layout) = n /\ layout = [i \in 1 .. n |-> layout[i]]
    BY DEF Lists
  <1>3. \A i \in 1 .. n : layout[i] = <<layout[i][1], layout[i][2]>>
    BY DEF Lists
  <1>5. \A i \in 1 .. n : parts[i] \in Seq(Nat)
    BY <1>1, PutIs
  <1>7. parts \in Seq(Seq(Nat))
    BY <1>2, <1>5, MakesSeq
  <1> QED BY <1>1, <1>2, <1>3, <1>7 DEF Lays

(* The fields that tell a reader how to read and no decoder keeps. *)
Marks == {"magic", "count", "n_flags", "n_keywords"}

(* What a decoder takes of a reading. *)
LEMMA GotIs ==
  ASSUME NEW c, NEW u, NEW N, NEW r, r = Holding(c, Restrict(u, N))
  PROVE  /\ r.ok /\ r.rest = c /\ r.got = Restrict(u, N) /\ Got(r) = Restrict(u, N \ Marks)
         /\ DOMAIN r.got = N /\ \A x \in N : r.got[x] = u[x]
  <1>1. r.ok /\ r.rest = c /\ r.got = Restrict(u, N)
    BY HoldingIs
  <1>2. DOMAIN Restrict(u, N) = N /\ \A x \in N : Restrict(u, N)[x] = u[x]
    BY DEF Restrict
  <1>3. Got(r) = [x \in N \ Marks |-> Restrict(u, N)[x]]
    BY <1>1, <1>2 DEF Got, Without, Restrict, Marks
  <1>4. Got(r) = [x \in N \ Marks |-> u[x]]
    BY <1>2, <1>3
  <1> QED BY <1>1, <1>2, <1>4 DEF Restrict

(* A record that agrees with another is its restriction. *)
LEMMA RestrictIs ==
  ASSUME NEW u, NEW e, IsFunction(e), \A x \in DOMAIN e : u[x] = e[x]
  PROVE  Restrict(u, DOMAIN e) = e
  BY DEF IsFunction, Restrict

(* Two restrictions of one record make one. *)
LEMMA OntoRestricted ==
  ASSUME NEW u, NEW M, NEW N
  PROVE  Onto(Restrict(u, M), Restrict(u, N)) = Restrict(u, M \cup N)
  BY DEF Onto, Restrict

(* A payload starts with its version. *)
LEMMA FirstCell ==
  ASSUME NEW layout, NEW u, NEW parts, NEW v, Lays(layout, u, parts), Len(layout) >= 1, parts[1] = <<v>>
  PROVE  FlattenSeq(parts)[1] = v /\ Len(FlattenSeq(parts)) >= 1
  <1>1. parts \in Seq(Seq(Nat)) /\ Len(parts) = Len(layout)
    BY DEF Lays
  <1> DEFINE n == Len(parts)  full == FlattenSeq(parts)
  <1>2. PICK p : Places(p, parts, n, full)
    BY <1>1, PlacesOfParts
  <1>3. /\ p[0] = 0 /\ \A i \in 1 .. n : \A k \in 1 .. Len(parts[i]) : full[p[i - 1] + k] = parts[i][k]
    BY <1>2 DEF Places
  <1>4. 1 \in 1 .. n /\ 1 \in 1 .. Len(parts[1]) /\ 1 - 1 = 0 /\ 0 + 1 = 1
    BY <1>1
  <1> HIDE DEF full
  <1>5. full[1] = parts[1][1]
    BY <1>3, <1>4
  <1>6. Len(full) >= 1
    <2>1. full \in Seq(Nat) /\ Len(layout) <= Len(full)
      BY PartsMake DEF full
    <2> QED BY <1>1, <2>1
  <1> QED BY <1>5, <1>6 DEF full

(* A delivery's fields, by their kinds. *)
DeliveredWords == {"magic", "size_bytes", "internal_date", "duplicates"}
DeliveredStrings == {"object_key"}
DeliveredNullables == {"message_id", "subject", "from", "to", "cc", "bcc", "date"}

(* The names and kinds of a delivery's fields. *)
LEMMA DeliveredFields ==
  /\ Lists(SecondLayout, 12, DeliveredWords, DeliveredStrings, {}, DeliveredNullables, {})
  /\ Len(SecondLayout) = 12 /\ NamesOf(SecondLayout, 12) = DeliveredWords \cup DeliveredStrings \cup DeliveredNullables
  <1>1. Len(SecondLayout) = 12 /\ SecondLayout = [i \in 1 .. 12 |-> SecondLayout[i]]
    BY DEF SecondLayout
  <1>2. \A i \in 1 .. 12 : SecondLayout[i] = <<SecondLayout[i][1], SecondLayout[i][2]>>
    BY DEF SecondLayout
  <1>3. \A i \in 1 .. 12 :
          \/ SecondLayout[i][1] = "word" /\ SecondLayout[i][2] \in DeliveredWords
          \/ SecondLayout[i][1] = "string" /\ SecondLayout[i][2] \in DeliveredStrings
          \/ SecondLayout[i][1] = "nullable" /\ SecondLayout[i][2] \in DeliveredNullables
    BY DEF SecondLayout, DeliveredWords, DeliveredStrings, DeliveredNullables
  <1>4. Lists(SecondLayout, 12, DeliveredWords, DeliveredStrings, {}, DeliveredNullables, {})
    BY <1>1, <1>2, <1>3 DEF Lists
  <1>5. \A j \in 1 .. 12 : SecondLayout[j][2] \in DeliveredWords \cup DeliveredStrings \cup DeliveredNullables
    BY <1>3
  <1>6. \A x \in DeliveredWords \cup DeliveredStrings \cup DeliveredNullables : \E j \in 1 .. 12 : SecondLayout[j][2] = x
    BY DEF SecondLayout, DeliveredWords, DeliveredStrings, DeliveredNullables
  <1> QED BY <1>1, <1>4, <1>5, <1>6 DEF NamesOf

(* The fields of a delivery's spans. *)
SpanWords == {"message_id_span_valid", "message_id_span_start", "message_id_span_end",
              "subject_span_valid", "subject_span_start", "subject_span_end"}

(* The names and kinds of the fields of its spans. *)
LEMMA SpanFields ==
  /\ Lists(SpanLayout, 6, SpanWords, {}, {}, {}, {})
  /\ Len(SpanLayout) = 6 /\ NamesOf(SpanLayout, 6) = SpanWords
  <1>1. Len(SpanLayout) = 6 /\ SpanLayout = [i \in 1 .. 6 |-> SpanLayout[i]]
    BY DEF SpanLayout
  <1>2. \A i \in 1 .. 6 : SpanLayout[i] = <<SpanLayout[i][1], SpanLayout[i][2]>>
    BY DEF SpanLayout
  <1>3. \A i \in 1 .. 6 :
          \/ SpanLayout[i][1] = "word" /\ SpanLayout[i][2] \in SpanWords
    BY DEF SpanLayout, SpanWords
  <1>4. Lists(SpanLayout, 6, SpanWords, {}, {}, {}, {})
    BY <1>1, <1>2, <1>3 DEF Lists
  <1>5. \A j \in 1 .. 6 : SpanLayout[j][2] \in SpanWords
    BY <1>3
  <1>6. \A x \in SpanWords : \E j \in 1 .. 6 : SpanLayout[j][2] = x
    BY DEF SpanLayout, SpanWords
  <1> QED BY <1>1, <1>4, <1>5, <1>6 DEF NamesOf

(* The fields of a delivery's identity, by their kinds. *)
IdentityNullables == {"delivery_id", "queue_id", "account_identity", "envelope_sender"}
IdentityLists == {"recipients"}

(* The names and kinds of the fields of its identity. *)
LEMMA IdentityFields ==
  /\ Lists(IdentityLayout, 5, {}, {}, {}, IdentityNullables, IdentityLists)
  /\ Len(IdentityLayout) = 5 /\ NamesOf(IdentityLayout, 5) = IdentityNullables \cup IdentityLists
  <1>1. Len(IdentityLayout) = 5 /\ IdentityLayout = [i \in 1 .. 5 |-> IdentityLayout[i]]
    BY DEF IdentityLayout
  <1>2. \A i \in 1 .. 5 : IdentityLayout[i] = <<IdentityLayout[i][1], IdentityLayout[i][2]>>
    BY DEF IdentityLayout
  <1>3. \A i \in 1 .. 5 :
          \/ IdentityLayout[i][1] = "nullable" /\ IdentityLayout[i][2] \in IdentityNullables
          \/ IdentityLayout[i][1] = "list" /\ IdentityLayout[i][2] \in IdentityLists
    BY DEF IdentityLayout, IdentityNullables, IdentityLists
  <1>4. Lists(IdentityLayout, 5, {}, {}, {}, IdentityNullables, IdentityLists)
    BY <1>1, <1>2, <1>3 DEF Lists
  <1>5. \A j \in 1 .. 5 : IdentityLayout[j][2] \in IdentityNullables \cup IdentityLists
    BY <1>3
  <1>6. \A x \in IdentityNullables \cup IdentityLists : \E j \in 1 .. 5 : IdentityLayout[j][2] = x
    BY DEF IdentityLayout, IdentityNullables, IdentityLists
  <1> QED BY <1>1, <1>4, <1>5, <1>6 DEF NamesOf

(* An append's fields, by their kinds. *)
AppendedWords == {"magic", "uidvalidity", "uid", "size_bytes", "internal_date", "duplicates",
                  "span_flags", "message_id_span_start", "message_id_span_end",
                  "subject_span_start", "subject_span_end"}
AppendedNullables == {"account_id", "mailbox_id", "object_key", "message_id", "subject", "from",
                      "to", "cc", "bcc", "date"}
AppendedLists == {"system_flags", "user_keywords"}

(* The names and kinds of an append's fields. *)
LEMMA AppendedFields ==
  /\ Lists(AppendedLayout, 23, AppendedWords, {}, {}, AppendedNullables, AppendedLists)
  /\ Len(AppendedLayout) = 23 /\ NamesOf(AppendedLayout, 23) = AppendedWords \cup AppendedNullables \cup AppendedLists
  <1>1. Len(AppendedLayout) = 23 /\ AppendedLayout = [i \in 1 .. 23 |-> AppendedLayout[i]]
    BY DEF AppendedLayout
  <1>2. \A i \in 1 .. 23 : AppendedLayout[i] = <<AppendedLayout[i][1], AppendedLayout[i][2]>>
    BY DEF AppendedLayout
  <1>3. \A i \in 1 .. 23 :
          \/ AppendedLayout[i][1] = "word" /\ AppendedLayout[i][2] \in AppendedWords
          \/ AppendedLayout[i][1] = "nullable" /\ AppendedLayout[i][2] \in AppendedNullables
          \/ AppendedLayout[i][1] = "list" /\ AppendedLayout[i][2] \in AppendedLists
    BY DEF AppendedLayout, AppendedWords, AppendedNullables, AppendedLists
  <1>4. Lists(AppendedLayout, 23, AppendedWords, {}, {}, AppendedNullables, AppendedLists)
    BY <1>1, <1>2, <1>3 DEF Lists
  <1>5. \A j \in 1 .. 23 : AppendedLayout[j][2] \in AppendedWords \cup AppendedNullables \cup AppendedLists
    BY <1>3
  <1>6. \A x \in AppendedWords \cup AppendedNullables \cup AppendedLists : \E j \in 1 .. 23 : AppendedLayout[j][2] = x
    BY DEF AppendedLayout, AppendedWords, AppendedNullables, AppendedLists
  <1> QED BY <1>1, <1>4, <1>5, <1>6 DEF NamesOf

(* A copy's fields, by their kinds. *)
CopiedWords == {"magic", "source_uidvalidity", "dest_uidvalidity", "count"}
CopiedStrings == {"account_id", "source_mailbox_id", "dest_mailbox_id"}

(* The names and kinds of a copy's fields. *)
LEMMA CopiedFields ==
  /\ Lists(CopiedLayout, 7, CopiedWords, CopiedStrings, {}, {}, {})
  /\ Len(CopiedLayout) = 7 /\ NamesOf(CopiedLayout, 7) = CopiedWords \cup CopiedStrings
  <1>1. Len(CopiedLayout) = 7 /\ CopiedLayout = [i \in 1 .. 7 |-> CopiedLayout[i]]
    BY DEF CopiedLayout
  <1>2. \A i \in 1 .. 7 : CopiedLayout[i] = <<CopiedLayout[i][1], CopiedLayout[i][2]>>
    BY DEF CopiedLayout
  <1>3. \A i \in 1 .. 7 :
          \/ CopiedLayout[i][1] = "word" /\ CopiedLayout[i][2] \in CopiedWords
          \/ CopiedLayout[i][1] = "string" /\ CopiedLayout[i][2] \in CopiedStrings
    BY DEF CopiedLayout, CopiedWords, CopiedStrings
  <1>4. Lists(CopiedLayout, 7, CopiedWords, CopiedStrings, {}, {}, {})
    BY <1>1, <1>2, <1>3 DEF Lists
  <1>5. \A j \in 1 .. 7 : CopiedLayout[j][2] \in CopiedWords \cup CopiedStrings
    BY <1>3
  <1>6. \A x \in CopiedWords \cup CopiedStrings : \E j \in 1 .. 7 : CopiedLayout[j][2] = x
    BY DEF CopiedLayout, CopiedWords, CopiedStrings
  <1> QED BY <1>1, <1>4, <1>5, <1>6 DEF NamesOf

(* The fields of one copied message, by their kinds. *)
ItemWords == {"src_uid", "dst_uid", "internal_date"}
ItemStrings == {"message_id"}
ItemLists == {"system_flags", "user_keywords"}

(* The names and kinds of the fields of a copied message. *)
LEMMA ItemFields ==
  /\ Lists(ItemLayout, 6, ItemWords, ItemStrings, {}, {}, ItemLists)
  /\ Len(ItemLayout) = 6 /\ NamesOf(ItemLayout, 6) = ItemWords \cup ItemStrings \cup ItemLists
  <1>1. Len(ItemLayout) = 6 /\ ItemLayout = [i \in 1 .. 6 |-> ItemLayout[i]]
    BY DEF ItemLayout
  <1>2. \A i \in 1 .. 6 : ItemLayout[i] = <<ItemLayout[i][1], ItemLayout[i][2]>>
    BY DEF ItemLayout
  <1>3. \A i \in 1 .. 6 :
          \/ ItemLayout[i][1] = "word" /\ ItemLayout[i][2] \in ItemWords
          \/ ItemLayout[i][1] = "string" /\ ItemLayout[i][2] \in ItemStrings
          \/ ItemLayout[i][1] = "list" /\ ItemLayout[i][2] \in ItemLists
    BY DEF ItemLayout, ItemWords, ItemStrings, ItemLists
  <1>4. Lists(ItemLayout, 6, ItemWords, ItemStrings, {}, {}, ItemLists)
    BY <1>1, <1>2, <1>3 DEF Lists
  <1>5. \A j \in 1 .. 6 : ItemLayout[j][2] \in ItemWords \cup ItemStrings \cup ItemLists
    BY <1>3
  <1>6. \A x \in ItemWords \cup ItemStrings \cup ItemLists : \E j \in 1 .. 6 : ItemLayout[j][2] = x
    BY DEF ItemLayout, ItemWords, ItemStrings, ItemLists
  <1> QED BY <1>1, <1>4, <1>5, <1>6 DEF NamesOf

(* The fields an audit starts with. *)
HeaderWords == {"magic", "operation", "outcome", "mutation_count", "final_offset", "final_sequence"}

(* The names and kinds of an audit's first fields. *)
LEMMA HeaderFields ==
  /\ Lists(AuditHeader, 6, HeaderWords, {}, {}, {}, {})
  /\ Len(AuditHeader) = 6 /\ NamesOf(AuditHeader, 6) = HeaderWords
  <1>1. Len(AuditHeader) = 6 /\ AuditHeader = [i \in 1 .. 6 |-> AuditHeader[i]]
    BY DEF AuditHeader
  <1>2. \A i \in 1 .. 6 : AuditHeader[i] = <<AuditHeader[i][1], AuditHeader[i][2]>>
    BY DEF AuditHeader
  <1>3. \A i \in 1 .. 6 :
          \/ AuditHeader[i][1] = "word" /\ AuditHeader[i][2] \in HeaderWords
    BY DEF AuditHeader, HeaderWords
  <1>4. Lists(AuditHeader, 6, HeaderWords, {}, {}, {}, {})
    BY <1>1, <1>2, <1>3 DEF Lists
  <1>5. \A j \in 1 .. 6 : AuditHeader[j][2] \in HeaderWords
    BY <1>3
  <1>6. \A x \in HeaderWords : \E j \in 1 .. 6 : AuditHeader[j][2] = x
    BY DEF AuditHeader, HeaderWords
  <1> QED BY <1>1, <1>4, <1>5, <1>6 DEF NamesOf

(* The strings of every audit. *)
AuditNullables == {"request_id", "correlation_id", "caller_identity", "account_identity",
                   "tool_identity", "scope_id", "predicate_id"}

(* The names and kinds of the texts of every audit. *)
LEMMA AuditFields ==
  /\ Lists(AuditStrings, 7, {}, {}, {}, AuditNullables, {})
  /\ Len(AuditStrings) = 7 /\ NamesOf(AuditStrings, 7) = AuditNullables
  <1>1. Len(AuditStrings) = 7 /\ AuditStrings = [i \in 1 .. 7 |-> AuditStrings[i]]
    BY DEF AuditStrings
  <1>2. \A i \in 1 .. 7 : AuditStrings[i] = <<AuditStrings[i][1], AuditStrings[i][2]>>
    BY DEF AuditStrings
  <1>3. \A i \in 1 .. 7 :
          \/ AuditStrings[i][1] = "nullable" /\ AuditStrings[i][2] \in AuditNullables
    BY DEF AuditStrings, AuditNullables
  <1>4. Lists(AuditStrings, 7, {}, {}, {}, AuditNullables, {})
    BY <1>1, <1>2, <1>3 DEF Lists
  <1>5. \A j \in 1 .. 7 : AuditStrings[j][2] \in AuditNullables
    BY <1>3
  <1>6. \A x \in AuditNullables : \E j \in 1 .. 7 : AuditStrings[j][2] = x
    BY DEF AuditStrings, AuditNullables
  <1> QED BY <1>1, <1>4, <1>5, <1>6 DEF NamesOf

(* The strings of a query's audit. *)
QueryNullables == {"query_id", "template_id", "error_domain", "error_class", "error_message"}

(* The names and kinds of the texts of a query's audit. *)
LEMMA QueryFields ==
  /\ Lists(AuditQuery, 5, {}, {}, {}, QueryNullables, {})
  /\ Len(AuditQuery) = 5 /\ NamesOf(AuditQuery, 5) = QueryNullables
  <1>1. Len(AuditQuery) = 5 /\ AuditQuery = [i \in 1 .. 5 |-> AuditQuery[i]]
    BY DEF AuditQuery
  <1>2. \A i \in 1 .. 5 : AuditQuery[i] = <<AuditQuery[i][1], AuditQuery[i][2]>>
    BY DEF AuditQuery
  <1>3. \A i \in 1 .. 5 :
          \/ AuditQuery[i][1] = "nullable" /\ AuditQuery[i][2] \in QueryNullables
    BY DEF AuditQuery, QueryNullables
  <1>4. Lists(AuditQuery, 5, {}, {}, {}, QueryNullables, {})
    BY <1>1, <1>2, <1>3 DEF Lists
  <1>5. \A j \in 1 .. 5 : AuditQuery[j][2] \in QueryNullables
    BY <1>3
  <1>6. \A x \in QueryNullables : \E j \in 1 .. 5 : AuditQuery[j][2] = x
    BY DEF AuditQuery, QueryNullables
  <1> QED BY <1>1, <1>4, <1>5, <1>6 DEF NamesOf

(* The fields of a change of flags, by their kinds. *)
FlagsWords == {"magic", "uid", "uidvalidity", "mode", "n_flags", "n_keywords"}
FlagsStrings == {"account_id", "mailbox_id"}

(* The names and kinds of a flag change's fields. *)
LEMMA FlagsFields ==
  /\ Lists(FlagsLayout, 8, FlagsWords, FlagsStrings, {}, {}, {})
  /\ Len(FlagsLayout) = 8 /\ NamesOf(FlagsLayout, 8) = FlagsWords \cup FlagsStrings
  <1>1. Len(FlagsLayout) = 8 /\ FlagsLayout = [i \in 1 .. 8 |-> FlagsLayout[i]]
    BY DEF FlagsLayout
  <1>2. \A i \in 1 .. 8 : FlagsLayout[i] = <<FlagsLayout[i][1], FlagsLayout[i][2]>>
    BY DEF FlagsLayout
  <1>3. \A i \in 1 .. 8 :
          \/ FlagsLayout[i][1] = "word" /\ FlagsLayout[i][2] \in FlagsWords
          \/ FlagsLayout[i][1] = "string" /\ FlagsLayout[i][2] \in FlagsStrings
    BY DEF FlagsLayout, FlagsWords, FlagsStrings
  <1>4. Lists(FlagsLayout, 8, FlagsWords, FlagsStrings, {}, {}, {})
    BY <1>1, <1>2, <1>3 DEF Lists
  <1>5. \A j \in 1 .. 8 : FlagsLayout[j][2] \in FlagsWords \cup FlagsStrings
    BY <1>3
  <1>6. \A x \in FlagsWords \cup FlagsStrings : \E j \in 1 .. 8 : FlagsLayout[j][2] = x
    BY DEF FlagsLayout, FlagsWords, FlagsStrings
  <1> QED BY <1>1, <1>4, <1>5, <1>6 DEF NamesOf

(* The fields of a change of a view, by their kinds. *)
ViewWords == {"magic", "uid", "uidvalidity", "is_visible", "materialized_at"}
ViewNonempties == {"account_id", "view_id", "message_id", "membership_id", "rule_version_hash"}

(* The names and kinds of a view change's fields. *)
LEMMA ViewFields ==
  /\ Lists(ViewLayout, 10, ViewWords, {}, ViewNonempties, {}, {})
  /\ Len(ViewLayout) = 10 /\ NamesOf(ViewLayout, 10) = ViewWords \cup ViewNonempties
  <1>1. Len(ViewLayout) = 10 /\ ViewLayout = [i \in 1 .. 10 |-> ViewLayout[i]]
    BY DEF ViewLayout
  <1>2. \A i \in 1 .. 10 : ViewLayout[i] = <<ViewLayout[i][1], ViewLayout[i][2]>>
    BY DEF ViewLayout
  <1>3. \A i \in 1 .. 10 :
          \/ ViewLayout[i][1] = "word" /\ ViewLayout[i][2] \in ViewWords
          \/ ViewLayout[i][1] = "nonempty" /\ ViewLayout[i][2] \in ViewNonempties
    BY DEF ViewLayout, ViewWords, ViewNonempties
  <1>4. Lists(ViewLayout, 10, ViewWords, {}, ViewNonempties, {}, {})
    BY <1>1, <1>2, <1>3 DEF Lists
  <1>5. \A j \in 1 .. 10 : ViewLayout[j][2] \in ViewWords \cup ViewNonempties
    BY <1>3
  <1>6. \A x \in ViewWords \cup ViewNonempties : \E j \in 1 .. 10 : ViewLayout[j][2] = x
    BY DEF ViewLayout, ViewWords, ViewNonempties
  <1> QED BY <1>1, <1>4, <1>5, <1>6 DEF NamesOf

(* The fields of a message's facts, by their kinds. *)
FactsWords == {"magic", "extracted_at", "count"}
FactsNonempties == {"account_id", "message_id"}

(* The names and kinds of an extraction's fields. *)
LEMMA FactsFields ==
  /\ Lists(FactsLayout, 5, FactsWords, {}, FactsNonempties, {}, {})
  /\ Len(FactsLayout) = 5 /\ NamesOf(FactsLayout, 5) = FactsWords \cup FactsNonempties
  <1>1. Len(FactsLayout) = 5 /\ FactsLayout = [i \in 1 .. 5 |-> FactsLayout[i]]
    BY DEF FactsLayout
  <1>2. \A i \in 1 .. 5 : FactsLayout[i] = <<FactsLayout[i][1], FactsLayout[i][2]>>
    BY DEF FactsLayout
  <1>3. \A i \in 1 .. 5 :
          \/ FactsLayout[i][1] = "word" /\ FactsLayout[i][2] \in FactsWords
          \/ FactsLayout[i][1] = "nonempty" /\ FactsLayout[i][2] \in FactsNonempties
    BY DEF FactsLayout, FactsWords, FactsNonempties
  <1>4. Lists(FactsLayout, 5, FactsWords, {}, FactsNonempties, {}, {})
    BY <1>1, <1>2, <1>3 DEF Lists
  <1>5. \A j \in 1 .. 5 : FactsLayout[j][2] \in FactsWords \cup FactsNonempties
    BY <1>3
  <1>6. \A x \in FactsWords \cup FactsNonempties : \E j \in 1 .. 5 : FactsLayout[j][2] = x
    BY DEF FactsLayout, FactsWords, FactsNonempties
  <1> QED BY <1>1, <1>4, <1>5, <1>6 DEF NamesOf

(* The fields of one fact, by their kinds. *)
FactWords == {"confidence"}
FactNonempties == {"predicate", "source"}
FactLists == {"args"}

(* The names and kinds of a fact's fields. *)
LEMMA FactFields ==
  /\ Lists(FactLayout, 4, FactWords, {}, FactNonempties, {}, FactLists)
  /\ Len(FactLayout) = 4 /\ NamesOf(FactLayout, 4) = FactWords \cup FactNonempties \cup FactLists
  <1>1. Len(FactLayout) = 4 /\ FactLayout = [i \in 1 .. 4 |-> FactLayout[i]]
    BY DEF FactLayout
  <1>2. \A i \in 1 .. 4 : FactLayout[i] = <<FactLayout[i][1], FactLayout[i][2]>>
    BY DEF FactLayout
  <1>3. \A i \in 1 .. 4 :
          \/ FactLayout[i][1] = "word" /\ FactLayout[i][2] \in FactWords
          \/ FactLayout[i][1] = "nonempty" /\ FactLayout[i][2] \in FactNonempties
          \/ FactLayout[i][1] = "list" /\ FactLayout[i][2] \in FactLists
    BY DEF FactLayout, FactWords, FactNonempties, FactLists
  <1>4. Lists(FactLayout, 4, FactWords, {}, FactNonempties, {}, FactLists)
    BY <1>1, <1>2, <1>3 DEF Lists
  <1>5. \A j \in 1 .. 4 : FactLayout[j][2] \in FactWords \cup FactNonempties \cup FactLists
    BY <1>3
  <1>6. \A x \in FactWords \cup FactNonempties \cup FactLists : \E j \in 1 .. 4 : FactLayout[j][2] = x
    BY DEF FactLayout, FactWords, FactNonempties, FactLists
  <1> QED BY <1>1, <1>4, <1>5, <1>6 DEF NamesOf

(* The fields of an expunge, by their kinds. *)
ExpungedWords == {"magic", "uidvalidity", "count"}
ExpungedStrings == {"account_id", "mailbox_id"}

(* The names and kinds of an expunge's fields. *)
LEMMA ExpungedFields ==
  /\ Lists(ExpungedLayout, 5, ExpungedWords, ExpungedStrings, {}, {}, {})
  /\ Len(ExpungedLayout) = 5 /\ NamesOf(ExpungedLayout, 5) = ExpungedWords \cup ExpungedStrings
  <1>1. Len(ExpungedLayout) = 5 /\ ExpungedLayout = [i \in 1 .. 5 |-> ExpungedLayout[i]]
    BY DEF ExpungedLayout
  <1>2. \A i \in 1 .. 5 : ExpungedLayout[i] = <<ExpungedLayout[i][1], ExpungedLayout[i][2]>>
    BY DEF ExpungedLayout
  <1>3. \A i \in 1 .. 5 :
          \/ ExpungedLayout[i][1] = "word" /\ ExpungedLayout[i][2] \in ExpungedWords
          \/ ExpungedLayout[i][1] = "string" /\ ExpungedLayout[i][2] \in ExpungedStrings
    BY DEF ExpungedLayout, ExpungedWords, ExpungedStrings
  <1>4. Lists(ExpungedLayout, 5, ExpungedWords, ExpungedStrings, {}, {}, {})
    BY <1>1, <1>2, <1>3 DEF Lists
  <1>5. \A j \in 1 .. 5 : ExpungedLayout[j][2] \in ExpungedWords \cup ExpungedStrings
    BY <1>3
  <1>6. \A x \in ExpungedWords \cup ExpungedStrings : \E j \in 1 .. 5 : ExpungedLayout[j][2] = x
    BY DEF ExpungedLayout, ExpungedWords, ExpungedStrings
  <1> QED BY <1>1, <1>4, <1>5, <1>6 DEF NamesOf

(* The fields of a fact mutation, by their kinds. *)
MutationWords == {"magic", "mutation"}
MutationStrings == {"predicate_id", "scope_id"}
MutationLists == {"arguments"}

(* The names and kinds of a fact mutation's fields. *)
LEMMA MutationFields ==
  /\ Lists(MutationLayout, 5, MutationWords, MutationStrings, {}, {}, MutationLists)
  /\ Len(MutationLayout) = 5 /\ NamesOf(MutationLayout, 5) = MutationWords \cup MutationStrings \cup MutationLists
  <1>1. Len(MutationLayout) = 5 /\ MutationLayout = [i \in 1 .. 5 |-> MutationLayout[i]]
    BY DEF MutationLayout
  <1>2. \A i \in 1 .. 5 : MutationLayout[i] = <<MutationLayout[i][1], MutationLayout[i][2]>>
    BY DEF MutationLayout
  <1>3. \A i \in 1 .. 5 :
          \/ MutationLayout[i][1] = "word" /\ MutationLayout[i][2] \in MutationWords
          \/ MutationLayout[i][1] = "string" /\ MutationLayout[i][2] \in MutationStrings
          \/ MutationLayout[i][1] = "list" /\ MutationLayout[i][2] \in MutationLists
    BY DEF MutationLayout, MutationWords, MutationStrings, MutationLists
  <1>4. Lists(MutationLayout, 5, MutationWords, MutationStrings, {}, {}, MutationLists)
    BY <1>1, <1>2, <1>3 DEF Lists
  <1>5. \A j \in 1 .. 5 : MutationLayout[j][2] \in MutationWords \cup MutationStrings \cup MutationLists
    BY <1>3
  <1>6. \A x \in MutationWords \cup MutationStrings \cup MutationLists : \E j \in 1 .. 5 : MutationLayout[j][2] = x
    BY DEF MutationLayout, MutationWords, MutationStrings, MutationLists
  <1> QED BY <1>1, <1>4, <1>5, <1>6 DEF NamesOf

(* A change of a view reads as it was written.                             *)
LEMMA ViewRead ==
  ASSUME NEW e \in EventTypes("view"), EncodeView(e) # None
  PROVE  EncodeView(e) \in Seq(Nat) /\ DecodeView(EncodeView(e)) = e
  <1> DEFINE u == Onto([magic |-> 1, is_visible |-> Bit(e.is_visible)], e)
             names == ViewWords \cup ViewNonempties
             cells == EncodeView(e)
  <1>1. ValidView(e) /\ cells = FlattenSeq(ViewParts(e))
    BY DEF EncodeView
  <1>2. /\ DOMAIN e = names \ {"magic"} /\ IsFunction(e)
        /\ \A x \in ViewWords \ {"magic", "is_visible"} : e[x] \in Nat
        /\ e.is_visible \in BOOLEAN
        /\ \A x \in ViewNonempties : e[x] \in Nullables
    BY DEF EventTypes, IsFunction, ViewWords, ViewNonempties
  <1>3. /\ u["magic"] = 1 /\ u["is_visible"] = Bit(e.is_visible)
        /\ \A x \in names \ {"magic", "is_visible"} : u[x] = e[x]
    BY <1>2 DEF Onto, ViewWords, ViewNonempties
  <1> HIDE DEF u
  <1>4. \A x \in ViewNonempties : e[x] \in CStrings /\ e[x] # << >> /\ e[x] # None
    BY <1>1, <1>2, NoneAssumption DEF ValidView, Required, Nullables, ViewWords, ViewNonempties
  <1>5. Lays(ViewLayout, u, ViewParts(e))
    <2>1. Suits(u, ViewWords, {}, ViewNonempties, {}, {})
      BY <1>2, <1>3, <1>4 DEF Suits, Bit, ViewWords, ViewNonempties
    <2>4. /\ u["uid"] = e.uid /\ u["uidvalidity"] = e.uidvalidity
          /\ u["materialized_at"] = e.materialized_at /\ u["account_id"] = e.account_id
          /\ u["view_id"] = e.view_id /\ u["message_id"] = e.message_id
          /\ u["membership_id"] = e.membership_id /\ u["rule_version_hash"] = e.rule_version_hash
      BY <1>3 DEF ViewWords, ViewNonempties
    <2>2. \A i \in 1 .. 10 : ViewParts(e)[i] = Put(ViewLayout[i][1], u[ViewLayout[i][2]])
      BY <1>3, <2>4, Kinds5 DEF ViewParts, ViewLayout
    <2>3. Len(ViewParts(e)) = 10 /\ ViewParts(e) = [i \in 1 .. 10 |-> ViewParts(e)[i]]
      BY DEF ViewParts
    <2> QED BY <2>1, <2>2, <2>3, LaysAs, ViewFields
  <1> DEFINE r == Read(Reading(cells), ViewLayout)
  <1> HIDE DEF names, cells
  <1>6. r = Holding(<< >>, Restrict(u, names))
    BY <1>1, <1>5, ReadWhole, ViewFields DEF names
  <1> HIDE DEF r
  <1>7. /\ r.ok /\ r.rest = << >> /\ Got(r) = Restrict(u, names \ Marks)
        /\ \A x \in names : r.got[x] = u[x]
    BY <1>6, GotIs
  <1>8. Whole(r, 1)
    BY <1>3, <1>7 DEF Whole, names, ViewWords, ViewNonempties
  <1>9. [Got(r) EXCEPT !.is_visible = @ = 1] = e
    <2> DEFINE w == Got(r)
    <2>0. w = Restrict(u, names \ Marks)
      BY <1>7
    <2> HIDE DEF w
    <2> DEFINE g == [w EXCEPT !.is_visible = @ = 1]
    <2>1. names \ Marks = DOMAIN e /\ "is_visible" \in DOMAIN e
      BY <1>2 DEF names, Marks, ViewWords, ViewNonempties
    <2>2. IsFunction(g) /\ DOMAIN g = DOMAIN e /\ \A x \in DOMAIN e : g[x] = IF x = "is_visible" THEN u[x] = 1 ELSE u[x]
      BY <2>0, <2>1 DEF IsFunction, Restrict
    <2>3. \A x \in DOMAIN e : g[x] = e[x]
      BY <1>2, <1>3, <2>2 DEF Bit
    <2> HIDE DEF g
    <2>4. g = e
      BY <1>2, <2>2, <2>3, SameValue
    <2> QED BY <2>4 DEF g, w
  <1>10. r.got["is_visible"] <= 1
    BY <1>2, <1>3, <1>7 DEF Bit, names, ViewWords, ViewNonempties
  <1>11. cells \in Seq(Nat)
    BY <1>1, <1>5, PartsMake
  <1> QED BY <1>1, <1>8, <1>9, <1>10, <1>11 DEF DecodeView, r, cells

(* A fact mutation reads as it was written.                                *)
LEMMA MutationRead ==
  ASSUME NEW e \in EventTypes("mutation"), ValidMutation(e)
  PROVE  EncodeMutation(e) \in Seq(Nat) /\ EncodeMutation(e) # None /\ DecodeMutation(EncodeMutation(e)) = e
  <1> DEFINE u == Onto([magic |-> 1], e)
             names == MutationWords \cup MutationStrings \cup MutationLists
             cells == EncodeMutation(e)
  <1>1. ValidMutation(e) /\ cells = FlattenSeq(MutationParts(e))
    BY DEF EncodeMutation
  <1>2. /\ DOMAIN e = names \ {"magic"} /\ IsFunction(e)
        /\ e.mutation \in Nat
        /\ e.arguments \in Seq(CStrings)
        /\ \A x \in MutationStrings : e[x] \in Nullables
    BY DEF EventTypes, IsFunction, MutationWords, MutationStrings, MutationLists
  <1>3. /\ u["magic"] = 1
        /\ \A x \in names \ {"magic"} : u[x] = e[x]
    BY <1>2 DEF Onto, MutationWords, MutationStrings, MutationLists
  <1> HIDE DEF u
  <1>4. \A x \in MutationStrings : e[x] \in CStrings /\ e[x] # << >> /\ e[x] # None
    BY <1>1, <1>2, NoneAssumption DEF ValidMutation, IsPlain, IsPredicate, IsToken, Required, Nullables, MutationWords, MutationStrings, MutationLists
  <1>5. Lays(MutationLayout, u, MutationParts(e))
    <2>1. Suits(u, MutationWords, MutationStrings, {}, {}, MutationLists)
      BY <1>2, <1>3, <1>4 DEF Suits, Bit, MutationWords, MutationStrings, MutationLists
    <2>4. /\ u["mutation"] = e.mutation /\ u["predicate_id"] = e.predicate_id
          /\ u["scope_id"] = e.scope_id /\ u["arguments"] = e.arguments
      BY <1>3 DEF MutationWords, MutationStrings, MutationLists
    <2>2. \A i \in 1 .. 5 : MutationParts(e)[i] = Put(MutationLayout[i][1], u[MutationLayout[i][2]])
      BY <1>3, <2>4, Kinds5 DEF MutationParts, MutationLayout
    <2>3. Len(MutationParts(e)) = 5 /\ MutationParts(e) = [i \in 1 .. 5 |-> MutationParts(e)[i]]
      BY DEF MutationParts
    <2> QED BY <2>1, <2>2, <2>3, LaysAs, MutationFields
  <1> DEFINE r == Read(Reading(cells), MutationLayout)
  <1> HIDE DEF names, cells
  <1>6. r = Holding(<< >>, Restrict(u, names))
    BY <1>1, <1>5, ReadWhole, MutationFields DEF names
  <1> HIDE DEF r
  <1>7. /\ r.ok /\ r.rest = << >> /\ Got(r) = Restrict(u, names \ Marks)
        /\ \A x \in names : r.got[x] = u[x]
    BY <1>6, GotIs
  <1>8. Whole(r, 1)
    BY <1>3, <1>7 DEF Whole, names, MutationWords, MutationStrings, MutationLists
  <1>9. Got(r) = e
    <2>1. names \ Marks = DOMAIN e
      BY <1>2 DEF names, Marks, MutationWords, MutationStrings, MutationLists
    <2>2. \A x \in DOMAIN e : u[x] = e[x]
      BY <1>2, <1>3
    <2> QED BY <1>2, <1>7, <2>1, <2>2, RestrictIs
  <1>10. cells \in Seq(Nat) /\ cells # None
    BY <1>1, <1>5, PartsMake, NoneAssumption
  <1> QED BY <1>1, <1>8, <1>9, <1>10 DEF DecodeMutation, r, cells

(* An append reads as it was written.                                      *)
LEMMA AppendedRead ==
  ASSUME NEW e \in EventTypes("appended"), ValidAppended(e)
  PROVE  EncodeAppended(e) \in Seq(Nat) /\ EncodeAppended(e) # None /\ DecodeAppended(EncodeAppended(e)) = e
  <1> DEFINE u == Onto([magic |-> 1, span_flags |-> SpanFlags(e)], e)
             names == AppendedWords \cup AppendedNullables \cup AppendedLists
             cells == EncodeAppended(e)
  <1>1. ValidAppended(e) /\ cells = FlattenSeq(AppendedParts(e))
    BY DEF EncodeAppended
  <1>2. /\ DOMAIN e = (names \ {"magic", "span_flags"}) \cup {"message_id_span_valid", "subject_span_valid"} /\ IsFunction(e)
        /\ \A x \in AppendedWords \ {"magic", "span_flags"} : e[x] \in Nat
        /\ e.message_id_span_valid \in BOOLEAN /\ e.subject_span_valid \in BOOLEAN
        /\ \A x \in AppendedNullables : e[x] \in Nullables
        /\ \A x \in AppendedLists : e[x] \in Seq(CStrings)
    BY DEF EventTypes, IsFunction, AppendedWords, AppendedNullables, AppendedLists
  <1>3. /\ u["magic"] = 1 /\ u["span_flags"] = SpanFlags(e)
        /\ \A x \in names \ {"magic", "span_flags"} : u[x] = e[x]
    BY <1>2 DEF Onto, AppendedWords, AppendedNullables, AppendedLists
  <1> HIDE DEF u
  <1>4. \A x \in {"account_id", "mailbox_id", "object_key"} : e[x] \in CStrings /\ e[x] # << >> /\ e[x] # None
    BY <1>1, <1>2, NoneAssumption DEF ValidAppended, IsKey, IsToken, Required, Nullables, AppendedWords, AppendedNullables, AppendedLists
  <1>5. Lays(AppendedLayout, u, AppendedParts(e))
    <2>1. Suits(u, AppendedWords, {}, {}, AppendedNullables, AppendedLists)
      <3>1. u["magic"] \in Nat /\ u["span_flags"] \in Nat
        BY <1>2, <1>3 DEF Bit, SpanFlags
      <3>2. \A x \in AppendedWords \ {"magic", "span_flags"} : u[x] \in Nat
        BY <1>2, <1>3
      <3>3. \A x \in AppendedNullables : u[x] \in Nullables
        <4>1. AppendedNullables \subseteq names \ {"magic", "span_flags"}
          BY DEF AppendedNullables
        <4> QED BY <1>2, <1>3, <4>1
      <3>4. \A x \in AppendedLists : u[x] \in Seq(CStrings)
        <4>1. AppendedLists \subseteq names \ {"magic", "span_flags"}
          BY DEF AppendedLists
        <4> QED BY <1>2, <1>3, <4>1
      <3> QED BY <3>1, <3>2, <3>3, <3>4 DEF Suits
    <2>5. Nullable(e.account_id) = Text(e.account_id) /\ Nullable(e.mailbox_id) = Text(e.mailbox_id) /\ Nullable(e.object_key) = Text(e.object_key)
      BY <1>4 DEF Nullable
    <2>4. /\ u["uidvalidity"] = e.uidvalidity /\ u["uid"] = e.uid
          /\ u["size_bytes"] = e.size_bytes /\ u["internal_date"] = e.internal_date
          /\ u["duplicates"] = e.duplicates
          /\ u["message_id_span_start"] = e.message_id_span_start
          /\ u["message_id_span_end"] = e.message_id_span_end
          /\ u["subject_span_start"] = e.subject_span_start
          /\ u["subject_span_end"] = e.subject_span_end /\ u["account_id"] = e.account_id
          /\ u["mailbox_id"] = e.mailbox_id /\ u["object_key"] = e.object_key
          /\ u["message_id"] = e.message_id /\ u["subject"] = e.subject /\ u["from"] = e.from
          /\ u["to"] = e.to /\ u["cc"] = e.cc /\ u["bcc"] = e.bcc /\ u["date"] = e.date
          /\ u["system_flags"] = e.system_flags /\ u["user_keywords"] = e.user_keywords
      BY <1>3 DEF AppendedWords, AppendedNullables, AppendedLists
    <2>2. \A i \in 1 .. 23 : AppendedParts(e)[i] = Put(AppendedLayout[i][1], u[AppendedLayout[i][2]])
      <3> DEFINE parts == AppendedParts(e)  name == [i \in 1 .. 23 |-> AppendedLayout[i][2]]
      <3>1. /\ \A v : Put("word", v) = <<v>>
            /\ \A v : Put("nullable", v) = Nullable(v)
            /\ \A v : Put("list", v) = List(v)
        BY DEF Put
      <3>2. /\ name[1] = "magic" /\ name[2] = "uidvalidity" /\ name[3] = "uid"
            /\ name[4] = "size_bytes" /\ name[5] = "internal_date" /\ name[6] = "duplicates"
            /\ name[7] = "span_flags" /\ name[8] = "message_id_span_start"
            /\ name[9] = "message_id_span_end" /\ name[10] = "subject_span_start"
            /\ name[11] = "subject_span_end" /\ name[12] = "account_id" /\ name[13] = "mailbox_id"
            /\ name[14] = "object_key" /\ name[15] = "message_id" /\ name[16] = "subject"
            /\ name[17] = "from" /\ name[18] = "to" /\ name[19] = "cc" /\ name[20] = "bcc"
            /\ name[21] = "date" /\ name[22] = "system_flags" /\ name[23] = "user_keywords"
        BY DEF AppendedLayout
      <3>5. /\ \A i \in 1 .. 11 : AppendedLayout[i][1] = "word"
            /\ \A i \in 12 .. 21 : AppendedLayout[i][1] = "nullable"
            /\ \A i \in 22 .. 23 : AppendedLayout[i][1] = "list"
        BY DEF AppendedLayout
      <3>3. /\ parts[1] = <<u["magic"]>> /\ parts[2] = <<u["uidvalidity"]>>
            /\ parts[3] = <<u["uid"]>> /\ parts[4] = <<u["size_bytes"]>>
            /\ parts[5] = <<u["internal_date"]>> /\ parts[6] = <<u["duplicates"]>>
            /\ parts[7] = <<u["span_flags"]>> /\ parts[8] = <<u["message_id_span_start"]>>
            /\ parts[9] = <<u["message_id_span_end"]>> /\ parts[10] = <<u["subject_span_start"]>>
            /\ parts[11] = <<u["subject_span_end"]>> /\ parts[12] = Nullable(u["account_id"])
            /\ parts[13] = Nullable(u["mailbox_id"]) /\ parts[14] = Nullable(u["object_key"])
            /\ parts[15] = Nullable(u["message_id"]) /\ parts[16] = Nullable(u["subject"])
            /\ parts[17] = Nullable(u["from"]) /\ parts[18] = Nullable(u["to"])
            /\ parts[19] = Nullable(u["cc"]) /\ parts[20] = Nullable(u["bcc"])
            /\ parts[21] = Nullable(u["date"]) /\ parts[22] = List(u["system_flags"])
            /\ parts[23] = List(u["user_keywords"])
        BY <1>3, <2>4, <2>5 DEF AppendedParts
      <3>6. \A i \in 1 .. 23 : name[i] = AppendedLayout[i][2]
        OBVIOUS
      <3> HIDE DEF parts, name
      <3>4. /\ \A i \in 1 .. 11 : parts[i] = <<u[name[i]]>>
            /\ \A i \in 12 .. 21 : parts[i] = Nullable(u[name[i]])
            /\ \A i \in 22 .. 23 : parts[i] = List(u[name[i]])
        BY <3>2, <3>3
      <3>7. \A i \in 1 .. 23 : parts[i] = Put(AppendedLayout[i][1], u[name[i]])
        BY <3>1, <3>4, <3>5
      <3> QED BY <3>6, <3>7 DEF parts
    <2>3. Len(AppendedParts(e)) = 23 /\ AppendedParts(e) = [i \in 1 .. 23 |-> AppendedParts(e)[i]]
      BY DEF AppendedParts
    <2> QED BY <2>1, <2>2, <2>3, LaysAs, AppendedFields
  <1> DEFINE r == Read(Reading(cells), AppendedLayout)
  <1> HIDE DEF names, cells
  <1>6. r = Holding(<< >>, Restrict(u, names))
    BY <1>1, <1>5, ReadWhole, AppendedFields DEF names
  <1> HIDE DEF r
  <1>7. /\ r.ok /\ r.rest = << >> /\ Got(r) = Restrict(u, names \ Marks)
        /\ \A x \in names : r.got[x] = u[x]
    BY <1>6, GotIs
  <1>8. Whole(r, 1)
    BY <1>3, <1>7 DEF Whole, names, AppendedWords, AppendedNullables, AppendedLists
  <1> DEFINE flags == r.got["span_flags"]
             valid == [message_id_span_valid |-> flags % 2 = 1, subject_span_valid |-> (flags \div 2) % 2 = 1]
             g == Onto(valid, Without(Got(r), {"span_flags"}))
  <1>9. /\ flags = SpanFlags(e) /\ KnownSpanFlags(flags)
        /\ (flags % 2 = 1) = e.message_id_span_valid /\ ((flags \div 2) % 2 = 1) = e.subject_span_valid
    <2>1. flags = SpanFlags(e)
      BY <1>3, <1>7 DEF names, AppendedWords, AppendedNullables, AppendedLists
    <2>2. flags = (IF e.message_id_span_valid THEN 1 ELSE 0) + 2 * (IF e.subject_span_valid THEN 1 ELSE 0)
      BY <2>1 DEF SpanFlags, Bit
    <2> HIDE DEF flags
    <2>3. KnownSpanFlags(flags) /\ (flags % 2 = 1) = e.message_id_span_valid /\ ((flags \div 2) % 2 = 1) = e.subject_span_valid
      BY <1>2, <2>2 DEF KnownSpanFlags
    <2> QED BY <2>1, <2>3
  <1>10. g = e
    <2>1. Without(Got(r), {"span_flags"}) = Restrict(u, names \ {"magic", "span_flags"})
      <3>1. (names \ Marks) \ {"span_flags"} = names \ {"magic", "span_flags"}
        BY DEF names, Marks, AppendedWords, AppendedNullables, AppendedLists
      <3> QED BY <1>7, <3>1 DEF Without, Restrict
    <2> DEFINE w == Restrict(u, names \ {"magic", "span_flags"})
    <2>2. DOMAIN w = names \ {"magic", "span_flags"} /\ \A x \in names \ {"magic", "span_flags"} : w[x] = e[x]
      BY <1>3 DEF Restrict
    <2>3. DOMAIN valid = {"message_id_span_valid", "subject_span_valid"} /\ valid["message_id_span_valid"] = e.message_id_span_valid /\ valid["subject_span_valid"] = e.subject_span_valid
      <3> HIDE DEF flags
      <3> QED BY <1>9
    <2> HIDE DEF w, valid
    <2>4. g = Onto(valid, w)
      BY <2>1 DEF w
    <2> HIDE DEF g
    <2>5. IsFunction(g) /\ DOMAIN g = DOMAIN e /\ \A x \in DOMAIN e : g[x] = e[x]
      BY <1>2, <2>2, <2>3, <2>4 DEF IsFunction, Onto
    <2> QED BY <1>2, <2>5, SameValue
  <1> HIDE DEF g
  <1>11. DecodeAppended(cells) = IF Whole(r, 1) /\ KnownSpanFlags(flags) /\ ValidAppended(g) THEN g ELSE None
    BY DEF DecodeAppended, r, g
  <1>12. cells \in Seq(Nat) /\ cells # None
    BY <1>1, <1>5, PartsMake, NoneAssumption
  <1> QED BY <1>1, <1>8, <1>9, <1>10, <1>11, <1>12 DEF cells

(* The strings of a list read as they were written, whatever stands behind them. *)
LEMMA StringsBefore ==
  ASSUME NEW g, NEW name, NEW v \in Seq(CStrings), NEW b \in Seq(Nat)
  PROVE  /\ Strings(Holding(Each(Text, v) \o b, g), name, Len(v)) = Holding(b, Onto(Single(name, v), g))
         /\ Each(Text, v) \o b \in Seq(Nat)
  <1> DEFINE a == Each(Text, v)  c == a \o b
  <1>1. a \in Seq(Nat)
    BY TextsAre
  <1> HIDE DEF a
  <1>2. Begins(c, a) /\ Rest(c, Len(a)) = b /\ c \in Seq(Nat)
    BY <1>1, Halves
  <1> HIDE DEF c
  <1>3. Strings(Holding(c, g), name, Len(v)) = Holding(Rest(c, Len(a)), Onto(Single(name, v), g))
    BY <1>2, StringsRead DEF a
  <1>4. Strings(Holding(c, g), name, Len(v)) = Holding(b, Onto(Single(name, v), g))
    BY <1>2, <1>3
  <1> QED BY <1>2, <1>4 DEF c, a

(* Items one behind the other, each laid out as the others.                *)
Coded(layout, item, part) ==
  /\ IsFunction(item) /\ DOMAIN item = NamesOf(layout, Len(layout))
  /\ \E q : Lays(layout, item, q) /\ part = FlattenSeq(q)
AllCoded(layout, items, parts, n) ==
  /\ n \in Nat /\ items = [i \in 1 .. n |-> items[i]] /\ parts = [i \in 1 .. n |-> parts[i]]
  /\ \A i \in 1 .. n : Coded(layout, items[i], parts[i])

(* One item reads as it was written, and what is behind it is left. *)
LEMMA ItemReads ==
  ASSUME NEW layout, NEW item, NEW part, Coded(layout, item, part), Len(layout) >= 1
  PROVE  /\ part \in Seq(Nat) /\ Len(part) >= 1
         /\ \A c \in Seq(Nat) : Begins(c, part) => Read(Reading(c), layout) = Holding(Rest(c, Len(part)), item)
  <1>1. PICK q : Lays(layout, item, q) /\ part = FlattenSeq(q)
    BY DEF Coded
  <1>2. Len(layout) \in Nat
    BY <1>1 DEF Lays
  <1>3. part \in Seq(Nat) /\ Len(part) >= 1
    <2>1. part \in Seq(Nat) /\ Len(layout) <= Len(part)
      BY <1>1, PartsMake
    <2>2. Len(part) \in Nat
      BY <2>1
    <2> QED BY <1>2, <2>1, <2>2
  <1>4. ASSUME NEW c \in Seq(Nat), Begins(c, part)
        PROVE  Read(Reading(c), layout) = Holding(Rest(c, Len(part)), item)
    <2>1. IsFunction(<< >>)
      BY OntoNothing
    <2>2. Read(Holding(c, << >>), layout)
            = Holding(Rest(c, Len(FlattenSeq(q))), Onto(Restrict(item, NamesOf(layout, Len(layout))), << >>))
      BY <1>1, <1>4, <2>1, FieldsRead
    <2>3. Restrict(item, NamesOf(layout, Len(layout))) = item
      BY RestrictIs DEF Coded
    <2> QED BY <1>1, <2>2, <2>3, OntoNothing DEF Reading
  <1> QED BY <1>3, <1>4

(* The first items and the next one are the first items, one more. *)
LEMMA OneMore ==
  ASSUME NEW items, NEW n \in Nat, NEW i \in 1 .. n
  PROVE  Append([j \in 1 .. i - 1 |-> items[j]], items[i]) = [j \in 1 .. i |-> items[j]]
  <1> DEFINE S == {items[j] : j \in 1 .. n}  s == [j \in 1 .. i - 1 |-> items[j]]  t == [j \in 1 .. i |-> items[j]]
  <1>1. (\A j \in 1 .. i - 1 : items[j] \in S) /\ (\A j \in 1 .. i : items[j] \in S) /\ items[i] \in S /\ i - 1 \in Nat /\ i \in Nat
    OBVIOUS
  <1> HIDE DEF S
  <1>2. s \in Seq(S) /\ Len(s) = i - 1
    BY <1>1, MakesSeq
  <1>3. t \in Seq(S) /\ Len(t) = i
    BY <1>1, MakesSeq
  <1>4. (\A j \in 1 .. i - 1 : s[j] = items[j]) /\ \A j \in 1 .. i : t[j] = items[j]
    OBVIOUS
  <1> HIDE DEF s, t
  <1>5. /\ Append(s, items[i]) \in Seq(S) /\ Len(Append(s, items[i])) = i
        /\ \A j \in 1 .. i : Append(s, items[i])[j] = items[j]
    <2>1. /\ Append(s, items[i]) \in Seq(S) /\ Len(Append(s, items[i])) = Len(s) + 1
          /\ \A j \in 1 .. Len(s) : Append(s, items[i])[j] = s[j]
          /\ Append(s, items[i])[Len(s) + 1] = items[i]
      BY <1>1, <1>2, AppendProperties
    <2> QED BY <1>1, <1>2, <1>4, <2>1
  <1>6. Append(s, items[i]) = t
    BY <1>3, <1>4, <1>5, SeqEqual
  <1> QED BY <1>6 DEF s, t

(* Items read as they were written, whatever stands behind them. *)
LEMMA ItemsBefore ==
  ASSUME NEW g, NEW field, NEW layout, NEW items, NEW parts, NEW n, NEW b \in Seq(Nat),
         AllCoded(layout, items, parts, n), Len(layout) >= 1
  PROVE  /\ Items(Holding(FlattenSeq(parts) \o b, g), field, n, layout) = Holding(b, Onto(Single(field, items), g))
         /\ FlattenSeq(parts) \o b \in Seq(Nat)
  <1> DEFINE full == FlattenSeq(parts)  c == full \o b  r == Holding(c, g)
  <1>1. /\ n \in Nat /\ items = [i \in 1 .. n |-> items[i]] /\ parts = [i \in 1 .. n |-> parts[i]]
        /\ \A i \in 1 .. n : Coded(layout, items[i], parts[i])
    BY DEF AllCoded
  <1>2. \A i \in 1 .. n : parts[i] \in Seq(Nat) /\ Len(parts[i]) >= 1
    BY <1>1, ItemReads
  <1>3. parts \in Seq(Seq(Nat)) /\ Len(parts) = n
    BY <1>1, <1>2, MakesSeq
  <1>4. full \in Seq(Nat) /\ n <= Len(full)
    BY <1>2, <1>3, LongEnough
  <1> HIDE DEF full
  <1>5. Begins(c, full) /\ Rest(c, Len(full)) = b /\ c \in Seq(Nat)
    BY <1>4, Halves
  <1> HIDE DEF c
  <1>6. PICK R : Leaves(R, c, parts, n)
    BY <1>3, <1>5, LeftOver DEF full
  <1>7. /\ R[0] = c /\ R[n] = b
        /\ \A i \in 0 .. n : R[i] \in Seq(Nat)
        /\ \A i \in 1 .. n : Begins(R[i - 1], parts[i]) /\ R[i] = Rest(R[i - 1], Len(parts[i]))
    BY <1>5, <1>6 DEF Leaves, full
  <1>8. r.ok /\ r.rest = c /\ r.got = g
    BY HoldingIs
  <1> HIDE DEF r
  <1>9. PICK F : ItemRun(F, layout, r, n)
    BY <1>1, ItemTrace
  <1>10. F[0] = Holding(c, << >>) /\ F[n] = ReadItems(r, n, layout) /\ \A i \in 1 .. n : F[i] = ReadItem(F[i - 1], layout)
    BY <1>8, <1>9 DEF ItemRun, Reading
  <1> DEFINE G(i) == [j \in 1 .. i |-> items[j]]
             Good == {i \in 0 .. n : F[i] = Holding(R[i], G(i))}
  <1>11. 0 \in Good
    <2>1. G(0) = << >>
      OBVIOUS
    <2> QED BY <1>1, <1>7, <1>10, <2>1
  <1>12. ASSUME NEW i \in 1 .. n, i - 1 \in Good PROVE i \in Good
    <2>1. i - 1 \in 0 .. n /\ i \in 0 .. n
      BY <1>1
    <2>2. F[i - 1] = Holding(R[i - 1], G(i - 1)) /\ F[i] = ReadItem(F[i - 1], layout)
      BY <1>10, <1>12
    <2>3. R[i - 1] \in Seq(Nat) /\ Begins(R[i - 1], parts[i]) /\ R[i] = Rest(R[i - 1], Len(parts[i]))
      BY <1>7, <2>1
    <2>4. Read(Reading(R[i - 1]), layout) = Holding(R[i], items[i])
      BY <1>1, <2>3, ItemReads
    <2>5. Append(G(i - 1), items[i]) = G(i)
      BY <1>1, OneMore
    <2> HIDE DEF G
    <2> DEFINE s == F[i - 1]
    <2>6. s.ok /\ s.rest = R[i - 1] /\ s.got = G(i - 1)
      BY <2>2, HoldingIs
    <2> HIDE DEF s
    <2>7. Holding(R[i], items[i]).ok /\ Holding(R[i], items[i]).rest = R[i] /\ Holding(R[i], items[i]).got = items[i]
      BY HoldingIs
    <2>8. ReadItem(s, layout) = Holding(R[i], Append(G(i - 1), items[i]))
      BY <2>4, <2>6, <2>7 DEF ReadItem
    <2>9. F[i] = Holding(R[i], G(i))
      BY <2>2, <2>5, <2>8 DEF s
    <2> QED BY <2>1, <2>9
  <1>13. F[n] = Holding(R[n], G(n))
    <2> HIDE DEF Good
    <2>1. \A i \in 0 .. n : i \in Good
      BY <1>1, <1>11, <1>12, Induction
    <2>2. n \in Good
      BY <1>1, <2>1
    <2> QED BY <2>2 DEF Good
  <1>14. ReadItems(r, n, layout) = Holding(b, items)
    BY <1>1, <1>7, <1>10, <1>13
  <1>15. ~(n > Len(c))
    <2>1. Len(full) <= Len(c) /\ Len(full) \in Nat /\ Len(c) \in Nat
      BY <1>4, <1>5 DEF Begins
    <2> QED BY <1>1, <1>4, <2>1
  <1> DEFINE all == ReadItems(r, n, layout)
  <1>16. all.ok /\ all.rest = b /\ all.got = items
    BY <1>14, HoldingIs
  <1>17. Items(r, field, n, layout) = IF ~r.ok \/ n > Len(r.rest) THEN Refused
           ELSE IF all.ok THEN Holding(all.rest, Onto(Single(field, all.got), r.got)) ELSE Refused
    BY DEF Items
  <1> HIDE DEF all
  <1>18. Items(r, field, n, layout) = Holding(b, Onto(Single(field, items), g))
    BY <1>8, <1>15, <1>16, <1>17
  <1> QED BY <1>5, <1>18 DEF r, c, full

(* A change of flags reads as it was written.                               *)
LEMMA FlagsRead ==
  ASSUME NEW e \in EventTypes("flags"), ValidFlags(e)
  PROVE  /\ EncodeFlags(e) \in Seq(Nat) /\ EncodeFlags(e) # None /\ DecodeFlags(EncodeFlags(e)) = e
         /\ \E c, g : /\ Read(Reading(EncodeFlags(e)), FlagsLayout) = Holding(c, g)
                     /\ g["n_flags"] \in Nat /\ g["n_keywords"] \in Nat
  <1> DEFINE u == Onto([magic |-> 1, n_flags |-> Len(e.system_flags), n_keywords |-> Len(e.user_keywords)], e)
             names == FlagsWords \cup FlagsStrings
             cells == EncodeFlags(e)
  <1>1. ValidFlags(e) /\ cells = FlattenSeq(FlagsParts(e)) \o Each(Text, e.system_flags) \o Each(Text, e.user_keywords)
    BY DEF EncodeFlags
  <1>2. /\ DOMAIN e = (names \ {"magic", "n_flags", "n_keywords"}) \cup {"system_flags", "user_keywords"} /\ IsFunction(e)
        /\ \A x \in FlagsWords \ {"magic", "n_flags", "n_keywords"} : e[x] \in Nat
        /\ \A x \in FlagsStrings : e[x] \in Nullables
        /\ e.system_flags \in Seq(CStrings) /\ e.user_keywords \in Seq(CStrings)
    BY DEF EventTypes, IsFunction, FlagsWords, FlagsStrings
  <1>3. /\ u["magic"] = 1 /\ u["n_flags"] = Len(e.system_flags) /\ u["n_keywords"] = Len(e.user_keywords)
        /\ \A x \in names \ {"magic", "n_flags", "n_keywords"} : u[x] = e[x]
    BY <1>2 DEF Onto, FlagsWords, FlagsStrings
  <1> HIDE DEF u
  <1>4. \A x \in FlagsStrings : e[x] \in CStrings /\ e[x] # << >> /\ e[x] # None
    BY <1>1, <1>2, NoneAssumption DEF ValidFlags, Required, Nullables, FlagsWords, FlagsStrings
  <1>5. Lays(FlagsLayout, u, FlagsParts(e))
    <2>0. Len(e.system_flags) \in Nat /\ Len(e.user_keywords) \in Nat
      BY <1>2
    <2>1. Suits(u, FlagsWords, FlagsStrings, {}, {}, {})
      BY <1>2, <1>3, <1>4, <2>0 DEF Suits, FlagsWords, FlagsStrings
    <2>4. /\ u["uid"] = e.uid /\ u["uidvalidity"] = e.uidvalidity /\ u["mode"] = e.mode
          /\ u["account_id"] = e.account_id /\ u["mailbox_id"] = e.mailbox_id
      BY <1>3 DEF FlagsWords, FlagsStrings
    <2>2. \A i \in 1 .. 8 : FlagsParts(e)[i] = Put(FlagsLayout[i][1], u[FlagsLayout[i][2]])
      BY <1>3, <2>4, Kinds5 DEF FlagsParts, FlagsLayout
    <2>3. Len(FlagsParts(e)) = 8 /\ FlagsParts(e) = [i \in 1 .. 8 |-> FlagsParts(e)[i]]
      BY DEF FlagsParts
    <2> QED BY <2>1, <2>2, <2>3, LaysAs, FlagsFields
  <1> DEFINE f == e.system_flags  k == e.user_keywords
             a == Each(Text, f)  b == Each(Text, k)
             h == Read(Reading(cells), FlagsLayout)
             r == Strings(Strings(h, "system_flags", h.got["n_flags"]), "user_keywords", h.got["n_keywords"])
  <1>6. a \in Seq(Nat) /\ b \in Seq(Nat)
    BY <1>2, TextsAre
  <1>7. cells = FlattenSeq(FlagsParts(e)) \o (a \o b) /\ a \o b \in Seq(Nat) /\ cells \in Seq(Nat) /\ cells # None
    <2>1. FlattenSeq(FlagsParts(e)) \in Seq(Nat)
      BY <1>5, PartsMake
    <2> DEFINE x == FlattenSeq(FlagsParts(e))
    <2> HIDE DEF x, a, b
    <2>2. x \in Seq(Nat)
      BY <2>1 DEF x
    <2>3. (x \o a) \o b = x \o (a \o b) /\ a \o b \in Seq(Nat) /\ x \o (a \o b) \in Seq(Nat)
      BY <1>6, <2>2, ConcatAssociative, ConcatProperties
    <2> QED BY <1>1, <2>3, NoneAssumption DEF x, a, b
  <1> HIDE DEF names, cells, a, b
  <1>8. h = Holding(a \o b, Restrict(u, names))
    BY <1>5, <1>7, ReadHead, FlagsFields DEF names
  <1> HIDE DEF h
  <1>9. h.got["magic"] = 1 /\ h.got["n_flags"] = Len(f) /\ h.got["n_keywords"] = Len(k)
    <2> HIDE DEF f, k
    <2>1. h.got = Restrict(u, names)
      BY <1>8, HoldingIs
    <2>2. \A x \in names : h.got[x] = u[x]
      BY <2>1 DEF Restrict
    <2>3. {"magic", "n_flags", "n_keywords"} \subseteq names
      BY DEF names, FlagsWords, FlagsStrings
    <2> QED BY <1>3, <2>2, <2>3 DEF f, k
  <1> DEFINE s == Restrict(u, names)  t == Onto(Single("system_flags", f), s)  w == Onto(Single("user_keywords", k), t)
  <1>10. Strings(h, "system_flags", Len(f)) = Holding(b, t)
    <2> HIDE DEF s, t
    <2>1. Strings(Holding(Each(Text, f) \o b, s), "system_flags", Len(f)) = Holding(b, Onto(Single("system_flags", f), s))
      BY <1>2, <1>6, StringsBefore
    <2> QED BY <1>8, <2>1 DEF a, s, t
  <1>11. Strings(Holding(b, t), "user_keywords", Len(k)) = Holding(<< >>, w)
    <2> HIDE DEF t, w
    <2>1. << >> \in Seq(Nat) /\ b \o << >> = b
      BY <1>6, ConcatEmptySeq
    <2>2. Strings(Holding(Each(Text, k) \o << >>, t), "user_keywords", Len(k)) = Holding(<< >>, Onto(Single("user_keywords", k), t))
      BY <1>2, <2>1, StringsBefore
    <2> QED BY <2>1, <2>2 DEF b, w
  <1>12. r = Holding(<< >>, w)
    BY <1>9, <1>10, <1>11
  <1>13. DOMAIN w = DOMAIN e \cup (Marks \ {"count"}) /\ (\A x \in DOMAIN e : w[x] = e[x]) /\ w["magic"] = 1
    <2>1. DOMAIN s = names /\ \A x \in names : s[x] = u[x]
      BY DEF Restrict
    <2> HIDE DEF s
    <2>2. DOMAIN w = names \cup {"system_flags", "user_keywords"}
      BY <2>1 DEF Onto, Single
    <2>3. w["system_flags"] = f /\ w["user_keywords"] = k /\ \A x \in names : w[x] = u[x]
      <3>1. "system_flags" \notin names /\ "user_keywords" \notin names
        BY DEF names, FlagsWords, FlagsStrings
      <3> QED BY <2>1, <3>1 DEF Onto, Single
    <2> HIDE DEF w
    <2>4. {"magic", "n_flags", "n_keywords"} \subseteq names
      BY DEF names, FlagsWords, FlagsStrings
    <2> QED BY <1>2, <1>3, <2>2, <2>3, <2>4 DEF Marks
  <1> HIDE DEF w
  <1>14. r.ok /\ r.rest = << >> /\ r.got = w
    BY <1>12, HoldingIs
  <1> HIDE DEF r
  <1>15. Whole(r, 1) /\ Got(r) = e
    <2>1. DOMAIN w \ Marks = DOMAIN e
      BY <1>2, <1>13 DEF Marks, names, FlagsWords, FlagsStrings
    <2>2. Got(r) = Restrict(w, DOMAIN e)
      BY <1>14, <2>1 DEF Got, Without, Marks
    <2>3. Restrict(w, DOMAIN e) = e
      BY <1>2, <1>13, RestrictIs
    <2> QED BY <1>13, <1>14, <2>2, <2>3 DEF Whole
  <1>17. \E c, g : Read(Reading(cells), FlagsLayout) = Holding(c, g) /\ g["n_flags"] \in Nat /\ g["n_keywords"] \in Nat
    <2> DEFINE g == Restrict(u, names)
    <2>1. h.got = g
      BY <1>8, HoldingIs
    <2>2. Len(f) \in Nat /\ Len(k) \in Nat
      BY <1>2
    <2> HIDE DEF g, f, k
    <2>3. g["n_flags"] \in Nat /\ g["n_keywords"] \in Nat
      BY <1>9, <2>1, <2>2
    <2>4. Read(Reading(cells), FlagsLayout) = Holding(a \o b, g)
      BY <1>8 DEF h, g
    <2> QED BY <2>3, <2>4
  <1>16. DecodeFlags(cells) = IF Whole(r, 1) /\ ValidFlags(Got(r)) THEN Got(r) ELSE None
    BY DEF DecodeFlags, r, h
  <1> QED BY <1>1, <1>7, <1>15, <1>16, <1>17 DEF cells

(* An expunge reads as it was written.                                      *)
LEMMA ExpungedRead ==
  ASSUME NEW e \in EventTypes("expunged"), ValidExpunged(e)
  PROVE  EncodeExpunged(e) \in Seq(Nat) /\ EncodeExpunged(e) # None /\ DecodeExpunged(EncodeExpunged(e)) = e
  <1> DEFINE u == Onto([magic |-> 1, count |-> Len(e.uids)], e)
             names == ExpungedWords \cup ExpungedStrings
             cells == EncodeExpunged(e)
  <1>1. ValidExpunged(e) /\ cells = FlattenSeq(ExpungedParts(e)) \o e.uids
    BY DEF EncodeExpunged
  <1>2. /\ DOMAIN e = (names \ {"magic", "count"}) \cup {"uids"} /\ IsFunction(e)
        /\ e.uidvalidity \in Nat
        /\ \A x \in ExpungedStrings : e[x] \in Nullables
        /\ e.uids \in Seq(Nat)
    BY DEF EventTypes, IsFunction, ExpungedWords, ExpungedStrings
  <1>3. /\ u["magic"] = 1 /\ u["count"] = Len(e.uids)
        /\ \A x \in names \ {"magic", "count"} : u[x] = e[x]
    BY <1>2 DEF Onto, ExpungedWords, ExpungedStrings
  <1> HIDE DEF u
  <1>4. \A x \in ExpungedStrings : e[x] \in CStrings /\ e[x] # << >> /\ e[x] # None
    BY <1>1, <1>2, NoneAssumption DEF ValidExpunged, Required, Nullables, ExpungedWords, ExpungedStrings
  <1>5. Lays(ExpungedLayout, u, ExpungedParts(e))
    <2>0. Len(e.uids) \in Nat
      BY <1>2
    <2>1. Suits(u, ExpungedWords, ExpungedStrings, {}, {}, {})
      BY <1>2, <1>3, <1>4, <2>0 DEF Suits, ExpungedWords, ExpungedStrings
    <2>4. /\ u["uidvalidity"] = e.uidvalidity /\ u["account_id"] = e.account_id
          /\ u["mailbox_id"] = e.mailbox_id
      BY <1>3 DEF ExpungedWords, ExpungedStrings
    <2>2. \A i \in 1 .. 5 : ExpungedParts(e)[i] = Put(ExpungedLayout[i][1], u[ExpungedLayout[i][2]])
      BY <1>3, <2>4, Kinds5 DEF ExpungedParts, ExpungedLayout
    <2>3. Len(ExpungedParts(e)) = 5 /\ ExpungedParts(e) = [i \in 1 .. 5 |-> ExpungedParts(e)[i]]
      BY DEF ExpungedParts
    <2> QED BY <2>1, <2>2, <2>3, LaysAs, ExpungedFields
  <1> DEFINE r == Read(Reading(cells), ExpungedLayout)
             g == Onto([uids |-> r.rest], Got(r))
  <1> HIDE DEF names, cells
  <1>6. r = Holding(e.uids, Restrict(u, names))
    BY <1>1, <1>2, <1>5, ReadHead, ExpungedFields DEF names
  <1> HIDE DEF r
  <1>7. /\ r.ok /\ r.rest = e.uids /\ Got(r) = Restrict(u, names \ Marks)
        /\ \A x \in names : r.got[x] = u[x]
    BY <1>6, GotIs
  <1>8. r.got["magic"] = 1 /\ Counted(r)
    BY <1>3, <1>7 DEF Counted, names, ExpungedWords, ExpungedStrings
  <1>9. g = e
    <2> DEFINE w == Got(r)  x == [uids |-> r.rest]
    <2>1. names \ Marks = DOMAIN e \ {"uids"} /\ "uids" \notin names
      BY <1>2 DEF names, Marks, ExpungedWords, ExpungedStrings
    <2>2. DOMAIN w = DOMAIN e \ {"uids"} /\ \A y \in DOMAIN e \ {"uids"} : w[y] = u[y]
      BY <1>7, <2>1 DEF Restrict
    <2>3. DOMAIN x = {"uids"} /\ x["uids"] = e.uids
      BY <1>7
    <2> HIDE DEF w, x
    <2>4. \A y \in DOMAIN e \ {"uids"} : u[y] = e[y]
      BY <1>2, <1>3
    <2>5. "uids" \in DOMAIN e
      BY <1>2
    <2>6. Onto(x, w) = e
      <3> DEFINE z == Onto(x, w)
      <3>1. IsFunction(z) /\ DOMAIN z = DOMAIN e /\ \A y \in DOMAIN e : z[y] = e[y]
        BY <2>2, <2>3, <2>4, <2>5 DEF Onto, IsFunction
      <3> HIDE DEF z
      <3>2. z = e
        BY <1>2, <3>1, SameValue
      <3> QED BY <3>2 DEF z
    <2> QED BY <2>6 DEF x, w
  <1> HIDE DEF g
  <1>10. DecodeExpunged(cells) = IF r.ok /\ r.got["magic"] = 1 /\ Counted(r) /\ ValidExpunged(g) THEN g ELSE None
    BY DEF DecodeExpunged, r, g
  <1>11. cells \in Seq(Nat) /\ cells # None
    <2>1. FlattenSeq(ExpungedParts(e)) \in Seq(Nat)
      BY <1>5, PartsMake
    <2>2. FlattenSeq(ExpungedParts(e)) \o e.uids \in Seq(Nat)
      BY <1>2, <2>1, ConcatProperties
    <2> QED BY <1>1, <2>2, NoneAssumption
  <1> QED BY <1>1, <1>7, <1>8, <1>9, <1>10, <1>11 DEF cells

(* Items behind a head that counts them.                                   *)
Counts(layout, u, parts, inner, items, pieces, n, names, cells) ==
  /\ Lays(layout, u, parts) /\ names = NamesOf(layout, Len(layout))
  /\ AllCoded(inner, items, pieces, n) /\ Len(inner) >= 1
  /\ "count" \in names /\ u["count"] = n
  /\ cells = FlattenSeq(parts) \o FlattenSeq(pieces)

(* A head that holds a count.                                             *)
Counting(head) == \E c, g : head = Holding(c, g) /\ g["count"] \in Nat

(* A counted list of items reads as it was written. *)
LEMMA ItemsRead ==
  ASSUME NEW layout, NEW u, NEW parts, NEW inner, NEW items, NEW pieces, NEW n, NEW field, NEW names,
         NEW cells, Counts(layout, u, parts, inner, items, pieces, n, names, cells),
         NEW head, head = Read(Reading(cells), layout)
  PROVE  /\ Items(head, field, head.got["count"], inner)
              = Holding(<< >>, Onto(Single(field, items), Restrict(u, names)))
         /\ cells \in Seq(Nat) /\ Counting(head)
  <1> DEFINE b == FlattenSeq(pieces)  s == Restrict(u, names)
  <1>0. /\ Lays(layout, u, parts) /\ names = NamesOf(layout, Len(layout))
        /\ AllCoded(inner, items, pieces, n) /\ Len(inner) >= 1 /\ "count" \in names /\ u["count"] = n
        /\ cells = FlattenSeq(parts) \o FlattenSeq(pieces)
    BY DEF Counts
  <1>1. /\ n \in Nat /\ pieces = [i \in 1 .. n |-> pieces[i]]
        /\ \A i \in 1 .. n : Coded(inner, items[i], pieces[i])
    BY <1>0 DEF AllCoded
  <1>2. \A i \in 1 .. n : pieces[i] \in Seq(Nat) /\ Len(pieces[i]) >= 1
    BY <1>0, <1>1, ItemReads
  <1>3. pieces \in Seq(Seq(Nat)) /\ Len(pieces) = n
    BY <1>1, <1>2, MakesSeq
  <1>4. b \in Seq(Nat)
    BY <1>2, <1>3, LongEnough
  <1> HIDE DEF b, s
  <1>5. head = Holding(b, s)
    BY <1>0, <1>4, ReadHead DEF b, s
  <1>6. head.got["count"] = n
    <2>1. head.got = s
      BY <1>5, HoldingIs
    <2> QED BY <1>0, <2>1 DEF s, Restrict
  <1>7. << >> \in Seq(Nat) /\ b \o << >> = b
    BY <1>4, ConcatEmptySeq
  <1>8. Items(Holding(b \o << >>, s), field, n, inner) = Holding(<< >>, Onto(Single(field, items), s))
    <2> DEFINE z == << >>
    <2>1. z \in Seq(Nat)
      BY <1>7
    <2> HIDE DEF z
    <2>2. Items(Holding(FlattenSeq(pieces) \o z, s), field, n, inner) = Holding(z, Onto(Single(field, items), s))
      BY <1>0, <2>1, ItemsBefore
    <2> QED BY <2>2 DEF z, b
  <1>9. cells \in Seq(Nat)
    <2>1. FlattenSeq(parts) \in Seq(Nat)
      BY <1>0, PartsMake
    <2>2. FlattenSeq(parts) \o b \in Seq(Nat)
      BY <1>4, <2>1, ConcatProperties
    <2> QED BY <1>0, <2>2 DEF b
  <1>10. Counting(head)
    <2>1. s["count"] \in Nat
      <3>1. head.got = s
        BY <1>5, HoldingIs
      <3> QED BY <1>1, <1>6, <3>1
    <2> QED BY <1>5, <2>1 DEF Counting
  <1> QED BY <1>5, <1>6, <1>7, <1>8, <1>9, <1>10 DEF s

(* The fields of the head and the items are the value.                     *)
Makes(u, names, field, items, e) ==
  /\ IsFunction(e) /\ DOMAIN e = (names \ Marks) \cup {field} /\ field \notin names /\ field \notin Marks
  /\ e[field] = items /\ \A x \in names \ Marks : u[x] = e[x]

(* What a decoder takes of a head and its items. *)
LEMMA ItemsGot ==
  ASSUME NEW u, NEW names, NEW field, NEW items, NEW e, NEW r,
         r = Holding(<< >>, Onto(Single(field, items), Restrict(u, names))), Makes(u, names, field, items, e)
  PROVE  r.ok /\ r.rest = << >> /\ Got(r) = e /\ \A x \in names : r.got[x] = u[x]
  <1> DEFINE s == Restrict(u, names)  w == Onto(Single(field, items), s)
  <1>1. DOMAIN s = names /\ \A x \in names : s[x] = u[x]
    BY DEF Restrict
  <1> HIDE DEF s
  <1>2. /\ DOMAIN w = names \cup {field} /\ w[field] = items
        /\ \A x \in names : w[x] = u[x]
    BY <1>1 DEF Onto, Single, Makes
  <1> HIDE DEF w
  <1>3. r.ok /\ r.rest = << >> /\ r.got = w
    BY HoldingIs DEF w, s
  <1>4. Got(r) = Restrict(w, DOMAIN e)
    <2>1. DOMAIN w \ Marks = DOMAIN e
      BY <1>2 DEF Makes
    <2> QED BY <1>3, <2>1 DEF Got, Without, Marks
  <1>5. Restrict(w, DOMAIN e) = e
    BY <1>2, RestrictIs DEF Makes
  <1> QED BY <1>2, <1>3, <1>4, <1>5

(* A copied message is laid out as an item. *)
LEMMA ItemCoded ==
  ASSUME NEW i \in ItemTypes, Required(i.message_id)
  PROVE  Coded(ItemLayout, i, EncodeItem(i))
  <1> DEFINE names == ItemWords \cup ItemStrings \cup ItemLists
  <1>1. /\ DOMAIN i = names /\ IsFunction(i)
        /\ \A x \in ItemWords : i[x] \in Nat
        /\ \A x \in ItemStrings : i[x] \in Nullables
        /\ \A x \in ItemLists : i[x] \in Seq(CStrings)
    BY DEF ItemTypes, IsFunction, ItemWords, ItemStrings, ItemLists
  <1>2. \A x \in ItemStrings : i[x] \in CStrings
    BY <1>1 DEF Required, Nullables, ItemStrings
  <1>3. Lays(ItemLayout, i, ItemParts(i))
    <2>1. Suits(i, ItemWords, ItemStrings, {}, {}, ItemLists)
      BY <1>1, <1>2 DEF Suits
    <2>2. \A j \in 1 .. 6 : ItemParts(i)[j] = Put(ItemLayout[j][1], i[ItemLayout[j][2]])
      BY Kinds5 DEF ItemParts, ItemLayout
    <2>3. Len(ItemParts(i)) = 6 /\ ItemParts(i) = [j \in 1 .. 6 |-> ItemParts(i)[j]]
      BY DEF ItemParts
    <2> QED BY <2>1, <2>2, <2>3, LaysAs, ItemFields
  <1> QED BY <1>1, <1>3, ItemFields DEF Coded, EncodeItem

(* A fact is laid out as an item. *)
LEMMA FactCoded ==
  ASSUME NEW f \in FactTexts, Required(f.predicate), Required(f.source)
  PROVE  Coded(FactLayout, f, EncodeFact(f))
  <1> DEFINE names == FactWords \cup FactNonempties \cup FactLists
  <1>1. /\ DOMAIN f = names /\ IsFunction(f)
        /\ \A x \in FactWords : f[x] \in Nat
        /\ \A x \in FactNonempties : f[x] \in Nullables
        /\ \A x \in FactLists : f[x] \in Seq(CStrings)
    BY DEF FactTexts, IsFunction, FactWords, FactNonempties, FactLists
  <1>2. \A x \in FactNonempties : f[x] \in CStrings /\ f[x] # << >>
    BY <1>1 DEF Required, Nullables, FactNonempties
  <1>3. Lays(FactLayout, f, FactParts(f))
    <2>1. Suits(f, FactWords, {}, FactNonempties, {}, FactLists)
      BY <1>1, <1>2 DEF Suits
    <2>2. \A j \in 1 .. 4 : FactParts(f)[j] = Put(FactLayout[j][1], f[FactLayout[j][2]])
      BY Kinds5 DEF FactParts, FactLayout
    <2>3. Len(FactParts(f)) = 4 /\ FactParts(f) = [j \in 1 .. 4 |-> FactParts(f)[j]]
      BY DEF FactParts
    <2> QED BY <2>1, <2>2, <2>3, LaysAs, FactFields
  <1> QED BY <1>1, <1>3, FactFields DEF Coded, EncodeFact

(* A copy reads as it was written.                                         *)
LEMMA CopiedRead ==
  ASSUME NEW e \in EventTypes("copied"), EncodeCopied(e) # None
  PROVE  /\ EncodeCopied(e) \in Seq(Nat) /\ DecodeCopied(EncodeCopied(e)) = e
         /\ Counting(Read(Reading(EncodeCopied(e)), CopiedLayout))
  <1> DEFINE items == e.items  n == Len(items)
             u == Onto([magic |-> 1, count |-> n], e)
             names == CopiedWords \cup CopiedStrings
             cells == EncodeCopied(e)
             pieces == [i \in DOMAIN items |-> EncodeItem(items[i])]
  <1>1. ValidCopied(e) /\ cells = FlattenSeq(CopiedParts(e)) \o Each(EncodeItem, items)
    BY DEF EncodeCopied
  <1>2. /\ DOMAIN e = (names \ {"magic", "count"}) \cup {"items"} /\ IsFunction(e)
        /\ e.source_uidvalidity \in Nat /\ e.dest_uidvalidity \in Nat
        /\ \A x \in CopiedStrings : e[x] \in Nullables
        /\ items \in Seq(ItemTypes) /\ items = e["items"]
    BY DEF EventTypes, IsFunction, CopiedWords, CopiedStrings
  <1>3. /\ u["magic"] = 1 /\ u["count"] = n
        /\ \A x \in names \ {"magic", "count"} : u[x] = e[x]
    BY <1>2 DEF Onto, CopiedWords, CopiedStrings
  <1> HIDE DEF u
  <1>4. \A x \in CopiedStrings : e[x] \in CStrings
    BY <1>1, <1>2 DEF ValidCopied, Required, Nullables, CopiedStrings
  <1>5. Lays(CopiedLayout, u, CopiedParts(e))
    <2>0. n \in Nat
      BY <1>2
    <2> HIDE DEF n
    <2>1. Suits(u, CopiedWords, CopiedStrings, {}, {}, {})
      BY <1>2, <1>3, <1>4, <2>0 DEF Suits, CopiedWords, CopiedStrings
    <2>4. /\ u["source_uidvalidity"] = e.source_uidvalidity /\ u["dest_uidvalidity"] = e.dest_uidvalidity
          /\ u["account_id"] = e.account_id /\ u["source_mailbox_id"] = e.source_mailbox_id
          /\ u["dest_mailbox_id"] = e.dest_mailbox_id /\ u["count"] = Len(e.items)
      BY <1>3 DEF CopiedWords, CopiedStrings, n
    <2>2. \A i \in 1 .. 7 : CopiedParts(e)[i] = Put(CopiedLayout[i][1], u[CopiedLayout[i][2]])
      BY <1>3, <2>4, Kinds5 DEF CopiedParts, CopiedLayout
    <2>3. Len(CopiedParts(e)) = 7 /\ CopiedParts(e) = [i \in 1 .. 7 |-> CopiedParts(e)[i]]
      BY DEF CopiedParts
    <2> QED BY <2>1, <2>2, <2>3, LaysAs, CopiedFields
  <1>6. AllCoded(ItemLayout, items, pieces, n)
    <2>1. \A i \in 1 .. n : items[i] \in ItemTypes /\ Required(items[i].message_id)
      BY <1>1, <1>2 DEF ValidCopied, ToSet
    <2>2. \A i \in 1 .. n : Coded(ItemLayout, items[i], EncodeItem(items[i]))
      BY <2>1, ItemCoded
    <2>3. n \in Nat /\ DOMAIN items = 1 .. n /\ items = [i \in 1 .. n |-> items[i]]
      BY <1>2
    <2> HIDE DEF items, n
    <2> QED BY <2>2, <2>3 DEF AllCoded
  <1>7. cells = FlattenSeq(CopiedParts(e)) \o FlattenSeq(pieces)
    BY <1>1 DEF Each
  <1> DEFINE h == Read(Reading(cells), CopiedLayout)
             r == Items(h, "items", h.got["count"], ItemLayout)
  <1> HIDE DEF items, n, names, cells, pieces, h
  <1>8. /\ r = Holding(<< >>, Onto(Single("items", items), Restrict(u, names)))
        /\ cells \in Seq(Nat) /\ Counting(h)
    <2>1. names = NamesOf(CopiedLayout, Len(CopiedLayout)) /\ "count" \in names
      BY CopiedFields DEF names, CopiedWords
    <2>2. Len(ItemLayout) >= 1
      BY ItemFields
    <2>3. Counts(CopiedLayout, u, CopiedParts(e), ItemLayout, items, pieces, n, names, cells)
      BY <1>3, <1>5, <1>6, <1>7, <2>1, <2>2 DEF Counts
    <2>4. h = Read(Reading(cells), CopiedLayout)
      BY DEF h
    <2>5. /\ Items(h, "items", h.got["count"], ItemLayout) = Holding(<< >>, Onto(Single("items", items), Restrict(u, names)))
          /\ cells \in Seq(Nat) /\ Counting(h)
      <3> HIDE DEF r
      <3> QED BY <2>3, <2>4, ItemsRead
    <2> QED BY <2>5
  <1> HIDE DEF r
  <1>9. r.ok /\ r.rest = << >> /\ Got(r) = e /\ \A x \in names : r.got[x] = u[x]
    <2>1. /\ DOMAIN e = (names \ Marks) \cup {"items"} /\ "items" \notin names /\ "items" \notin Marks
          /\ names \ Marks = names \ {"magic", "count"}
      BY <1>2 DEF names, Marks, CopiedWords, CopiedStrings
    <2>2. Makes(u, names, "items", items, e)
      BY <1>2, <1>3, <2>1 DEF Makes
    <2> QED BY <1>8, <2>2, ItemsGot
  <1>10. Whole(r, 1)
    <2>1. "magic" \in names
      BY DEF names, CopiedWords
    <2> QED BY <1>3, <1>9, <2>1 DEF Whole
  <1>11. DecodeCopied(cells) = IF Whole(r, 1) /\ ValidCopied(Got(r)) THEN Got(r) ELSE None
    BY DEF DecodeCopied, r, h
  <1> QED BY <1>1, <1>8, <1>9, <1>10, <1>11 DEF cells, h

(* Extracted facts read as they were written, if they are fact records.     *)
LEMMA FactsRead ==
  ASSUME NEW e \in EventTypes("facts"), EncodeFacts(e) # None
  PROVE  /\ EncodeFacts(e) \in Seq(Nat) /\ DecodeFacts(EncodeFacts(e)) = e
         /\ Counting(Read(Reading(EncodeFacts(e)), FactsLayout))
  <1> DEFINE items == e.facts  n == Len(items)
             u == Onto([magic |-> 1, count |-> n], e)
             names == FactsWords \cup FactsNonempties
             cells == EncodeFacts(e)
             pieces == [i \in DOMAIN items |-> EncodeFact(items[i])]
  <1>1. /\ cells = FlattenSeq(FactsParts(e)) \o Each(EncodeFact, items)
        /\ Required(e.account_id) /\ Required(e.message_id)
        /\ \A f \in ToSet(items) : NamesMessage(f, e.message_id) /\ Required(f.predicate) /\ Required(f.source)
    BY DEF EncodeFacts
  <1>2. /\ DOMAIN e = (names \ {"magic", "count"}) \cup {"facts"} /\ IsFunction(e)
        /\ e.extracted_at \in Nat /\ e.extracted_at # 0
        /\ \A x \in FactsNonempties : e[x] \in Nullables
        /\ items \in Seq(FactTypes) /\ items = e["facts"]
    BY DEF EventTypes, IsFunction, FactsWords, FactsNonempties
  <1>3. /\ u["magic"] = 1 /\ u["count"] = n
        /\ \A x \in names \ {"magic", "count"} : u[x] = e[x]
    BY <1>2 DEF Onto, FactsWords, FactsNonempties
  <1> HIDE DEF u
  <1>4. \A x \in FactsNonempties : e[x] \in CStrings /\ e[x] # << >>
    BY <1>1, <1>2 DEF Required, Nullables, FactsNonempties
  <1>5. Lays(FactsLayout, u, FactsParts(e))
    <2>0. n \in Nat
      BY <1>2
    <2> HIDE DEF n
    <2>1. Suits(u, FactsWords, {}, FactsNonempties, {}, {})
      BY <1>2, <1>3, <1>4, <2>0 DEF Suits, FactsWords, FactsNonempties
    <2>4. /\ u["extracted_at"] = e.extracted_at /\ u["account_id"] = e.account_id
          /\ u["message_id"] = e.message_id /\ u["count"] = Len(e.facts)
      BY <1>3 DEF FactsWords, FactsNonempties, n
    <2>2. \A i \in 1 .. 5 : FactsParts(e)[i] = Put(FactsLayout[i][1], u[FactsLayout[i][2]])
      BY <1>3, <2>4, Kinds5 DEF FactsParts, FactsLayout
    <2>3. Len(FactsParts(e)) = 5 /\ FactsParts(e) = [i \in 1 .. 5 |-> FactsParts(e)[i]]
      BY DEF FactsParts
    <2> QED BY <2>1, <2>2, <2>3, LaysAs, FactsFields
  <1>6. AllCoded(FactLayout, items, pieces, n)
    <2>1. \A i \in 1 .. n : items[i] \in FactTexts /\ Required(items[i].predicate) /\ Required(items[i].source)
      BY <1>1, <1>2 DEF ToSet, FactTypes
    <2>2. \A i \in 1 .. n : Coded(FactLayout, items[i], EncodeFact(items[i]))
      BY <2>1, FactCoded
    <2>3. n \in Nat /\ DOMAIN items = 1 .. n /\ items = [i \in 1 .. n |-> items[i]]
      BY <1>2
    <2> HIDE DEF items, n
    <2> QED BY <2>2, <2>3 DEF AllCoded
  <1>7. cells = FlattenSeq(FactsParts(e)) \o FlattenSeq(pieces)
    BY <1>1 DEF Each
  <1>12. \A f \in ToSet(items) : FactRecord(f, e.extracted_at)
    BY <1>2 DEF ToSet, FactTypes, FactRecord
  <1> DEFINE h == Read(Reading(cells), FactsLayout)
             r == Items(h, "facts", h.got["count"], FactLayout)
  <1> HIDE DEF items, n, names, cells, pieces, h
  <1>8. /\ r = Holding(<< >>, Onto(Single("facts", items), Restrict(u, names)))
        /\ cells \in Seq(Nat) /\ Counting(h)
    <2>1. names = NamesOf(FactsLayout, Len(FactsLayout)) /\ "count" \in names
      BY FactsFields DEF names, FactsWords
    <2>2. Len(FactLayout) >= 1
      BY FactFields
    <2>3. Counts(FactsLayout, u, FactsParts(e), FactLayout, items, pieces, n, names, cells)
      BY <1>3, <1>5, <1>6, <1>7, <2>1, <2>2 DEF Counts
    <2>4. h = Read(Reading(cells), FactsLayout)
      BY DEF h
    <2>5. /\ Items(h, "facts", h.got["count"], FactLayout) = Holding(<< >>, Onto(Single("facts", items), Restrict(u, names)))
          /\ cells \in Seq(Nat) /\ Counting(h)
      <3> HIDE DEF r
      <3> QED BY <2>3, <2>4, ItemsRead
    <2> QED BY <2>5
  <1> HIDE DEF r
  <1>9. r.ok /\ r.rest = << >> /\ Got(r) = e /\ \A x \in names : r.got[x] = u[x]
    <2>1. /\ DOMAIN e = (names \ Marks) \cup {"facts"} /\ "facts" \notin names /\ "facts" \notin Marks
          /\ names \ Marks = names \ {"magic", "count"}
      BY <1>2 DEF names, Marks, FactsWords, FactsNonempties
    <2>2. Makes(u, names, "facts", items, e)
      BY <1>2, <1>3, <2>1 DEF Makes
    <2> QED BY <1>8, <2>2, ItemsGot
  <1>10. Whole(r, 1)
    <2>1. "magic" \in names
      BY DEF names, FactsWords
    <2> QED BY <1>3, <1>9, <2>1 DEF Whole
  <1> DEFINE g == Got(r)
  <1>11. DecodeFacts(cells) = IF Whole(r, 1) /\ \A f \in ToSet(g.facts) : FactRecord(f, g.extracted_at) /\ NamesMessage(f, g.message_id)
                              THEN g ELSE None
    BY DEF DecodeFacts, r, h
  <1>13. g = e
    BY <1>9
  <1> HIDE DEF g
  <1> QED BY <1>1, <1>8, <1>10, <1>11, <1>12, <1>13 DEF cells, items, h

(* What a query's audit and any other audit is written as. *)
CodeLayout == <<<<"word", "error_code">>>>
CodeParts(e) == <<<<e.error_code>>>>
QueryLayout == AuditHeader \o CodeLayout \o AuditStrings \o AuditQuery
QueryParts(e) == AuditHeaderParts(e) \o CodeParts(e) \o AuditStringParts(e) \o AuditQueryParts(e)
OtherLayout == AuditHeader \o AuditStrings
OtherParts(e) == AuditHeaderParts(e) \o AuditStringParts(e)
OtherNames == HeaderWords \cup AuditNullables
QueryNames == HeaderWords \cup {"error_code"} \cup AuditNullables \cup QueryNullables

(* What an audit's reader finds: its version and its fields.                *)
AuditAs(u, e) ==
  /\ u["magic"] = AuditVersion(e) /\ DOMAIN e = QueryNames \ {"magic"} /\ IsFunction(e)
  /\ \A x \in QueryNames \ {"magic"} : u[x] = e[x]
  /\ \A x \in (HeaderWords \ {"magic"}) \cup {"error_code"} : e[x] \in Nat
  /\ \A x \in AuditNullables \cup QueryNullables : e[x] \in Nullables

(* Every audit has what its reader finds. *)
LEMMA AuditIs ==
  ASSUME NEW e \in EventTypes("audit")
  PROVE  \E u : AuditAs(u, e)
  <1> DEFINE u == Onto([magic |-> AuditVersion(e)], e)
  <1>1. /\ DOMAIN e = QueryNames \ {"magic"} /\ IsFunction(e)
        /\ \A x \in (HeaderWords \ {"magic"}) \cup {"error_code"} : e[x] \in Nat
        /\ \A x \in AuditNullables \cup QueryNullables : e[x] \in Nullables
    BY DEF EventTypes, IsFunction, QueryNames, HeaderWords, AuditNullables, QueryNullables
  <1>2. u["magic"] = AuditVersion(e) /\ \A x \in QueryNames \ {"magic"} : u[x] = e[x]
    BY <1>1 DEF Onto
  <1> HIDE DEF u
  <1> QED BY <1>1, <1>2 DEF AuditAs

(* An audit's head is laid out. *)
LEMMA HeaderLays ==
  ASSUME NEW u, NEW e, AuditAs(u, e)
  PROVE  Lays(AuditHeader, u, AuditHeaderParts(e))
  <1>0. AuditVersion(e) \in Nat
    BY DEF AuditVersion
  <1>1. Suits(u, HeaderWords, {}, {}, {}, {})
    BY <1>0 DEF AuditAs, Suits, HeaderWords, QueryNames
  <1>4. /\ u["magic"] = AuditVersion(e) /\ u["operation"] = e.operation /\ u["outcome"] = e.outcome
        /\ u["mutation_count"] = e.mutation_count /\ u["final_offset"] = e.final_offset
        /\ u["final_sequence"] = e.final_sequence
    BY DEF AuditAs, HeaderWords, QueryNames
  <1>2. \A i \in 1 .. 6 : AuditHeaderParts(e)[i] = Put(AuditHeader[i][1], u[AuditHeader[i][2]])
    BY <1>4, Kinds5 DEF AuditHeaderParts, AuditHeader
  <1>3. Len(AuditHeaderParts(e)) = 6 /\ AuditHeaderParts(e) = [i \in 1 .. 6 |-> AuditHeaderParts(e)[i]]
    BY DEF AuditHeaderParts
  <1> QED BY <1>1, <1>2, <1>3, LaysAs, HeaderFields

(* A query's error code is laid out. *)
LEMMA CodeLays ==
  ASSUME NEW u, NEW e, AuditAs(u, e)
  PROVE  Lays(CodeLayout, u, CodeParts(e)) /\ NamesOf(CodeLayout, Len(CodeLayout)) = {"error_code"}
  <1>1. Suits(u, {"error_code"}, {}, {}, {}, {})
    BY DEF AuditAs, Suits, QueryNames
  <1>4. u["error_code"] = e.error_code
    BY DEF AuditAs, QueryNames, HeaderWords
  <1>2. \A i \in 1 .. 1 : CodeParts(e)[i] = Put(CodeLayout[i][1], u[CodeLayout[i][2]])
    BY <1>4, Kinds5 DEF CodeParts, CodeLayout
  <1>3. Len(CodeParts(e)) = 1 /\ CodeParts(e) = [i \in 1 .. 1 |-> CodeParts(e)[i]]
    BY DEF CodeParts
  <1>5. Lists(CodeLayout, 1, {"error_code"}, {}, {}, {}, {})
    BY DEF CodeLayout, Lists
  <1>6. NamesOf(CodeLayout, Len(CodeLayout)) = {"error_code"}
    BY DEF CodeLayout, NamesOf
  <1> QED BY <1>1, <1>2, <1>3, <1>5, <1>6, LaysAs

(* An audit's strings are laid out. *)
LEMMA StringsLay ==
  ASSUME NEW u, NEW e, AuditAs(u, e)
  PROVE  Lays(AuditStrings, u, AuditStringParts(e))
  <1>1. Suits(u, {}, {}, {}, AuditNullables, {})
    BY DEF AuditAs, Suits, AuditNullables, QueryNames
  <1>4. /\ u["request_id"] = e.request_id /\ u["correlation_id"] = e.correlation_id
        /\ u["caller_identity"] = e.caller_identity /\ u["account_identity"] = e.account_identity
        /\ u["tool_identity"] = e.tool_identity /\ u["scope_id"] = e.scope_id
        /\ u["predicate_id"] = e.predicate_id
    BY DEF AuditAs, AuditNullables, QueryNames
  <1>2. \A i \in 1 .. 7 : AuditStringParts(e)[i] = Put(AuditStrings[i][1], u[AuditStrings[i][2]])
    BY <1>4, Kinds5 DEF AuditStringParts, AuditStrings
  <1>3. Len(AuditStringParts(e)) = 7 /\ AuditStringParts(e) = [i \in 1 .. 7 |-> AuditStringParts(e)[i]]
    BY DEF AuditStringParts
  <1> QED BY <1>1, <1>2, <1>3, LaysAs, AuditFields

(* A query's own strings are laid out. *)
LEMMA QueryLays ==
  ASSUME NEW u, NEW e, AuditAs(u, e)
  PROVE  Lays(AuditQuery, u, AuditQueryParts(e))
  <1>1. Suits(u, {}, {}, {}, QueryNullables, {})
    BY DEF AuditAs, Suits, QueryNullables, QueryNames
  <1>4. /\ u["query_id"] = e.query_id /\ u["template_id"] = e.template_id
        /\ u["error_domain"] = e.error_domain /\ u["error_class"] = e.error_class
        /\ u["error_message"] = e.error_message
    BY DEF AuditAs, QueryNullables, QueryNames
  <1>2. \A i \in 1 .. 5 : AuditQueryParts(e)[i] = Put(AuditQuery[i][1], u[AuditQuery[i][2]])
    BY <1>4, Kinds5 DEF AuditQueryParts, AuditQuery
  <1>3. Len(AuditQueryParts(e)) = 5 /\ AuditQueryParts(e) = [i \in 1 .. 5 |-> AuditQueryParts(e)[i]]
    BY DEF AuditQueryParts
  <1> QED BY <1>1, <1>2, <1>3, LaysAs, QueryFields

(* An audit of anything but a query is read whole. *)
LEMMA OtherRead ==
  ASSUME NEW u, NEW e, AuditAs(u, e)
  PROVE  /\ Read(Reading(FlattenSeq(OtherParts(e))), OtherLayout) = Holding(<< >>, Restrict(u, OtherNames))
         /\ FlattenSeq(OtherParts(e))[1] = u["magic"] /\ Len(FlattenSeq(OtherParts(e))) >= 1
         /\ FlattenSeq(OtherParts(e)) \in Seq(Nat) /\ Lays(OtherLayout, u, OtherParts(e))
  <1>1. /\ Lays(OtherLayout, u, OtherParts(e))
        /\ NamesOf(OtherLayout, Len(OtherLayout)) = OtherNames
    BY HeaderLays, StringsLay, LaysBehind, HeaderFields, AuditFields DEF OtherLayout, OtherParts, OtherNames
  <1>2. Len(OtherLayout) >= 1 /\ OtherParts(e)[1] = <<u["magic"]>>
    BY DEF OtherLayout, OtherParts, AuditHeader, AuditStrings, AuditHeaderParts, AuditStringParts, AuditAs
  <1>3. FlattenSeq(OtherParts(e)) \in Seq(Nat)
    BY <1>1, PartsMake
  <1> QED BY <1>1, <1>2, <1>3, ReadWhole, FirstCell

(* An audit of a query is read whole. *)
LEMMA QueryRead ==
  ASSUME NEW u, NEW e, AuditAs(u, e)
  PROVE  /\ Read(Reading(FlattenSeq(QueryParts(e))), QueryLayout) = Holding(<< >>, Restrict(u, QueryNames))
         /\ FlattenSeq(QueryParts(e))[1] = u["magic"] /\ Len(FlattenSeq(QueryParts(e))) >= 1
         /\ FlattenSeq(QueryParts(e)) \in Seq(Nat) /\ Lays(QueryLayout, u, QueryParts(e))
  <1> DEFINE l1 == AuditHeader \o CodeLayout  p1 == AuditHeaderParts(e) \o CodeParts(e)
             l2 == l1 \o AuditStrings  p2 == p1 \o AuditStringParts(e)
             l3 == l2 \o AuditQuery  p3 == p2 \o AuditQueryParts(e)
  <1>1. Lays(l1, u, p1) /\ NamesOf(l1, Len(l1)) = HeaderWords \cup {"error_code"}
    BY HeaderLays, CodeLays, LaysBehind, HeaderFields
  <1> HIDE DEF l1, p1
  <1>2. Lays(l2, u, p2) /\ NamesOf(l2, Len(l2)) = HeaderWords \cup {"error_code"} \cup AuditNullables
    BY <1>1, StringsLay, LaysBehind, AuditFields
  <1> HIDE DEF l2, p2
  <1>3. Lays(l3, u, p3) /\ NamesOf(l3, Len(l3)) = QueryNames
    BY <1>2, QueryLays, LaysBehind, QueryFields DEF QueryNames
  <1> HIDE DEF l3, p3
  <1>4. l3 = QueryLayout /\ p3 = QueryParts(e)
    BY DEF l1, l2, l3, p1, p2, p3, QueryLayout, QueryParts
  <1>5. Len(QueryLayout) >= 1 /\ QueryParts(e)[1] = <<u["magic"]>>
    <2>1. Len(QueryLayout) >= 1
      BY DEF QueryLayout, AuditHeader, AuditStrings, CodeLayout, AuditQuery
    <2>2. QueryParts(e)[1] = <<AuditVersion(e)>>
      BY DEF QueryParts, AuditHeaderParts, AuditStringParts, CodeParts, AuditQueryParts
    <2> QED BY <2>1, <2>2 DEF AuditAs
  <1>6. FlattenSeq(QueryParts(e)) \in Seq(Nat)
    BY <1>3, <1>4, PartsMake
  <1> QED BY <1>3, <1>4, <1>5, <1>6, ReadWhole, FirstCell

(* An audit of a mutation reads as it was written, with nothing of a query. *)
LEMMA AuditOfMutation ==
  ASSUME NEW e \in EventTypes("audit"), EncodeAudit(e) # None, ~IsQuery(e)
  PROVE  EncodeAudit(e) \in Seq(Nat) /\ DecodeAudit(EncodeAudit(e)) = Onto(NoQuery, e)
  <1> DEFINE cells == EncodeAudit(e)  f == Onto(NoQuery, e)
  <1>1. ValidAudit(e) /\ cells = FlattenSeq(OtherParts(e))
    BY DEF EncodeAudit, OtherParts
  <1>2. PICK u : AuditAs(u, e)
    BY AuditIs
  <1>3. /\ u["magic"] = 1 /\ DOMAIN e = QueryNames \ {"magic"} /\ IsFunction(e)
        /\ \A x \in QueryNames \ {"magic"} : u[x] = e[x]
    BY <1>2 DEF AuditAs, AuditVersion
  <1>4. /\ Read(Reading(cells), OtherLayout) = Holding(<< >>, Restrict(u, OtherNames))
        /\ cells[1] = 1 /\ cells \in Seq(Nat)
    BY <1>1, <1>2, <1>3, OtherRead
  <1> HIDE DEF cells
  <1> DEFINE r == Read(Reading(cells), OtherLayout)
             g == Onto(Got(r), NoQuery)
  <1>5. DecodeAudit(cells) = IF Whole(r, 1) /\ ValidAudit(g) THEN g ELSE None
    BY <1>4 DEF DecodeAudit, OtherLayout
  <1> HIDE DEF r
  <1>6. /\ r.ok /\ r.rest = << >> /\ Got(r) = Restrict(u, OtherNames \ Marks)
        /\ \A x \in OtherNames : r.got[x] = u[x]
    <2> HIDE DEF g, f
    <2>1. r = Holding(<< >>, Restrict(u, OtherNames))
      BY <1>4 DEF r
    <2> DEFINE N == OtherNames
    <2> HIDE DEF N
    <2>2. /\ r.ok /\ r.rest = << >> /\ Got(r) = Restrict(u, N \ Marks)
          /\ \A x \in N : r.got[x] = u[x]
      <3>1. r = Holding(<< >>, Restrict(u, N))
        BY <2>1 DEF N
      <3> QED BY <3>1, GotIs
    <2> QED BY <2>2 DEF N
  <1>7. Whole(r, 1)
    BY <1>3, <1>6 DEF Whole, OtherNames, HeaderWords
  <1>8. g = f
    <2> DEFINE w == Restrict(u, OtherNames \ Marks)
    <2>1. DOMAIN w = OtherNames \ Marks /\ \A x \in OtherNames \ Marks : w[x] = u[x]
      BY DEF Restrict
    <2> HIDE DEF w
    <2>2. DOMAIN NoQuery = {"error_code"} \cup QueryNullables /\ IsFunction(NoQuery)
      BY DEF NoQuery, QueryNullables, IsFunction
    <2>3. OtherNames \ Marks = DOMAIN e \ DOMAIN NoQuery /\ DOMAIN NoQuery \subseteq DOMAIN e
      BY <1>3, <2>2 DEF OtherNames, Marks, QueryNames, HeaderWords, AuditNullables, QueryNullables
    <2>4. IsFunction(f) /\ DOMAIN f = DOMAIN e /\ \A x \in DOMAIN e : f[x] = IF x \in DOMAIN NoQuery THEN NoQuery[x] ELSE e[x]
      BY <2>3 DEF Onto, IsFunction
    <2>5. g = Onto(w, NoQuery)
      BY <1>6 DEF w
    <2>6. IsFunction(g) /\ DOMAIN g = DOMAIN e /\ \A x \in DOMAIN e : g[x] = IF x \in DOMAIN w THEN w[x] ELSE NoQuery[x]
      BY <2>1, <2>3, <2>5 DEF Onto, IsFunction
    <2> HIDE DEF f, g
    <2>7. \A x \in DOMAIN e : g[x] = f[x]
      BY <1>3, <2>1, <2>3, <2>4, <2>6
    <2> QED BY <2>4, <2>6, <2>7, SameValue
  <1>9. ValidAudit(f)
    <2>1. \A x \in OtherNames \ {"magic"} : f[x] = e[x]
      BY <1>3 DEF Onto, NoQuery, OtherNames, QueryNames, HeaderWords, AuditNullables, QueryNullables
    <2> HIDE DEF f
    <2>2. /\ f.operation = e.operation /\ f.outcome = e.outcome /\ f.request_id = e.request_id
          /\ f.caller_identity = e.caller_identity /\ f.account_identity = e.account_identity
          /\ f.scope_id = e.scope_id /\ f.predicate_id = e.predicate_id
          /\ f.mutation_count = e.mutation_count /\ f.final_sequence = e.final_sequence
      BY <2>1 DEF OtherNames, HeaderWords, AuditNullables
    <2> QED BY <1>1, <2>2 DEF ValidAudit, IsQuery
  <1> HIDE DEF g, f
  <1>10. DecodeAudit(cells) = f
    BY <1>5, <1>7, <1>8, <1>9
  <1> QED BY <1>4, <1>10 DEF cells, f

(* An audit of a query reads as it was written. *)
LEMMA AuditOfQuery ==
  ASSUME NEW e \in EventTypes("audit"), EncodeAudit(e) # None, IsQuery(e)
  PROVE  EncodeAudit(e) \in Seq(Nat) /\ DecodeAudit(EncodeAudit(e)) = e
  <1> DEFINE cells == EncodeAudit(e)
  <1>1. ValidAudit(e) /\ cells = FlattenSeq(QueryParts(e))
    BY DEF EncodeAudit, QueryParts, CodeParts
  <1>2. PICK u : AuditAs(u, e)
    BY AuditIs
  <1>3. /\ u["magic"] = 2 /\ DOMAIN e = QueryNames \ {"magic"} /\ IsFunction(e)
        /\ \A x \in QueryNames \ {"magic"} : u[x] = e[x]
    BY <1>2 DEF AuditAs, AuditVersion
  <1>4. /\ Read(Reading(cells), QueryLayout) = Holding(<< >>, Restrict(u, QueryNames))
        /\ cells[1] = 2 /\ cells # << >> /\ cells \in Seq(Nat)
    BY <1>1, <1>2, <1>3, QueryRead
  <1> HIDE DEF cells
  <1> DEFINE r == Read(Reading(cells), QueryLayout)
             g == Onto(Got(r), NoQuery)
  <1>5. DecodeAudit(cells) = IF Whole(r, 2) /\ ValidAudit(g) THEN g ELSE None
    BY <1>4 DEF DecodeAudit, QueryLayout, CodeLayout
  <1> HIDE DEF r
  <1>6. /\ r.ok /\ r.rest = << >> /\ Got(r) = Restrict(u, QueryNames \ Marks)
        /\ \A x \in QueryNames : r.got[x] = u[x]
    <2> HIDE DEF g
    <2>1. r = Holding(<< >>, Restrict(u, QueryNames))
      BY <1>4 DEF r
    <2> QED BY <2>1, GotIs
  <1>7. Whole(r, 2)
    BY <1>3, <1>6 DEF Whole, QueryNames, HeaderWords
  <1>8. g = e
    <2>1. QueryNames \ Marks = DOMAIN e
      BY <1>3 DEF Marks, QueryNames, HeaderWords, AuditNullables, QueryNullables
    <2>2. Got(r) = e
      <3>1. \A x \in DOMAIN e : u[x] = e[x]
        BY <1>3
      <3>2. Restrict(u, DOMAIN e) = e
        BY <1>3, <3>1, RestrictIs
      <3> QED BY <1>6, <2>1, <3>2
    <2>3. DOMAIN NoQuery \subseteq DOMAIN e
      BY <1>3 DEF NoQuery, QueryNames, HeaderWords, QueryNullables
    <2>4. IsFunction(g) /\ DOMAIN g = DOMAIN e /\ \A x \in DOMAIN e : g[x] = e[x]
      BY <2>2, <2>3 DEF Onto, IsFunction
    <2> HIDE DEF g
    <2> QED BY <1>3, <2>4, SameValue
  <1> HIDE DEF g
  <1>10. DecodeAudit(cells) = e
    BY <1>1, <1>5, <1>7, <1>8
  <1> QED BY <1>4, <1>10 DEF cells

(* The audit of a query reads as it was written, that of a mutation as one *)
(* that says nothing of a query.                                           *)
LEMMA AuditRead ==
  ASSUME NEW e \in EventTypes("audit"), EncodeAudit(e) # None
  PROVE  EncodeAudit(e) \in Seq(Nat) /\ DecodeAudit(EncodeAudit(e)) = Recorded("audit", e)
  <1>1. CASE IsQuery(e)
    BY <1>1, AuditOfQuery DEF Recorded
  <1>2. CASE ~IsQuery(e)
    BY <1>2, AuditOfMutation DEF Recorded
  <1> QED BY <1>1, <1>2

(* The fields of a delivery, by the versions that brought them. *)
FirstNames == DeliveredWords \cup DeliveredStrings \cup DeliveredNullables
IdentityNames == IdentityNullables \cup IdentityLists
Valids == {"message_id_span_valid", "subject_span_valid"}

(* What a delivery's reader finds: its version and its fields.              *)
DeliveredAs(u, e) ==
  /\ u["magic"] = DeliveredVersion(e)
  /\ u["message_id_span_valid"] = Bit(e.message_id_span_valid)
  /\ u["subject_span_valid"] = Bit(e.subject_span_valid)
  /\ DOMAIN e = (FirstNames \cup SpanWords \cup IdentityNames) \ {"magic"} /\ IsFunction(e)
  /\ \A x \in (FirstNames \cup SpanWords \cup IdentityNames) \ ({"magic"} \cup Valids) : u[x] = e[x]
  /\ \A x \in (DeliveredWords \cup SpanWords) \ ({"magic"} \cup Valids) : e[x] \in Nat
  /\ \A x \in Valids : e[x] \in BOOLEAN
  /\ e["object_key"] \in CStrings /\ IsKey(e["object_key"])
  /\ \A x \in DeliveredNullables \cup IdentityNullables : e[x] \in Nullables
  /\ e["recipients"] \in Seq(CStrings)

(* Every delivery of a named object has what its reader finds. *)
LEMMA DeliveredIs ==
  ASSUME NEW e \in EventTypes("delivered"), IsKey(e.object_key)
  PROVE  \E u : DeliveredAs(u, e)
  <1> DEFINE u == Onto([magic |-> DeliveredVersion(e), message_id_span_valid |-> Bit(e.message_id_span_valid),
                        subject_span_valid |-> Bit(e.subject_span_valid)], e)
             all == FirstNames \cup SpanWords \cup IdentityNames
  <1>1. /\ DOMAIN e = all \ {"magic"} /\ IsFunction(e)
        /\ \A x \in (DeliveredWords \cup SpanWords) \ ({"magic"} \cup Valids) : e[x] \in Nat
        /\ \A x \in Valids : e[x] \in BOOLEAN
        /\ e["object_key"] \in Nullables /\ e["recipients"] \in Seq(CStrings)
        /\ \A x \in DeliveredNullables \cup IdentityNullables : e[x] \in Nullables
    BY DEF EventTypes, IsFunction, FirstNames, SpanWords, IdentityNames, Valids, DeliveredWords,
           DeliveredStrings, DeliveredNullables, IdentityNullables, IdentityLists
  <1>2. e["object_key"] \in CStrings /\ IsKey(e["object_key"])
    BY <1>1 DEF IsKey, IsToken, Required, Nullables
  <1>3. /\ u["magic"] = DeliveredVersion(e)
        /\ u["message_id_span_valid"] = Bit(e.message_id_span_valid)
        /\ u["subject_span_valid"] = Bit(e.subject_span_valid)
        /\ \A x \in all \ ({"magic"} \cup Valids) : u[x] = e[x]
    BY <1>1 DEF Onto, Valids
  <1> HIDE DEF u
  <1> QED BY <1>1, <1>2, <1>3 DEF DeliveredAs

(* A delivery's first part is laid out. *)
LEMMA SecondLays ==
  ASSUME NEW u, NEW e, DeliveredAs(u, e)
  PROVE  Lays(SecondLayout, u, DeliveredParts(e))
  <1>0. DeliveredVersion(e) \in Nat
    BY DEF DeliveredVersion
  <1>4. /\ u["magic"] = DeliveredVersion(e) /\ u["size_bytes"] = e.size_bytes
        /\ u["internal_date"] = e.internal_date /\ u["duplicates"] = e.duplicates
        /\ u["object_key"] = e.object_key /\ u["message_id"] = e.message_id /\ u["subject"] = e.subject
        /\ u["from"] = e.from /\ u["to"] = e.to /\ u["cc"] = e.cc /\ u["bcc"] = e.bcc
        /\ u["date"] = e.date
    BY DEF DeliveredAs, FirstNames, DeliveredWords, DeliveredStrings, DeliveredNullables, Valids
  <1>1. Suits(u, DeliveredWords, DeliveredStrings, {}, DeliveredNullables, {})
    BY <1>0, <1>4 DEF DeliveredAs, Suits, DeliveredWords, DeliveredStrings, DeliveredNullables, Valids
  <1>2. \A i \in 1 .. 12 : DeliveredParts(e)[i] = Put(SecondLayout[i][1], u[SecondLayout[i][2]])
    BY <1>4, Kinds5 DEF DeliveredParts, SecondLayout
  <1>3. Len(DeliveredParts(e)) = 12 /\ DeliveredParts(e) = [i \in 1 .. 12 |-> DeliveredParts(e)[i]]
    BY DEF DeliveredParts
  <1> QED BY <1>1, <1>2, <1>3, LaysAs, DeliveredFields

(* A delivery's spans are laid out. *)
LEMMA SpansLay ==
  ASSUME NEW u, NEW e, DeliveredAs(u, e)
  PROVE  Lays(SpanLayout, u, SpanParts(e))
  <1>0. Bit(e.message_id_span_valid) \in Nat /\ Bit(e.subject_span_valid) \in Nat
    BY DEF Bit
  <1>4. /\ u["message_id_span_valid"] = Bit(e.message_id_span_valid)
        /\ u["message_id_span_start"] = e.message_id_span_start
        /\ u["message_id_span_end"] = e.message_id_span_end
        /\ u["subject_span_valid"] = Bit(e.subject_span_valid)
        /\ u["subject_span_start"] = e.subject_span_start /\ u["subject_span_end"] = e.subject_span_end
    BY DEF DeliveredAs, SpanWords, Valids
  <1>1. Suits(u, SpanWords, {}, {}, {}, {})
    BY <1>0, <1>4 DEF DeliveredAs, Suits, SpanWords, Valids
  <1>2. \A i \in 1 .. 6 : SpanParts(e)[i] = Put(SpanLayout[i][1], u[SpanLayout[i][2]])
    BY <1>4, Kinds5 DEF SpanParts, SpanLayout
  <1>3. Len(SpanParts(e)) = 6 /\ SpanParts(e) = [i \in 1 .. 6 |-> SpanParts(e)[i]]
    BY DEF SpanParts
  <1> QED BY <1>1, <1>2, <1>3, LaysAs, SpanFields

(* A delivery's identity is laid out. *)
LEMMA IdentityLays ==
  ASSUME NEW u, NEW e, DeliveredAs(u, e)
  PROVE  Lays(IdentityLayout, u, IdentityParts(e))
  <1>4. /\ u["delivery_id"] = e.delivery_id /\ u["queue_id"] = e.queue_id
        /\ u["account_identity"] = e.account_identity /\ u["envelope_sender"] = e.envelope_sender
        /\ u["recipients"] = e.recipients
    BY DEF DeliveredAs, IdentityNames, IdentityNullables, IdentityLists, Valids
  <1>1. Suits(u, {}, {}, {}, IdentityNullables, IdentityLists)
    BY <1>4 DEF DeliveredAs, Suits, IdentityNullables, IdentityLists
  <1>2. \A i \in 1 .. 5 : IdentityParts(e)[i] = Put(IdentityLayout[i][1], u[IdentityLayout[i][2]])
    BY <1>4, Kinds5 DEF IdentityParts, IdentityLayout
  <1>3. Len(IdentityParts(e)) = 5 /\ IdentityParts(e) = [i \in 1 .. 5 |-> IdentityParts(e)[i]]
    BY DEF IdentityParts
  <1> QED BY <1>1, <1>2, <1>3, LaysAs, IdentityFields

(* Cells one behind the other.                                             *)
LEMMA BothAre ==
  ASSUME NEW c \in Seq(Nat), NEW s \in Seq(Nat)
  PROVE  /\ c \o s \in Seq(Nat) /\ Len(c \o s) = Len(c) + Len(s) /\ Len(c) \in Nat /\ Len(s) \in Nat
         /\ \A i \in 1 .. Len(c) : (c \o s)[i] = c[i]
         /\ \A i \in 1 .. Len(s) : (c \o s)[Len(c) + i] = s[i]
  <1>1. /\ c \o s \in Seq(Nat) /\ Len(c \o s) = Len(c) + Len(s)
        /\ \A i \in 1 .. Len(c) + Len(s) : (c \o s)[i] = IF i <= Len(c) THEN c[i] ELSE s[i - Len(c)]
    BY ConcatProperties
  <1>2. Len(c) \in Nat /\ Len(s) \in Nat
    OBVIOUS
  <1> DEFINE d == c \o s
  <1> HIDE DEF d
  <1>3. ASSUME NEW i \in 1 .. Len(c) PROVE d[i] = c[i]
    <2>1. i \in 1 .. Len(c) + Len(s) /\ i <= Len(c)
      BY <1>2
    <2> QED BY <1>1, <2>1 DEF d
  <1>4. ASSUME NEW i \in 1 .. Len(s) PROVE d[Len(c) + i] = s[i]
    <2>1. Len(c) + i \in 1 .. Len(c) + Len(s) /\ ~(Len(c) + i <= Len(c)) /\ (Len(c) + i) - Len(c) = i
      BY <1>2
    <2> QED BY <1>1, <2>1 DEF d
  <1> QED BY <1>1, <1>2, <1>3, <1>4 DEF d

(* Cells one behind the other need no brackets.                            *)
LEMMA Associates ==
  ASSUME NEW x \in Seq(Nat), NEW y \in Seq(Nat), NEW w \in Seq(Nat)
  PROVE  (x \o y) \o w = x \o (y \o w)
  <1> DEFINE a == x \o y  b == y \o w  p == a \o w  q == x \o b
  <1>1. /\ a \in Seq(Nat) /\ Len(a) = Len(x) + Len(y) /\ Len(x) \in Nat /\ Len(y) \in Nat
        /\ (\A i \in 1 .. Len(x) : a[i] = x[i]) /\ \A i \in 1 .. Len(y) : a[Len(x) + i] = y[i]
    BY BothAre
  <1>2. /\ b \in Seq(Nat) /\ Len(b) = Len(y) + Len(w) /\ Len(w) \in Nat
        /\ (\A i \in 1 .. Len(y) : b[i] = y[i]) /\ \A i \in 1 .. Len(w) : b[Len(y) + i] = w[i]
    BY BothAre
  <1> HIDE DEF a, b
  <1>3. /\ p \in Seq(Nat) /\ Len(p) = Len(a) + Len(w)
        /\ (\A i \in 1 .. Len(a) : p[i] = a[i]) /\ \A i \in 1 .. Len(w) : p[Len(a) + i] = w[i]
    BY <1>1, BothAre
  <1>4. /\ q \in Seq(Nat) /\ Len(q) = Len(x) + Len(b)
        /\ (\A i \in 1 .. Len(x) : q[i] = x[i]) /\ \A i \in 1 .. Len(b) : q[Len(x) + i] = b[i]
    BY <1>2, BothAre
  <1> HIDE DEF p, q
  <1>5. Len(p) = Len(q) /\ Len(p) = Len(x) + Len(y) + Len(w) /\ Len(p) \in Nat
    BY <1>1, <1>2, <1>3, <1>4
  <1>6. ASSUME NEW k \in 1 .. Len(p) PROVE p[k] = q[k]
    <2>1. CASE k <= Len(x)
      <3>1. k \in 1 .. Len(x) /\ k \in 1 .. Len(a)
        BY <1>1, <1>5, <2>1
      <3> QED BY <1>1, <1>3, <1>4, <3>1
    <2>2. CASE k > Len(x) /\ k <= Len(x) + Len(y)
      <3> DEFINE i == k - Len(x)
      <3>1. i \in 1 .. Len(y) /\ i \in 1 .. Len(b) /\ k \in 1 .. Len(a) /\ Len(x) + i = k
        BY <1>1, <1>2, <1>5, <2>2
      <3> HIDE DEF i
      <3>2. p[k] = y[i]
        BY <1>1, <1>3, <3>1
      <3>3. q[k] = y[i]
        BY <1>2, <1>4, <3>1
      <3> QED BY <3>2, <3>3
    <2>3. CASE k > Len(x) + Len(y)
      <3> DEFINE i == k - (Len(x) + Len(y))  j == k - Len(x)
      <3>1. /\ i \in 1 .. Len(w) /\ Len(a) + i = k
            /\ j \in 1 .. Len(b) /\ Len(x) + j = k /\ Len(y) + i = j
        BY <1>1, <1>2, <1>5, <2>3
      <3> HIDE DEF i, j
      <3>2. p[k] = w[i]
        BY <1>3, <3>1
      <3>3. q[k] = w[i]
        BY <1>2, <1>4, <3>1
      <3> QED BY <3>2, <3>3
    <2>4. k <= Len(x) \/ (k > Len(x) /\ k <= Len(x) + Len(y)) \/ k > Len(x) + Len(y)
      BY <1>1, <1>5
    <2> QED BY <2>1, <2>2, <2>3, <2>4
  <1>7. p = q
    BY <1>3, <1>4, <1>5, <1>6, SeqEqual
  <1> QED BY <1>7 DEF p, q, a, b

(* The same sequence in three parts, by name. *)
Same(v, x, y, z) == v = x \o (y \o z)
LEMMA Regrouped ==
  ASSUME NEW x \in Seq(Nat), NEW y \in Seq(Nat), NEW z \in Seq(Nat), NEW v, v = (x \o y) \o z
  PROVE  Same(v, x, y, z)
  BY Associates DEF Same

(* A delivery's first part reads as it was written. *)
LEMMA FirstPart ==
  ASSUME NEW u, NEW e, DeliveredAs(u, e), NEW b \in Seq(Nat), NEW cells,
         cells = FlattenSeq(DeliveredParts(e)) \o b
  PROVE  /\ Read(Reading(cells), SecondLayout) = Holding(b, Restrict(u, FirstNames))
         /\ cells # << >> /\ cells[1] = DeliveredVersion(e)
  <1> DEFINE a == FlattenSeq(DeliveredParts(e))
  <1>1. Lays(SecondLayout, u, DeliveredParts(e)) /\ Len(SecondLayout) = 12
        /\ NamesOf(SecondLayout, Len(SecondLayout)) = FirstNames
    BY SecondLays, DeliveredFields DEF FirstNames
  <1>2. Read(Reading(cells), SecondLayout) = Holding(b, Restrict(u, FirstNames))
    BY <1>1, ReadHead
  <1>3. a \in Seq(Nat) /\ a[1] = DeliveredVersion(e) /\ Len(a) >= 1
    <2>1. DeliveredParts(e)[1] = <<DeliveredVersion(e)>>
      BY DEF DeliveredParts
    <2>2. Len(SecondLayout) >= 1
      BY <1>1
    <2>3. FlattenSeq(DeliveredParts(e))[1] = DeliveredVersion(e) /\ Len(FlattenSeq(DeliveredParts(e))) >= 1
      BY <1>1, <2>1, <2>2, FirstCell
    <2>4. FlattenSeq(DeliveredParts(e)) \in Seq(Nat)
      BY <1>1, PartsMake
    <2> QED BY <2>3, <2>4
  <1> HIDE DEF a
  <1>4. cells = a \o b
    BY DEF a
  <1>5. cells \in Seq(Nat) /\ Len(cells) = Len(a) + Len(b) /\ Len(b) \in Nat /\ Len(a) \in Nat
        /\ \A i \in 1 .. Len(cells) : cells[i] = IF i <= Len(a) THEN a[i] ELSE b[i - Len(a)]
    BY <1>3, <1>4, ConcatProperties
  <1>6. 1 \in 1 .. Len(cells) /\ 1 <= Len(a)
    BY <1>3, <1>5
  <1>7. cells[1] = a[1] /\ cells # << >>
    BY <1>5, <1>6
  <1> QED BY <1>2, <1>3, <1>7

(* A delivery's spans read as they were written. *)
LEMMA SpanPart ==
  ASSUME NEW u, NEW e, DeliveredAs(u, e), NEW b \in Seq(Nat), NEW N
  PROVE  /\ Read(Holding(FlattenSeq(SpanParts(e)) \o b, Restrict(u, N)), SpanLayout)
              = Holding(b, Restrict(u, SpanWords \cup N))
         /\ FlattenSeq(SpanParts(e)) \o b \in Seq(Nat)
  <1>1. Lays(SpanLayout, u, SpanParts(e)) /\ NamesOf(SpanLayout, Len(SpanLayout)) = SpanWords
    BY SpansLay, SpanFields
  <1>2. IsFunction(Restrict(u, N))
    BY OntoNothing
  <1>3. Onto(Restrict(u, SpanWords), Restrict(u, N)) = Restrict(u, SpanWords \cup N)
    BY OntoRestricted
  <1> QED BY <1>1, <1>2, <1>3, ReadBefore

(* A delivery's identity reads as it was written. *)
LEMMA IdentityPart ==
  ASSUME NEW u, NEW e, DeliveredAs(u, e), NEW b \in Seq(Nat), NEW N
  PROVE  /\ Read(Holding(FlattenSeq(IdentityParts(e)) \o b, Restrict(u, N)), IdentityLayout)
              = Holding(b, Restrict(u, IdentityNames \cup N))
         /\ FlattenSeq(IdentityParts(e)) \o b \in Seq(Nat)
         /\ FlattenSeq(IdentityParts(e)) # << >> /\ FlattenSeq(IdentityParts(e)) \in Seq(Nat)
  <1>1. Lays(IdentityLayout, u, IdentityParts(e)) /\ NamesOf(IdentityLayout, Len(IdentityLayout)) = IdentityNames
        /\ Len(IdentityLayout) = 5
    BY IdentityLays, IdentityFields DEF IdentityNames
  <1>2. IsFunction(Restrict(u, N))
    BY OntoNothing
  <1>3. Onto(Restrict(u, IdentityNames), Restrict(u, N)) = Restrict(u, IdentityNames \cup N)
    BY OntoRestricted
  <1>4. FlattenSeq(IdentityParts(e)) \in Seq(Nat) /\ 5 <= Len(FlattenSeq(IdentityParts(e)))
    BY <1>1, PartsMake
  <1>5. FlattenSeq(IdentityParts(e)) # << >>
    BY <1>4
  <1>6. /\ Read(Holding(FlattenSeq(IdentityParts(e)) \o b, Restrict(u, N)), IdentityLayout)
             = Holding(b, Onto(Restrict(u, IdentityNames), Restrict(u, N)))
        /\ FlattenSeq(IdentityParts(e)) \o b \in Seq(Nat)
    BY <1>1, <1>2, ReadBefore
  <1> QED BY <1>3, <1>4, <1>5, <1>6

(* What of a delivery is written.                                          *)
NamesWritten(e) ==
  FirstNames \cup (IF HasSpans(e) THEN SpanWords ELSE {})
             \cup (IF e.delivery_id # None THEN IdentityNames ELSE {})
(* The reader a delivery's version calls for. *)
Reader(cells) ==
  IF cells = << >> THEN Refused
  ELSE CASE cells[1] = 1 -> Read(Reading(cells), FirstLayout)
         [] cells[1] = 2 -> Read(Reading(cells), SecondLayout)
         [] cells[1] = 3 -> Read(Read(Reading(cells), SecondLayout), IdentityLayout)
         [] cells[1] = 4 -> FourthRest(Read(Read(Reading(cells), SecondLayout), SpanLayout))
         [] OTHER -> Refused

(* A delivery is read whole by the reader of its version. *)
LEMMA DeliveredParted ==
  ASSUME NEW u, NEW e, DeliveredAs(u, e), EncodeDelivered(e) # None
  PROVE  /\ Reader(EncodeDelivered(e)) = Holding(<< >>, Restrict(u, NamesWritten(e)))
         /\ EncodeDelivered(e) \in Seq(Nat)
  <1> DEFINE a == FlattenSeq(DeliveredParts(e))  b == FlattenSeq(SpanParts(e))  c == FlattenSeq(IdentityParts(e))
             cells == EncodeDelivered(e)  z == << >>
  <1>0. a \in Seq(Nat) /\ b \in Seq(Nat) /\ c \in Seq(Nat)
    BY SecondLays, SpansLay, IdentityLays, PartsMake
  <1>1. cells = a \o (IF HasSpans(e) THEN b ELSE << >>) \o (IF e.delivery_id # None THEN c ELSE << >>)
    BY DEF EncodeDelivered
  <1>2. \A s \in Seq(Nat) : Read(Holding(b \o s, Restrict(u, FirstNames)), SpanLayout) = Holding(s, Restrict(u, SpanWords \cup FirstNames)) /\ b \o s \in Seq(Nat)
    BY SpanPart
  <1>3. \A s \in Seq(Nat) : \A N : Read(Holding(c \o s, Restrict(u, N)), IdentityLayout) = Holding(s, Restrict(u, IdentityNames \cup N))
    BY IdentityPart
  <1>4. c # << >>
    BY IdentityPart, <1>0
  <1>5. \A s \in Seq(Nat) : cells = a \o s =>
          Read(Reading(cells), SecondLayout) = Holding(s, Restrict(u, FirstNames)) /\ cells # << >> /\ cells[1] = DeliveredVersion(e)
    BY FirstPart
  <1>6. /\ z \in Seq(Nat) /\ a \o z = a /\ b \o z = b /\ c \o z = c /\ (a \o z) \o z = a \o z
        /\ (a \o z) \o c = a \o c /\ (a \o b) \o z = a \o (b \o z) /\ (a \o b) \o c = a \o (b \o c)
    <2> HIDE DEF a, b, c
    <2>1. z \in Seq(Nat) /\ a \o z = a /\ b \o z = b /\ c \o z = c
      BY <1>0, ConcatEmptySeq
    <2> HIDE DEF z
    <2>2. (a \o b) \o z = a \o (b \o z) /\ (a \o b) \o c = a \o (b \o c)
      BY <1>0, <2>1, Associates
    <2> QED BY <2>1, <2>2
  <1>12. cells \in Seq(Nat)
    <2> HIDE DEF a, b, c, cells
    <2> DEFINE x == IF HasSpans(e) THEN b ELSE << >>  y == IF e.delivery_id # None THEN c ELSE << >>
    <2>1. x \in Seq(Nat) /\ y \in Seq(Nat)
      BY <1>0
    <2>2. cells = a \o x \o y
      BY <1>1
    <2> HIDE DEF x, y
    <2>3. a \o x \in Seq(Nat)
      BY <1>0, <2>1, BothAre
    <2>4. a \o x \o y \in Seq(Nat)
      BY <2>1, <2>3, BothAre
    <2> QED BY <2>2, <2>4
  <1> HIDE DEF a, b, c, cells
  <1>7. \A s, g : Holding(s, g).rest = s
    BY HoldingIs
  <1>8. CASE ~HasSpans(e) /\ e.delivery_id = None
    <2>1. cells = a \o z
      BY <1>1, <1>6, <1>8
    <2>2. DeliveredVersion(e) = 2 /\ NamesWritten(e) = FirstNames
      BY <1>8 DEF DeliveredVersion, NamesWritten
    <2>3. Read(Reading(cells), SecondLayout) = Holding(<< >>, Restrict(u, FirstNames)) /\ cells # << >> /\ cells[1] = 2
      BY <1>5, <1>6, <2>1, <2>2
    <2> QED BY <1>12, <2>2, <2>3 DEF Reader, cells
  <1>9. CASE ~HasSpans(e) /\ e.delivery_id # None
    <2>1. cells = a \o c
      BY <1>1, <1>6, <1>9
    <2>2. DeliveredVersion(e) = 3 /\ NamesWritten(e) = IdentityNames \cup FirstNames
      BY <1>9 DEF DeliveredVersion, NamesWritten
    <2>3. Read(Reading(cells), SecondLayout) = Holding(c, Restrict(u, FirstNames)) /\ cells # << >> /\ cells[1] = 3
      BY <1>0, <1>5, <2>1, <2>2
    <2>4. Read(Holding(c, Restrict(u, FirstNames)), IdentityLayout) = Holding(<< >>, Restrict(u, IdentityNames \cup FirstNames))
      BY <1>3, <1>6
    <2> QED BY <1>12, <2>2, <2>3, <2>4 DEF Reader, cells
  <1>10. CASE HasSpans(e) /\ e.delivery_id = None
    <2>1. cells = a \o b
      BY <1>1, <1>6, <1>10
    <2>2. DeliveredVersion(e) = 4 /\ NamesWritten(e) = SpanWords \cup FirstNames
      BY <1>10 DEF DeliveredVersion, NamesWritten
    <2>3. Read(Reading(cells), SecondLayout) = Holding(b, Restrict(u, FirstNames)) /\ cells # << >> /\ cells[1] = 4
      BY <1>0, <1>5, <2>1, <2>2
    <2>4. Read(Holding(b, Restrict(u, FirstNames)), SpanLayout) = Holding(<< >>, Restrict(u, SpanWords \cup FirstNames))
      BY <1>2, <1>6
    <2>5. FourthRest(Holding(<< >>, Restrict(u, SpanWords \cup FirstNames))) = Holding(<< >>, Restrict(u, SpanWords \cup FirstNames))
      BY <1>7 DEF FourthRest
    <2> QED BY <1>12, <2>2, <2>3, <2>4, <2>5 DEF Reader, cells
  <1>11. CASE HasSpans(e) /\ e.delivery_id # None
    <2>1. cells = a \o (b \o c) /\ b \o c \in Seq(Nat)
      BY <1>0, <1>1, <1>2, <1>6, <1>11
    <2>2. DeliveredVersion(e) = 4 /\ NamesWritten(e) = IdentityNames \cup (SpanWords \cup FirstNames)
      BY <1>11 DEF DeliveredVersion, NamesWritten
    <2>3. Read(Reading(cells), SecondLayout) = Holding(b \o c, Restrict(u, FirstNames)) /\ cells # << >> /\ cells[1] = 4
      BY <1>5, <2>1, <2>2
    <2>4. Read(Holding(b \o c, Restrict(u, FirstNames)), SpanLayout) = Holding(c, Restrict(u, SpanWords \cup FirstNames))
      BY <1>0, <1>2
    <2>5. FourthRest(Holding(c, Restrict(u, SpanWords \cup FirstNames))) = Holding(<< >>, Restrict(u, IdentityNames \cup (SpanWords \cup FirstNames)))
      <3>1. Read(Holding(c, Restrict(u, SpanWords \cup FirstNames)), IdentityLayout) = Holding(<< >>, Restrict(u, IdentityNames \cup (SpanWords \cup FirstNames)))
        BY <1>3, <1>6
      <3> QED BY <1>4, <1>7, <3>1 DEF FourthRest
    <2> QED BY <1>12, <2>2, <2>3, <2>4, <2>5 DEF Reader, cells
  <1> QED BY <1>8, <1>9, <1>10, <1>11, <1>12 DEF cells

(* What is not written is recorded as what its absence reads as.            *)
LEMMA RecordedIs ==
  ASSUME NEW u, NEW e, DeliveredAs(u, e), NEW f, f = Recorded("delivered", e)
  PROVE  /\ IsFunction(f) /\ DOMAIN f = DOMAIN e
         /\ \A x \in FirstNames \ {"magic"} : f[x] = e[x]
         /\ \A x \in Valids : f[x] = e[x]
         /\ \A x \in SpanWords \ Valids : f[x] = IF HasSpans(e) THEN e[x] ELSE 0
         /\ \A x \in IdentityNames : f[x] = IF e.delivery_id # None THEN e[x] ELSE Absent[x]
  <1> DEFINE a == IF e.delivery_id = None THEN Unidentified(e) ELSE e
             s == SpanWords \ Valids
             b == [a EXCEPT !.message_id_span_start = 0, !.message_id_span_end = 0,
                            !.subject_span_start = 0, !.subject_span_end = 0]
  <1>1. DOMAIN e = (FirstNames \cup SpanWords \cup IdentityNames) \ {"magic"} /\ IsFunction(e)
    BY DEF DeliveredAs
  <1>2. /\ IsFunction(a) /\ DOMAIN a = DOMAIN e
        /\ \A x \in DOMAIN e \ IdentityNames : a[x] = e[x]
        /\ \A x \in IdentityNames : a[x] = IF e.delivery_id # None THEN e[x] ELSE Absent[x]
    <2>1. CASE e.delivery_id = None
      <3>1. DOMAIN Unidentified(e) = DOMAIN e /\ IsFunction(Unidentified(e))
        BY <1>1 DEF Unidentified, IsFunction
      <3>2. \A x \in DOMAIN e \ IdentityNames : Unidentified(e)[x] = e[x]
        BY <1>1 DEF Unidentified, IdentityNames, IdentityNullables, IdentityLists
      <3>3. \A x \in IdentityNames : Unidentified(e)[x] = Absent[x]
        <4>1. "delivery_id" \in DOMAIN e /\ "queue_id" \in DOMAIN e /\ "account_identity" \in DOMAIN e
              /\ "envelope_sender" \in DOMAIN e /\ "recipients" \in DOMAIN e
          BY <1>1 DEF IdentityNames, IdentityNullables, IdentityLists
        <4> DEFINE v == Unidentified(e)
        <4>2. /\ v["delivery_id"] = None /\ v["queue_id"] = None /\ v["account_identity"] = None
              /\ v["envelope_sender"] = None /\ v["recipients"] = << >>
          BY <4>1 DEF Unidentified
        <4> HIDE DEF v
        <4>3. /\ Absent["delivery_id"] = None /\ Absent["queue_id"] = None /\ Absent["account_identity"] = None
              /\ Absent["envelope_sender"] = None /\ Absent["recipients"] = << >>
          BY DEF Absent
        <4>4. \A x \in IdentityNames : v[x] = Absent[x]
          BY <4>2, <4>3 DEF IdentityNames, IdentityNullables, IdentityLists
        <4> QED BY <4>4 DEF v
      <3> QED BY <2>1, <3>1, <3>2, <3>3
    <2>2. CASE e.delivery_id # None
      BY <1>1, <2>2
    <2> QED BY <2>1, <2>2
  <1>3. s = {"message_id_span_start", "message_id_span_end", "subject_span_start", "subject_span_end"}
    BY DEF SpanWords, Valids
  <1>4. (FirstNames \ {"magic"}) \cap IdentityNames = {} /\ SpanWords \cap IdentityNames = {}
        /\ FirstNames \cap SpanWords = {} /\ Valids \subseteq SpanWords /\ "magic" \notin SpanWords \cup IdentityNames
    BY DEF FirstNames, SpanWords, IdentityNames, IdentityNullables, IdentityLists, DeliveredWords,
           DeliveredStrings, DeliveredNullables, Valids
  <1>5. f = IF HasSpans(e) THEN a ELSE b
    BY DEF Recorded
  <1> HIDE DEF a
  <1>6. /\ IsFunction(b) /\ DOMAIN b = DOMAIN a
        /\ \A x \in DOMAIN a \ s : b[x] = a[x]
        /\ \A x \in s : b[x] = 0
    <2>1. IsFunction(b) /\ DOMAIN b = DOMAIN a
      BY <1>2 DEF IsFunction
    <2>2. \A x \in DOMAIN a \ s : b[x] = a[x]
      BY <1>2, <1>3
    <2>3. s \subseteq DOMAIN a
      BY <1>1, <1>2, <1>4
    <2>4. \A x \in s : b[x] = 0
      BY <1>3, <2>3
    <2> QED BY <2>1, <2>2, <2>4
  <1> HIDE DEF b
  <1>7. s \subseteq DOMAIN a /\ s = SpanWords \ Valids
    BY <1>1, <1>2, <1>4
  <1> HIDE DEF s
  <1> QED BY <1>1, <1>2, <1>4, <1>5, <1>6, <1>7

(* What is not written is read as absent.                                  *)
LEMMA AbsentIs ==
  ASSUME NEW u, NEW e, DeliveredAs(u, e), NEW w, w = Restrict(u, NamesWritten(e) \ Marks),
         NEW g, g = Onto(w, Absent)
  PROVE  /\ IsFunction(g) /\ DOMAIN g = DOMAIN e
         /\ \A x \in FirstNames \ {"magic"} : g[x] = e[x]
         /\ \A x \in Valids : g[x] = IF HasSpans(e) THEN u[x] ELSE 0
         /\ \A x \in SpanWords \ Valids : g[x] = IF HasSpans(e) THEN e[x] ELSE 0
         /\ \A x \in IdentityNames : g[x] = IF e.delivery_id # None THEN e[x] ELSE Absent[x]
  <1> DEFINE N == NamesWritten(e) \ Marks
  <1>1. DOMAIN e = (FirstNames \cup SpanWords \cup IdentityNames) \ {"magic"}
        /\ \A x \in (FirstNames \cup SpanWords \cup IdentityNames) \ ({"magic"} \cup Valids) : u[x] = e[x]
    BY DEF DeliveredAs
  <1>2. DOMAIN Absent = (FirstNames \cup SpanWords \cup IdentityNames) \ {"magic", "object_key"}
    BY DEF Absent, FirstNames, SpanWords, IdentityNames, IdentityNullables, IdentityLists, DeliveredWords,
           DeliveredStrings, DeliveredNullables
  <1>3. (FirstNames \ {"magic"}) \cap IdentityNames = {} /\ SpanWords \cap IdentityNames = {}
        /\ FirstNames \cap SpanWords = {} /\ Valids \subseteq SpanWords
        /\ FirstNames \cap Marks = {"magic"} /\ SpanWords \cap Marks = {} /\ IdentityNames \cap Marks = {}
        /\ "magic" \in FirstNames /\ "object_key" \in FirstNames
        /\ \A x \in SpanWords : Absent[x] = 0
    BY DEF FirstNames, SpanWords, IdentityNames, IdentityNullables, IdentityLists, DeliveredWords,
           DeliveredStrings, DeliveredNullables, Valids, Marks, Absent
  <1>4. N = (FirstNames \ {"magic"}) \cup (IF HasSpans(e) THEN SpanWords ELSE {})
            \cup (IF e.delivery_id # None THEN IdentityNames ELSE {})
    BY <1>3 DEF NamesWritten, Marks
  <1> HIDE DEF N
  <1>5. DOMAIN w = N /\ \A x \in N : w[x] = u[x]
    BY DEF Restrict, N
  <1>6. IsFunction(g) /\ DOMAIN g = N \cup DOMAIN Absent
        /\ \A x \in N \cup DOMAIN Absent : g[x] = IF x \in N THEN u[x] ELSE Absent[x]
    BY <1>5 DEF Onto, IsFunction
  <1>7. N \cup DOMAIN Absent = DOMAIN e
    BY <1>1, <1>2, <1>3, <1>4
  <1>8. \A x \in FirstNames \ {"magic"} : g[x] = e[x]
    <2>1. \A x \in FirstNames \ {"magic"} : x \in N /\ x \notin Valids
      BY <1>3, <1>4
    <2> QED BY <1>1, <1>6, <2>1
  <1>9. \A x \in SpanWords : x \in DOMAIN Absent /\ (HasSpans(e) => x \in N) /\ (~HasSpans(e) => x \notin N)
    BY <1>2, <1>3, <1>4
  <1>10. \A x \in SpanWords : g[x] = IF HasSpans(e) THEN u[x] ELSE 0
    BY <1>3, <1>6, <1>9
  <1>11. \A x \in SpanWords \ Valids : u[x] = e[x]
    BY <1>1, <1>3
  <1>12. \A x \in IdentityNames : x \in DOMAIN Absent /\ (x \in N) = (e.delivery_id # None) /\ u[x] = e[x]
    BY <1>1, <1>2, <1>3, <1>4
  <1>13. \A x \in IdentityNames : g[x] = IF e.delivery_id # None THEN e[x] ELSE Absent[x]
    BY <1>6, <1>12
  <1> QED BY <1>3, <1>6, <1>7, <1>8, <1>10, <1>11, <1>13

(* A delivery reads as it was written, but for what there was no room for. *)
LEMMA DeliveredRead ==
  ASSUME NEW e \in EventTypes("delivered"), EncodeDelivered(e) # None
  PROVE  EncodeDelivered(e) \in Seq(Nat) /\ DecodeDelivered(EncodeDelivered(e)) = Recorded("delivered", e)
  <1> DEFINE cells == EncodeDelivered(e)  f == Recorded("delivered", e)
  <1>1. PICK u : DeliveredAs(u, e)
    BY DeliveredIs DEF EncodeDelivered
  <1> DEFINE r == Reader(cells)  w == Got(r)  g == Onto(w, Absent)
             h == [g EXCEPT !.message_id_span_valid = @ # 0, !.subject_span_valid = @ # 0]
  <1>2. DecodeDelivered(cells) = IF /\ r.ok /\ r.rest = << >> /\ IsKey(g.object_key)
                                    /\ "delivery_id" \in DOMAIN r.got => g.delivery_id # None
                                 THEN h ELSE None
    BY DEF DecodeDelivered, Reader
  <1> DEFINE N == NamesWritten(e)
  <1>3. r = Holding(<< >>, Restrict(u, N)) /\ cells \in Seq(Nat)
    BY <1>1, DeliveredParted
  <1> HIDE DEF N, cells, r
  <1>4. r.ok /\ r.rest = << >> /\ w = Restrict(u, N \ Marks) /\ DOMAIN r.got = N
    <2>1. r.ok /\ r.rest = << >> /\ r.got = Restrict(u, N) /\ Got(r) = Restrict(u, N \ Marks)
      BY <1>3, GotIs
    <2>2. DOMAIN Restrict(u, N) = N
      BY DEF Restrict
    <2> QED BY <2>1, <2>2
  <1> HIDE DEF w
  <1>5. /\ IsFunction(g) /\ DOMAIN g = DOMAIN e
        /\ \A x \in FirstNames \ {"magic"} : g[x] = e[x]
        /\ \A x \in Valids : g[x] = IF HasSpans(e) THEN u[x] ELSE 0
        /\ \A x \in SpanWords \ Valids : g[x] = IF HasSpans(e) THEN e[x] ELSE 0
        /\ \A x \in IdentityNames : g[x] = IF e.delivery_id # None THEN e[x] ELSE Absent[x]
    <2> HIDE DEF h, f, g
    <2>1. w = Restrict(u, NamesWritten(e) \ Marks) /\ g = Onto(w, Absent)
      BY <1>4 DEF N, g
    <2> QED BY <1>1, <2>1, AbsentIs
  <1>6. /\ IsFunction(f) /\ DOMAIN f = DOMAIN e
        /\ \A x \in FirstNames \ {"magic"} : f[x] = e[x]
        /\ \A x \in Valids : f[x] = e[x]
        /\ \A x \in SpanWords \ Valids : f[x] = IF HasSpans(e) THEN e[x] ELSE 0
        /\ \A x \in IdentityNames : f[x] = IF e.delivery_id # None THEN e[x] ELSE Absent[x]
    BY <1>1, RecordedIs
  <1> HIDE DEF f, g
  <1>7. /\ u["message_id_span_valid"] = Bit(e.message_id_span_valid)
        /\ u["subject_span_valid"] = Bit(e.subject_span_valid)
        /\ DOMAIN e = (FirstNames \cup SpanWords \cup IdentityNames) \ {"magic"}
        /\ \A x \in Valids : e[x] \in BOOLEAN
        /\ IsKey(e["object_key"])
    BY <1>1 DEF DeliveredAs
  <1>8. IsKey(g.object_key)
    <2>1. "object_key" \in FirstNames \ {"magic"}
      BY DEF FirstNames, DeliveredStrings
    <2> QED BY <1>5, <1>7, <2>1
  <1>9. "delivery_id" \in DOMAIN r.got => g.delivery_id # None
    <2>1. "delivery_id" \in IdentityNames /\ "delivery_id" \notin FirstNames \cup SpanWords
      BY DEF IdentityNames, IdentityNullables, FirstNames, SpanWords, DeliveredWords, DeliveredStrings, DeliveredNullables
    <2>2. "delivery_id" \in N => e.delivery_id # None
      BY <2>1 DEF N, NamesWritten
    <2> QED BY <1>4, <1>5, <2>1, <2>2
  <1>10. /\ IsFunction(h) /\ DOMAIN h = DOMAIN e
         /\ \A x \in DOMAIN e \ Valids : h[x] = g[x]
         /\ \A x \in Valids : h[x] = (g[x] # 0)
    <2>1. IsFunction(h) /\ DOMAIN h = DOMAIN e
      BY <1>5 DEF IsFunction
    <2>2. \A x \in DOMAIN e \ Valids : h[x] = g[x]
      BY <1>5 DEF Valids
    <2>3. "message_id_span_valid" \in DOMAIN g /\ "subject_span_valid" \in DOMAIN g
      BY <1>5, <1>7 DEF SpanWords
    <2>4. h["message_id_span_valid"] = (g["message_id_span_valid"] # 0) /\ h["subject_span_valid"] = (g["subject_span_valid"] # 0)
      BY <2>3
    <2> HIDE DEF h
    <2> QED BY <2>1, <2>2, <2>4 DEF Valids
  <1> HIDE DEF h
  <1>11. \A x \in Valids : (g[x] # 0) = e[x]
    <2>1. e.message_id_span_valid \in BOOLEAN /\ e.subject_span_valid \in BOOLEAN
      BY <1>7 DEF Valids
    <2>2. /\ g["message_id_span_valid"] = IF HasSpans(e) THEN Bit(e.message_id_span_valid) ELSE 0
          /\ g["subject_span_valid"] = IF HasSpans(e) THEN Bit(e.subject_span_valid) ELSE 0
      BY <1>5, <1>7 DEF Valids
    <2>3. (g["message_id_span_valid"] # 0) = e.message_id_span_valid /\ (g["subject_span_valid"] # 0) = e.subject_span_valid
      BY <2>1, <2>2 DEF Bit, HasSpans
    <2> QED BY <2>3 DEF Valids
  <1>12. h = f
    <2>1. \A x \in DOMAIN e \ Valids : h[x] = f[x]
      BY <1>5, <1>6, <1>7, <1>10
    <2>2. \A x \in Valids : h[x] = f[x]
      BY <1>6, <1>10, <1>11
    <2>3. \A x \in DOMAIN e : h[x] = f[x]
      BY <2>1, <2>2
    <2> QED BY <1>6, <1>10, <2>3, SameValue
  <1>13. DecodeDelivered(cells) = f
    BY <1>2, <1>4, <1>8, <1>9, <1>12
  <1> QED BY <1>3, <1>13 DEF cells, f

(* What an encoder accepts its decoder reads, and as what is recorded: the *)
(* layouts of encode and decode agree for every value of every type.       *)
LEMMA RoundTrip ==
  ASSUME NEW type \in EventKinds, NEW e \in EventTypes(type), Encode(type, e) # None
  PROVE  Encode(type, e) \in Seq(Nat) /\ Decode(type, Encode(type, e)) = Recorded(type, e)
  <1>1. CASE type = "delivered"
    BY <1>1, DeliveredRead DEF Encode, Decode
  <1>2. CASE type = "appended"
    BY <1>2, AppendedRead DEF Encode, Decode, Recorded, EncodeAppended
  <1>3. CASE type = "copied"
    BY <1>3, CopiedRead DEF Encode, Decode, Recorded
  <1>4. CASE type = "audit"
    BY <1>4, AuditRead DEF Encode, Decode
  <1>5. CASE type = "flags"
    BY <1>5, FlagsRead DEF Encode, Decode, Recorded, EncodeFlags
  <1>6. CASE type = "view"
    BY <1>6, ViewRead DEF Encode, Decode, Recorded
  <1>7. CASE type = "facts"
    BY <1>7, FactsRead DEF Encode, Decode, Recorded
  <1>8. CASE type = "expunged"
    BY <1>8, ExpungedRead DEF Encode, Decode, Recorded, EncodeExpunged
  <1>9. CASE type = "mutation"
    BY <1>9, MutationRead DEF Encode, Decode, Recorded, EncodeMutation
  <1> QED BY <1>1, <1>2, <1>3, <1>4, <1>5, <1>6, <1>7, <1>8, <1>9 DEF EventKinds

(* The facts found in a stored message are fact records, if any.           *)
LEMMA ExtractedIsTyped ==
  ASSUME NEW m \in Stored, NEW rules, rules = RulesFrom(m.file), rules # None,
         NEW facts, facts = Extract(<< 1 >>, m.mail, rules), facts # None
  PROVE  [account_id |-> <<2>>, message_id |-> <<1>>, extracted_at |-> 1, facts |-> facts] \in EventTypes("facts")
  <1>1. facts \in Seq(FactTexts)
    BY StoredAssumption
  <1>2. \A f \in ToSet(facts) : FactRecord(f, 1)
    BY DEF Extract, AllRecords
  <1>3. \A i \in 1 .. Len(facts) : facts[i] \in FactTypes
    BY <1>1, <1>2 DEF ToSet, FactTypes
  <1>4. facts \in Seq(FactTypes)
    BY <1>1, <1>3
  <1>5. <<1>> \in Nullables /\ <<2>> \in Nullables
    BY RequestsAssumption DEF Nullables, CStrings
  <1> QED BY <1>4, <1>5 DEF EventTypes

(* What a record holds, at every stage but a foreign one, is what its      *)
(* value is encoded as.                                                    *)
RecordInv ==
  \/ record.stage \in {"none", "refused", "stuck", "foreign"}
  \/ /\ record.stage \in {"written", "extracted"}
     /\ record.type \in EventKinds /\ record.value \in EventTypes(record.type)
     /\ record.cells = Encode(record.type, record.value) /\ record.cells # None
  \/ record.stage = "read" /\ (record.own => record.seen = Recorded(record.type, record.value))
RecordShape ==
  \/ record.stage # "written"
  \/ record = [stage |-> "written", type |-> record.type, value |-> record.value, cells |-> record.cells]

(* The record is what its event was written as, until it is read. *)
LEMMA RecordInvCorrect == Spec => [](RecordInv /\ RecordShape)
  <1>1. Init => RecordInv /\ RecordShape
    BY DEF Init, NoRecord, RecordInv, RecordShape
  <1>2. RecordInv /\ RecordShape /\ [Next]_vars => RecordInv' /\ RecordShape'
    <2> SUFFICES ASSUME RecordInv, RecordShape, [Next]_vars PROVE RecordInv' /\ RecordShape'
      OBVIOUS
    <2>1. CASE WriteRecord
      <3>1. PICK e \in Events : record' = [stage |-> IF Encode(e.type, e.value) = None THEN "refused" ELSE "written",
                                           type |-> e.type, value |-> e.value, cells |-> Encode(e.type, e.value)]
        BY <2>1 DEF WriteRecord
      <3>2. e.type \in EventKinds /\ e.value \in EventTypes(e.type)
        BY EventsAssumption
      <3> DEFINE cells == Encode(e.type, e.value)
      <3> HIDE DEF cells
      <3>3. /\ record'.stage = IF cells = None THEN "refused" ELSE "written"
            /\ record'.type = e.type /\ record'.value = e.value /\ record'.cells = cells
            /\ record' = [stage |-> IF cells = None THEN "refused" ELSE "written",
                          type |-> e.type, value |-> e.value, cells |-> cells]
        BY <3>1 DEF cells
      <3>4. RecordShape'
        BY <3>3 DEF RecordShape
      <3>5. RecordInv'
        BY <3>2, <3>3 DEF RecordInv, cells
      <3> QED BY <3>4, <3>5
    <2>2. CASE ExtractFacts
      <3>1. PICK m \in Stored : \E rules \in {RulesFrom(m.file)} :
              /\ rules # None
              /\ \E facts \in {Extract(<<1>>, m.mail, rules)} :
                   LET value == [account_id |-> <<2>>, message_id |-> <<1>>, extracted_at |-> 1, facts |-> facts]
                       cells == IF facts = None THEN None ELSE EncodeFacts(value)
                   IN  record' = [stage |-> IF cells = None THEN "stuck" ELSE "extracted", type |-> "facts",
                                  value |-> value, cells |-> cells]
        BY <2>2 DEF ExtractFacts
      <3> DEFINE rules == RulesFrom(m.file)
                 facts == Extract(<<1>>, m.mail, rules)
                 value == [account_id |-> <<2>>, message_id |-> <<1>>, extracted_at |-> 1, facts |-> facts]
                 cells == IF facts = None THEN None ELSE EncodeFacts(value)
      <3>2. /\ rules # None
            /\ record' = [stage |-> IF cells = None THEN "stuck" ELSE "extracted", type |-> "facts",
                          value |-> value, cells |-> cells]
        BY <3>1
      <3>3. cells # None => value \in EventTypes("facts") /\ cells = EncodeFacts(value)
        BY <3>2, ExtractedIsTyped
      <3> HIDE DEF cells, value
      <3>4. /\ record'.stage = IF cells = None THEN "stuck" ELSE "extracted"
            /\ record'.type = "facts" /\ record'.value = value /\ record'.cells = cells
        BY <3>2
      <3>5. EncodeFacts(value) = Encode("facts", value) /\ "facts" \in EventKinds
        BY DEF Encode, EventKinds
      <3> QED BY <3>3, <3>4, <3>5 DEF RecordInv, RecordShape
    <2>3. CASE WriteForeign
      <3>1. PICK cells : record' = [record EXCEPT !.stage = "foreign", !.cells = cells]
        BY <2>3 DEF WriteForeign
      <3>2. record = [stage |-> "written", type |-> record.type, value |-> record.value, cells |-> record.cells]
        BY <2>3 DEF WriteForeign, RecordShape
      <3>3. record'.stage = "foreign"
        BY <3>1, <3>2
      <3> QED BY <3>3 DEF RecordInv, RecordShape
    <2>4. CASE ReadRecord
      <3>1. /\ record'.stage = "read" /\ record'.own = (record.stage # "foreign") /\ record'.type = record.type
            /\ record'.value = record.value /\ record'.seen = Decode(record.type, record.cells)
            /\ record.stage \in {"written", "extracted", "foreign"}
        BY <2>4 DEF ReadRecord
      <3>2. record'.own => record'.seen = Recorded(record'.type, record'.value)
        <4> SUFFICES ASSUME record.stage # "foreign" PROVE Decode(record.type, record.cells) = Recorded(record.type, record.value)
          BY <3>1
        <4>1. /\ record.type \in EventKinds /\ record.value \in EventTypes(record.type)
              /\ record.cells = Encode(record.type, record.value) /\ record.cells # None
          BY <3>1 DEF RecordInv
        <4> QED BY <4>1, RoundTrip
      <3> QED BY <3>1, <3>2 DEF RecordInv, RecordShape
    <2>5. CASE UNCHANGED record
      BY <2>5 DEF RecordInv, RecordShape
    <2> QED BY <2>1, <2>2, <2>3, <2>4, <2>5 DEF Next, vars, Send, Receive, Execute, Understand
  <1> QED BY <1>1, <1>2, PTL DEF Spec

(* What the encoder accepts every reader understands, and as what it was,  *)
(* whatever the events, the stored messages and the length that means none *)
(* are.                                                                    *)
THEOREM WrittenIsReadableCorrect == Spec => []WrittenIsReadable
  <1>1. RecordInv => WrittenIsReadable
    BY DEF RecordInv, WrittenIsReadable
  <1> QED BY <1>1, RecordInvCorrect, PTL

(* What is checked of the names in a request is enough for its record.     *)
LEMMA NamesSuffice ==
  ASSUME NEW flags \in Seq(CStrings), NEW keywords \in Seq(CStrings), Names(flags, keywords, IsUserKeyword)
  PROVE  Names(flags, keywords, IsKeyword)
  <1>1. ASSUME NEW k \in CStrings, IsUserKeyword(k) PROVE IsKeyword(k)
    <2>1. /\ k # << >> /\ ToSet(k) \subseteq {1, 2} /\ k \in Seq(Nat \ {0})
      BY <1>1 DEF IsUserKeyword, IsToken, Required, Letters, CStrings
    <2>2. k[1] \in ToSet(k)
      BY <2>1 DEF ToSet
    <2>3. k[1] # 4 /\ 3 \notin ToSet(k)
      BY <2>1, <2>2
    <2> QED BY <2>1, <2>3 DEF IsKeyword, NoControl, Control, Backslash
  <1>2. ToSet(keywords) \subseteq CStrings
    BY DEF ToSet
  <1> QED BY <1>1, <1>2 DEF Names

(* A delivery with a proper key and id has a layout to write it in.        *)
LEMMA DeliveredWritten ==
  ASSUME NEW e \in EventTypes("delivered"), IsKey(e.object_key), e.delivery_id # << >>
  PROVE  EncodeDelivered(e) # None
  <1>1. PICK u : DeliveredAs(u, e)
    BY DeliveredIs
  <1> DEFINE x == FlattenSeq(DeliveredParts(e))
             y == IF HasSpans(e) THEN FlattenSeq(SpanParts(e)) ELSE << >>
             z == IF e.delivery_id # None THEN FlattenSeq(IdentityParts(e)) ELSE << >>
  <1>2. x \in Seq(Nat)
    BY <1>1, SecondLays, PartsMake
  <1>3. y \in Seq(Nat)
    BY <1>1, SpansLay, PartsMake
  <1>4. z \in Seq(Nat)
    BY <1>1, IdentityLays, PartsMake
  <1>5. EncodeDelivered(e) = x \o y \o z
    BY DEF EncodeDelivered
  <1> HIDE DEF x, y, z
  <1>6. (x \o y) \o z \in Seq(Nat)
    BY <1>2, <1>3, <1>4, ConcatProperties
  <1> QED BY <1>5, <1>6, NoneAssumption

(* A delivery is recorded with what the headers of its message say.        *)
LEMMA DeliveryRecorded ==
  ASSUME NEW m \in Messages, NEW b \in BodyTypes("delivery"), Delivery(b) # None, NEW account \in Nullables,
         NEW e, e = Onto(m, [delivery_id |-> b.delivery_id, queue_id |-> b.queue_id,
                             account_identity |-> account,
                             envelope_sender |-> b.sender, recipients |-> b.recipients])
  PROVE  e \in EventTypes("delivered") /\ EncodeDelivered(e) # None
  <1>1. m \in HeaderTypes /\ IsKey(m.object_key)
    BY MessagesAssumption
  <1>2. /\ b.delivery_id \in Nullables /\ b.queue_id \in Nullables /\ b.sender \in Nullables
        /\ b.recipients \in Seq(CStrings)
    BY DEF BodyTypes
  <1>3. Required(b.delivery_id)
    BY DEF Delivery, IsPlain
  <1>4. CStrings \subseteq Nullables
    BY DEF Nullables
  <1>5. e \in EventTypes("delivered") /\ e.object_key = m.object_key /\ e.delivery_id = b.delivery_id
    BY <1>1, <1>2, <1>4 DEF HeaderTypes, EventTypes, Onto
  <1>6. EncodeDelivered(e) # None
    BY <1>1, <1>3, <1>5, DeliveredWritten DEF Required
  <1> QED BY <1>5, <1>6

(* A request for flags is recorded under the number of its mode.           *)
LEMMA FlagsRecorded ==
  ASSUME NEW b \in BodyTypes("flags"), FlagUpdate(b) # None,
         NEW e, e = Onto(FlagNames(b), [account_id |-> b.account, mailbox_id |-> b.mailbox, uid |-> b.uid,
                                        uidvalidity |-> b.uidvalidity, mode |-> ModeNumber[b.mode]])
  PROVE  e \in EventTypes("flags") /\ ValidFlags(e)
  <1>1. /\ b.account \in Nullables /\ b.mailbox \in Nullables /\ b.uid \in Nat /\ b.uidvalidity \in Nat
        /\ b.flags \in Seq(CStrings) /\ b.keywords \in Seq(CStrings)
    BY DEF BodyTypes
  <1>2. /\ Required(b.account) /\ Required(b.mailbox) /\ b.uidvalidity # 0 /\ b.uid # 0 /\ b.mode \in Modes
        /\ Names(b.flags, b.keywords, IsUserKeyword)
        /\ b.mode = "replace" \/ b.flags # << >> \/ b.keywords # << >>
    BY DEF FlagUpdate, IsPlain
  <1>3. Names(b.flags, b.keywords, IsKeyword)
    BY <1>1, <1>2, NamesSuffice
  <1>4. ModeNumber[b.mode] \in 0 .. 2 /\ (b.mode = "replace" => ModeNumber[b.mode] = 2)
    BY <1>2 DEF ModeNumber, Modes
  <1> DEFINE n == ModeNumber[b.mode]
  <1>5. n \in Nat
    BY <1>4
  <1> HIDE DEF n
  <1>6. /\ e = Onto(FlagNames(b), [account_id |-> b.account, mailbox_id |-> b.mailbox, uid |-> b.uid,
                                   uidvalidity |-> b.uidvalidity, mode |-> n])
    BY DEF n
  <1>7. e = [account_id |-> b.account, mailbox_id |-> b.mailbox, uid |-> b.uid,
             uidvalidity |-> b.uidvalidity, mode |-> n, system_flags |-> b.flags, user_keywords |-> b.keywords]
    BY <1>6 DEF Onto, FlagNames
  <1>8. e \in EventTypes("flags")
    BY <1>1, <1>5, <1>7 DEF EventTypes
  <1>9. n \in 0 .. 2 /\ (n = 2 \/ b.flags # << >> \/ b.keywords # << >>)
    BY <1>2, <1>4 DEF n
  <1>10. ValidFlags(e)
    BY <1>2, <1>3, <1>7, <1>9 DEF ValidFlags
  <1> QED BY <1>8, <1>10

(* A request to expunge is recorded as it is.                              *)
LEMMA ExpungeRecorded ==
  ASSUME NEW b \in BodyTypes("expunge"), Expunge(b) # None,
         NEW e, e = [account_id |-> b.account, mailbox_id |-> b.mailbox, uidvalidity |-> b.uidvalidity,
                     uids |-> b.uids]
  PROVE  e \in EventTypes("expunged") /\ ValidExpunged(e)
  <1>1. /\ b.account \in Nullables /\ b.mailbox \in Nullables /\ b.uidvalidity \in Nat /\ b.uids \in Seq(Nat)
    BY DEF BodyTypes
  <1>2. /\ Required(b.account) /\ Required(b.mailbox) /\ b.uidvalidity # 0 /\ Len(b.uids) \in 1 .. MaxUids
        /\ Ascending(b.uids)
    BY DEF Expunge, IsPlain, SomeUids
  <1>3. b.uids # << >>
    BY <1>2
  <1>4. e \in EventTypes("expunged")
    BY <1>1 DEF EventTypes
  <1> QED BY <1>2, <1>3, <1>4 DEF ValidExpunged

(* An APPEND is recorded with what the headers of its message say.         *)
LEMMA AppendRecorded ==
  ASSUME NEW m \in Messages, NEW b \in BodyTypes("append"), MessageAppend(b) # None,
         NEW e, e = Onto(Onto(m, FlagNames(b)), [account_id |-> b.account, mailbox_id |-> b.mailbox,
                                                 uidvalidity |-> b.uidvalidity, uid |-> 1])
  PROVE  e \in EventTypes("appended") /\ ValidAppended(e)
  <1>1. /\ m \in HeaderTypes /\ IsKey(m.object_key)
        /\ SpanAsWritten(m.message_id_span_valid, m.message_id_span_start, m.message_id_span_end)
        /\ SpanAsWritten(m.subject_span_valid, m.subject_span_start, m.subject_span_end)
    BY MessagesAssumption
  <1>2. /\ b.account \in Nullables /\ b.mailbox \in Nullables /\ b.uidvalidity \in Nat
        /\ b.flags \in Seq(CStrings) /\ b.keywords \in Seq(CStrings)
    BY DEF BodyTypes
  <1>3. /\ Required(b.account) /\ Required(b.mailbox) /\ b.uidvalidity # 0
        /\ Names(b.flags, b.keywords, IsUserKeyword)
    BY DEF MessageAppend, IsPlain
  <1>4. Names(b.flags, b.keywords, IsKeyword)
    BY <1>2, <1>3, NamesSuffice
  <1>5. CStrings \subseteq Nullables
    BY DEF Nullables
  <1> DEFINE f == Onto(m, FlagNames(b))
  <1>6. /\ f.system_flags = b.flags /\ f.user_keywords = b.keywords
        /\ DOMAIN f = DOMAIN m \cup {"system_flags", "user_keywords"} /\ \A x \in DOMAIN m : f[x] = m[x]
    BY <1>1 DEF Onto, FlagNames, HeaderTypes
  <1> HIDE DEF f
  <1>7. /\ DOMAIN e = DOMAIN f \cup {"account_id", "mailbox_id", "uidvalidity", "uid"}
        /\ e = [x \in DOMAIN e |-> e[x]]
        /\ \A x \in DOMAIN f : e[x] = f[x]
        /\ {"account_id", "mailbox_id", "uidvalidity", "uid"} \cap DOMAIN f = {} =>
             e.account_id = b.account /\ e.mailbox_id = b.mailbox /\ e.uidvalidity = b.uidvalidity /\ e.uid = 1
    BY DEF Onto, f
  <1>8. DOMAIN m = {"size_bytes", "internal_date", "duplicates", "object_key", "message_id", "subject", "from",
                    "to", "cc", "bcc", "date", "message_id_span_valid", "message_id_span_start",
                    "message_id_span_end", "subject_span_valid", "subject_span_start", "subject_span_end"}
    BY <1>1 DEF HeaderTypes
  <1>9. \A x \in DOMAIN m : e[x] = m[x]
    BY <1>6, <1>7
  <1>10. /\ e.account_id = b.account /\ e.mailbox_id = b.mailbox /\ e.uidvalidity = b.uidvalidity /\ e.uid = 1
         /\ e.system_flags = b.flags /\ e.user_keywords = b.keywords
    BY <1>6, <1>7, <1>8
  <1>11. e \in EventTypes("appended")
    <2>1. /\ e.size_bytes \in Nat /\ e.internal_date \in Nat /\ e.duplicates \in Nat
          /\ e.object_key \in Nullables /\ e.message_id \in Nullables /\ e.subject \in Nullables
          /\ e.from \in Nullables /\ e.to \in Nullables /\ e.cc \in Nullables
          /\ e.bcc \in Nullables /\ e.date \in Nullables
      BY <1>1, <1>5, <1>8, <1>9 DEF HeaderTypes
    <2>2. /\ e.message_id_span_valid \in BOOLEAN /\ e.message_id_span_start \in Nat
          /\ e.message_id_span_end \in Nat /\ e.subject_span_valid \in BOOLEAN
          /\ e.subject_span_start \in Nat /\ e.subject_span_end \in Nat
      BY <1>1, <1>8, <1>9 DEF HeaderTypes
    <2>3. /\ e.account_id \in Nullables /\ e.mailbox_id \in Nullables /\ e.uidvalidity \in Nat
          /\ e.uid \in Nat /\ e.system_flags \in Seq(CStrings) /\ e.user_keywords \in Seq(CStrings)
      BY <1>2, <1>10
    <2>4. /\ e = [x \in DOMAIN e |-> e[x]]
          /\ DOMAIN e = {"size_bytes", "internal_date", "duplicates", "object_key", "message_id",
                         "subject", "from", "to", "cc", "bcc", "date", "message_id_span_valid",
                         "message_id_span_start", "message_id_span_end", "subject_span_valid",
                         "subject_span_start", "subject_span_end", "system_flags", "user_keywords",
                         "account_id", "mailbox_id", "uidvalidity", "uid"}
      BY <1>6, <1>7, <1>8
    <2> QED BY <2>1, <2>2, <2>3, <2>4 DEF EventTypes
  <1>12. /\ e.object_key = m.object_key /\ e.message_id_span_valid = m.message_id_span_valid
         /\ e.message_id_span_start = m.message_id_span_start /\ e.message_id_span_end = m.message_id_span_end
         /\ e.subject_span_valid = m.subject_span_valid
         /\ e.subject_span_start = m.subject_span_start /\ e.subject_span_end = m.subject_span_end
    BY <1>8, <1>9
  <1>13. ValidAppended(e)
    BY <1>1, <1>3, <1>4, <1>10, <1>12 DEF ValidAppended
  <1> QED BY <1>11, <1>13

(* A fact is recorded under the number of what is done to it.              *)
LEMMA MutationRecorded ==
  ASSUME NEW b \in FactBodies, FactMutation(b) # None
  PROVE  MutationOf(b).value \in EventTypes("mutation") /\ ValidMutation(MutationOf(b).value)
  <1>1. /\ b.predicate \in Nullables /\ b.scope \in Nullables /\ b.arguments \in Seq(CStrings)
    BY DEF FactBodies
  <1>2. /\ b.mutation \in {"insert", "retract"} /\ IsPredicate(b.predicate) /\ IsPlain(b.scope)
        /\ \A a \in ToSet(b.arguments) : IsPlain(a)
    BY DEF FactMutation
  <1> DEFINE n == MutationNumber[b.mutation]
  <1>3. n \in 0 .. 1
    BY <1>2 DEF MutationNumber
  <1> HIDE DEF n
  <1>4. MutationOf(b).value = [mutation |-> n, predicate_id |-> b.predicate, scope_id |-> b.scope,
                               arguments |-> b.arguments]
    BY DEF MutationOf, n
  <1>5. n \in Nat
    BY <1>3
  <1>6. MutationOf(b).value \in EventTypes("mutation")
    BY <1>1, <1>4, <1>5 DEF EventTypes
  <1>7. ValidMutation(MutationOf(b).value)
    BY <1>2, <1>3, <1>4 DEF ValidMutation
  <1> QED BY <1>6, <1>7

(* What a request that was taken in is recorded as makes a record, and     *)
(* that one is read again as what is recorded.                             *)
Recordable(r) ==
  /\ Encode(r.type, r.value) # None
  /\ Decode(r.type, Encode(r.type, r.value)) = Recorded(r.type, r.value)

(* Every record of an accepted request can be written. *)
LEMMA RecordsAre ==
  ASSUME NEW kind \in RequestKinds, NEW d \in RequestTypes(kind), Checked(kind, d.body) # None,
         NEW m \in Messages, NEW r \in RecordsOf(d, m)
  PROVE  Recordable(r)
  <1>1. d.kind = kind /\ d.identity.account_identity \in Nullables /\ d.body \in BodyTypes(kind)
    BY DEF RequestTypes, Identities
  <1> DEFINE b == d.body
  <1>2. CASE kind = "delivery"
    <2> DEFINE e == Onto(m, [delivery_id |-> b.delivery_id, queue_id |-> b.queue_id,
                             account_identity |-> d.identity.account_identity,
                             envelope_sender |-> b.sender, recipients |-> b.recipients])
    <2>1. r = [type |-> "delivered", value |-> e]
      BY <1>1, <1>2 DEF RecordsOf
    <2>2. b \in BodyTypes("delivery") /\ Delivery(b) # None
      BY <1>1, <1>2 DEF Checked
    <2>3. e \in EventTypes("delivered") /\ EncodeDelivered(e) # None
      BY <1>1, <2>2, DeliveryRecorded
    <2> HIDE DEF e
    <2>4. r.type = "delivered" /\ r.value = e
      BY <2>1
    <2> QED BY <2>3, <2>4, DeliveredRead DEF Recordable, Encode, Decode
  <1>3. CASE kind = "flags"
    <2> DEFINE e == Onto(FlagNames(b), [account_id |-> b.account, mailbox_id |-> b.mailbox, uid |-> b.uid,
                                        uidvalidity |-> b.uidvalidity, mode |-> ModeNumber[b.mode]])
    <2>1. r = [type |-> "flags", value |-> e]
      BY <1>1, <1>3 DEF RecordsOf
    <2>2. b \in BodyTypes("flags") /\ FlagUpdate(b) # None
      BY <1>1, <1>3 DEF Checked
    <2>3. e \in EventTypes("flags") /\ ValidFlags(e)
      BY <2>2, FlagsRecorded
    <2> HIDE DEF e
    <2>4. r.type = "flags" /\ r.value = e
      BY <2>1
    <2> QED BY <2>3, <2>4, FlagsRead DEF Recordable, Encode, Decode, Recorded
  <1>4. CASE kind = "expunge"
    <2> DEFINE e == [account_id |-> b.account, mailbox_id |-> b.mailbox, uidvalidity |-> b.uidvalidity,
                     uids |-> b.uids]
    <2>1. r = [type |-> "expunged", value |-> e]
      BY <1>1, <1>4 DEF RecordsOf
    <2>2. b \in BodyTypes("expunge") /\ Expunge(b) # None
      BY <1>1, <1>4 DEF Checked
    <2>3. e \in EventTypes("expunged") /\ ValidExpunged(e)
      BY <2>2, ExpungeRecorded
    <2> HIDE DEF e
    <2>4. r.type = "expunged" /\ r.value = e
      BY <2>1
    <2> QED BY <2>3, <2>4, ExpungedRead DEF Recordable, Encode, Decode, Recorded
  <1>5. CASE kind = "append"
    <2> DEFINE e == Onto(Onto(m, FlagNames(b)), [account_id |-> b.account, mailbox_id |-> b.mailbox,
                                                 uidvalidity |-> b.uidvalidity, uid |-> 1])
    <2>1. r = [type |-> "appended", value |-> e]
      BY <1>1, <1>5 DEF RecordsOf
    <2>2. b \in BodyTypes("append") /\ MessageAppend(b) # None
      BY <1>1, <1>5 DEF Checked
    <2>3. e \in EventTypes("appended") /\ ValidAppended(e)
      BY <2>2, AppendRecorded
    <2> HIDE DEF e
    <2>4. r.type = "appended" /\ r.value = e
      BY <2>1
    <2> QED BY <2>3, <2>4, AppendedRead DEF Recordable, Encode, Decode, Recorded
  <1>6. ASSUME NEW f \in FactBodies, FactMutation(f) # None, r = MutationOf(f) PROVE Recordable(r)
    <2>1. r.type = "mutation" /\ r.value \in EventTypes("mutation") /\ ValidMutation(r.value)
      BY <1>6, MutationRecorded DEF MutationOf
    <2> QED BY <2>1, MutationRead DEF Recordable, Encode, Decode, Recorded
  <1>7. CASE kind = "fact"
    <2>1. b \in FactBodies /\ FactMutation(b) # None /\ r = MutationOf(b)
      BY <1>1, <1>7 DEF Checked, BodyTypes, RecordsOf
    <2> QED BY <1>6, <2>1
  <1>8. CASE kind = "batch"
    <2>1. b.entries \in Seq(FactBodies) /\ FactBatch(b) # None
      BY <1>1, <1>8 DEF Checked, BodyTypes
    <2>2. PICK f \in ToSet(b.entries) : r = MutationOf(f)
      BY <1>1, <1>8 DEF RecordsOf
    <2>3. f \in FactBodies /\ FactMutation(f) # None
      BY <2>1, <2>2 DEF FactBatch, ToSet
    <2> QED BY <1>6, <2>2, <2>3
  <1>9. CASE kind \notin {"delivery", "flags", "expunge", "append", "fact", "batch"}
    BY <1>1, <1>9 DEF RecordsOf
  <1> QED BY <1>2, <1>3, <1>4, <1>5, <1>7, <1>8, <1>9

(* What is taken in was checked as it came off the wire.                   *)
LEMMA DecodedIsTyped ==
  ASSUME NEW kind \in RequestKinds, NEW q \in RequestTypes(kind), DecodeRequest(Written(q)) # None,
         NEW d, d = DecodeRequest(Written(q)), kind \notin {"list", "select", "status"}
  PROVE  d \in RequestTypes(kind) /\ Checked(kind, d.body) # None
  <1> DEFINE w == Written(q)  body == Checked(kind, w.body)
  <1>1. w \in RequestTypes(kind)
    BY WrittenIsTyped
  <1>2. w.kind = kind /\ w.body \in BodyTypes(kind)
    BY <1>1 DEF RequestTypes
  <1> HIDE DEF w
  <1>3. body # None /\ d = [w EXCEPT !.body = body]
    BY <1>2 DEF DecodeRequest, w
  <1>4. body \in BodyTypes(kind)
    BY <1>2, <1>3, CheckedIsTyped
  <1>5. body = w.body
    BY <1>2, <1>3 DEF Checked, RequestKinds, Writes, Streams, MessageFetch, MessageSearch, Query, Delivery,
                      FlagUpdate, Expunge, CopyMove, MessageAppend, FactMutation, FactBatch, EventStream
  <1> HIDE DEF body
  <1>6. d \in RequestTypes(kind) /\ d.body = body
    BY <1>1, <1>3, <1>4 DEF RequestTypes
  <1> QED BY <1>3, <1>5, <1>6 DEF body

(* What the daemon takes in can be recorded, and the replay reads it as    *)
(* what it was: the checks of a request are enough for its record,         *)
(* whatever the request and the headers of its message say.                *)
THEOREM AcceptedIsRecordableCorrect == Spec => []AcceptedIsRecordable
  <1>1. RequestInv => AcceptedIsRecordable
    <2> SUFFICES ASSUME RequestInv, exchange.stage = "received",
                        NEW m \in Messages, NEW r \in RecordsOf(exchange.decoded, m)
                 PROVE  Recordable(r)
      BY DEF AcceptedIsRecordable, Recordable
    <2> DEFINE q == exchange.request  d == exchange.decoded
    <2>1. PICK kind \in RequestKinds : q \in RequestTypes(kind)
      BY RequestsAssumption DEF RequestInv
    <2>2. d = DecodeRequest(Written(q)) /\ d # None
      BY DEF RequestInv
    <2>3. kind \notin {"list", "select", "status"}
      <3>1. d.kind = kind
        <4>1. Written(q).kind = kind /\ "kind" \in DOMAIN Written(q)
          BY <2>1 DEF Written, RequestTypes
        <4>2. d = [Written(q) EXCEPT !.body = Checked(Written(q).kind, Written(q).body)]
          BY <2>2 DEF DecodeRequest
        <4> QED BY <4>1, <4>2
      <3> QED BY <3>1 DEF RecordsOf
    <2>4. d \in RequestTypes(kind) /\ Checked(kind, d.body) # None
      BY <2>1, <2>2, <2>3, DecodedIsTyped
    <2> QED BY <2>4, RecordsAre
  <1> QED BY <1>1, RequestInvCorrect, PTL

(* Two readings of cells, the second of which has s more: the first is     *)
(* refused, or it got what the second got and leaves s less.               *)
Grows(r, q, s) ==
  \/ r = Refused
  \/ \E c, g : c \in Seq(Nat) /\ r = Holding(c, g) /\ q = Holding(c \o s, g)

(* What is left of longer cells.                                           *)
LEMMA RestLonger ==
  ASSUME NEW c \in Seq(Nat), NEW s \in Seq(Nat), NEW n \in 0 .. Len(c)
  PROVE  Rest(c \o s, n) = Rest(c, n) \o s /\ Rest(c, n) \in Seq(Nat)
  <1> DEFINE d == c \o s  x == Rest(d, n)  a == Rest(c, n)  y == a \o s
  <1>1. /\ d \in Seq(Nat) /\ Len(d) = Len(c) + Len(s) /\ Len(c) \in Nat /\ Len(s) \in Nat
        /\ (\A i \in 1 .. Len(c) : d[i] = c[i]) /\ \A i \in 1 .. Len(s) : d[Len(c) + i] = s[i]
    BY BothAre
  <1>2. a \in Seq(Nat) /\ Len(a) = Len(c) - n /\ \A k \in 1 .. Len(c) - n : a[k] = c[n + k]
    BY RestIs
  <1> HIDE DEF d, a
  <1>3. x \in Seq(Nat) /\ Len(x) = Len(d) - n /\ \A k \in 1 .. Len(d) - n : x[k] = d[n + k]
    <2>1. n \in 0 .. Len(d)
      BY <1>1
    <2> QED BY <1>1, <2>1, RestIs
  <1>4. /\ y \in Seq(Nat) /\ Len(y) = Len(a) + Len(s)
        /\ (\A i \in 1 .. Len(a) : y[i] = a[i]) /\ \A i \in 1 .. Len(s) : y[Len(a) + i] = s[i]
    BY <1>2, BothAre
  <1> HIDE DEF x, y
  <1>5. ASSUME NEW k \in 1 .. Len(x) PROVE x[k] = y[k]
    <2>1. x[k] = d[n + k]
      BY <1>3
    <2>2. CASE k <= Len(a)
      <3>1. k \in 1 .. Len(a) /\ k \in 1 .. Len(c) - n /\ n + k \in 1 .. Len(c)
        BY <1>1, <1>2, <2>2
      <3> QED BY <1>1, <1>2, <1>4, <2>1, <3>1
    <2>3. CASE ~(k <= Len(a))
      <3> DEFINE i == k - Len(a)
      <3>1. i \in 1 .. Len(s) /\ Len(a) + i = k /\ Len(c) + i = n + k
        BY <1>1, <1>2, <1>3, <2>3
      <3> HIDE DEF i
      <3> QED BY <1>1, <1>4, <2>1, <3>1
    <2> QED BY <2>2, <2>3
  <1>6. Len(x) = Len(y) /\ Len(x) \in Nat
    BY <1>1, <1>2, <1>3, <1>4
  <1>7. x = y
    BY <1>3, <1>4, <1>5, <1>6, SeqEqual
  <1> QED BY <1>2, <1>7 DEF x, y, a, d

(* What longer cells begin with.                                           *)
LEMMA StartLonger ==
  ASSUME NEW c \in Seq(Nat), NEW s \in Seq(Nat), NEW n \in 0 .. Len(c)
  PROVE  SubSeq(c \o s, 2, n) = SubSeq(c, 2, n)
  <1> DEFINE d == c \o s  x == SubSeq(d, 2, n)  y == SubSeq(c, 2, n)
  <1>1. /\ d \in Seq(Nat) /\ Len(d) = Len(c) + Len(s) /\ Len(c) \in Nat /\ Len(s) \in Nat
        /\ \A i \in 1 .. Len(c) : d[i] = c[i]
    BY BothAre
  <1> HIDE DEF d
  <1>2. CASE n < 2
    BY <1>2, SubSeqEmpty
  <1>3. CASE n >= 2
    <2>1. \A k \in 2 .. n : k \in 1 .. Len(c) /\ d[k] = c[k] /\ c[k] \in Nat
      <3> TAKE k \in 2 .. n
      <3>1. k \in 1 .. Len(c)
        OBVIOUS
      <3> QED BY <1>1, <3>1, ElementOfSeq
    <2>2. 2 \in Int /\ n \in Int
      OBVIOUS
    <2>3. y \in Seq(Nat) /\ Len(y) = n - 1 /\ \A k \in 1 .. n - 1 : y[k] = c[k + 1]
      <3>1. /\ y \in Seq(Nat) /\ Len(y) = (IF 2 <= n THEN n - 2 + 1 ELSE 0)
            /\ \A k \in 1 .. n - 2 + 1 : y[k] = c[2 + k - 1]
        BY <2>1, <2>2, SubSeqProperties
      <3> HIDE DEF y
      <3> QED BY <1>3, <3>1
    <2>4. x \in Seq(Nat) /\ Len(x) = n - 1 /\ \A k \in 1 .. n - 1 : x[k] = d[k + 1]
      <3>1. \A k \in 2 .. n : d[k] \in Nat
        BY <2>1
      <3>2. /\ x \in Seq(Nat) /\ Len(x) = (IF 2 <= n THEN n - 2 + 1 ELSE 0)
            /\ \A k \in 1 .. n - 2 + 1 : x[k] = d[2 + k - 1]
        BY <2>2, <3>1, SubSeqProperties
      <3> HIDE DEF x
      <3> QED BY <1>3, <3>2
    <2> HIDE DEF x, y
    <2>5. \A k \in 1 .. Len(x) : x[k] = y[k]
      <3> TAKE k \in 1 .. Len(x)
      <3>1. k \in 1 .. n - 1 /\ k + 1 \in 2 .. n
        BY <2>4
      <3> QED BY <2>1, <2>3, <2>4, <3>1
    <2>6. x = y
      BY <2>3, <2>4, <2>5, SeqEqual
    <2> QED BY <2>6 DEF x, y
  <1> HIDE DEF x, y
  <1>4. n < 2 \/ n >= 2
    BY <1>1
  <1> QED BY <1>2, <1>3, <1>4 DEF x, y, d

(* The first of longer cells, and those behind it.                         *)
LEMMA HeadLonger ==
  ASSUME NEW c \in Seq(Nat), NEW s \in Seq(Nat), c # << >>
  PROVE  /\ c \o s # << >> /\ Head(c \o s) = Head(c) /\ Tail(c \o s) = Tail(c) \o s
         /\ Head(c) \in Nat /\ Tail(c) \in Seq(Nat) /\ 1 \in 0 .. Len(c) /\ Head(c) = c[1]
  <1> DEFINE d == c \o s
  <1>1. /\ d \in Seq(Nat) /\ Len(d) = Len(c) + Len(s) /\ Len(c) \in Nat /\ Len(s) \in Nat
        /\ \A i \in 1 .. Len(c) : d[i] = c[i]
    BY BothAre
  <1>2. Len(c) # 0
    BY EmptySeq
  <1>3. 1 \in 1 .. Len(c) /\ 1 \in 0 .. Len(c) /\ Len(d) # 0
    BY <1>1, <1>2
  <1>4. Rest(d, 1) = Rest(c, 1) \o s /\ Rest(c, 1) \in Seq(Nat)
    BY <1>3, RestLonger
  <1> HIDE DEF d
  <1>5. d # << >>
    BY <1>3
  <1>6. Head(d) = d[1] /\ Head(c) = c[1] /\ d[1] = c[1] /\ c[1] \in Nat
    BY <1>1, <1>3
  <1>7. Tail(d) = Rest(d, 1) /\ Tail(c) = Rest(c, 1)
    BY <1>1, <1>5, TailIsSubSeq DEF Rest
  <1> QED BY <1>3, <1>4, <1>5, <1>6, <1>7 DEF d

(* What is taken of shorter cells is taken of longer ones.                 *)
LEMMA TakeGrows ==
  ASSUME NEW c \in Seq(Nat), NEW s \in Seq(Nat), NEW g, NEW name, NEW v, NEW n \in 0 .. Len(c)
  PROVE  Grows(Take(Holding(c, g), name, v, n), Take(Holding(c \o s, g), name, v, n), s)
  <1> DEFINE h == Onto(Single(name, v), g)  d == c \o s  a == Rest(c, n)
  <1>1. ASSUME NEW z PROVE Take(Holding(z, g), name, v, n) = Holding(Rest(z, n), h)
    <2> DEFINE r == Holding(z, g)
    <2>1. r.rest = z /\ r.got = g
      BY HoldingIs
    <2> HIDE DEF r
    <2>2. Take(r, name, v, n) = Holding(Rest(z, n), h)
      BY <2>1 DEF Take, Rest
    <2> QED BY <2>2 DEF r
  <1>3. Rest(d, n) = a \o s /\ a \in Seq(Nat)
    BY RestLonger
  <1> HIDE DEF a, h, d
  <1>4. Take(Holding(c, g), name, v, n) = Holding(a, h) /\ Take(Holding(d, g), name, v, n) = Holding(a \o s, h)
    BY <1>1, <1>3 DEF a
  <1> QED BY <1>3, <1>4 DEF Grows, d

(* So is a word,                                                           *)
LEMMA WordGrows ==
  ASSUME NEW c \in Seq(Nat), NEW s \in Seq(Nat), NEW g, NEW name
  PROVE  Grows(Word(Holding(c, g), name), Word(Holding(c \o s, g), name), s)
  <1> DEFINE r == Holding(c, g)  q == Holding(c \o s, g)
  <1>1. r.rest = c /\ q.rest = c \o s
    BY HoldingIs
  <1>2. CASE c = << >>
    <2> HIDE DEF r, q
    <2>1. Word(r, name) = Refused
      BY <1>1, <1>2 DEF Word
    <2> QED BY <2>1 DEF Grows, r, q
  <1>3. CASE c # << >>
    <2>1. c \o s # << >> /\ Head(c \o s) = Head(c) /\ 1 \in 0 .. Len(c)
      BY <1>3, HeadLonger
    <2>2. Grows(Take(r, name, Head(c), 1), Take(q, name, Head(c), 1), s)
      BY <2>1, TakeGrows
    <2> HIDE DEF r, q
    <2>3. Word(r, name) = Take(r, name, Head(c), 1) /\ Word(q, name) = Take(q, name, Head(c), 1)
      BY <1>1, <1>3, <2>1 DEF Word
    <2> QED BY <2>2, <2>3 DEF r, q
  <1> QED BY <1>2, <1>3

(* a string,                                                               *)
LEMMA StringGrows ==
  ASSUME NEW c \in Seq(Nat), NEW s \in Seq(Nat), NEW g, NEW name
  PROVE  Grows(String(Holding(c, g), name), String(Holding(c \o s, g), name), s)
  <1> DEFINE r == Holding(c, g)  q == Holding(c \o s, g)
  <1>1. r.rest = c /\ q.rest = c \o s
    BY HoldingIs
  <1>2. CASE c = << >> \/ Head(c) > Len(c) - 1
    <2> HIDE DEF r, q
    <2>1. String(r, name) = Refused
      BY <1>1, <1>2 DEF String
    <2> QED BY <2>1 DEF Grows, r, q
  <1>3. CASE c # << >> /\ ~(Head(c) > Len(c) - 1)
    <2> DEFINE n == Head(c)
    <2>2. /\ c \o s # << >> /\ Head(c \o s) = n /\ n \in Nat /\ Len(c) \in Nat /\ Len(s) \in Nat
          /\ Len(c \o s) = Len(c) + Len(s)
      BY <1>3, HeadLonger, BothAre
    <2>3. n + 1 \in 0 .. Len(c) /\ ~(n > Len(c \o s) - 1)
      BY <1>3, <2>2
    <2>4. SubSeq(c \o s, 2, n + 1) = SubSeq(c, 2, n + 1)
      BY <2>3, StartLonger
    <2>5. \A v : Grows(Take(r, name, v, n + 1), Take(q, name, v, n + 1), s)
      BY <2>3, TakeGrows
    <2> DEFINE t == SubSeq(c, 2, n + 1)
    <2> HIDE DEF r, q, n, t
    <2>6. String(r, name) = IF 0 \in ToSet(t) THEN Refused ELSE Take(r, name, t, n + 1)
      BY <1>1, <1>3 DEF String, n, t
    <2>7. String(q, name) = IF 0 \in ToSet(t) THEN Refused ELSE Take(q, name, t, n + 1)
      BY <1>1, <2>2, <2>3, <2>4 DEF String, t
    <2>8. CASE 0 \in ToSet(t)
      BY <2>6, <2>8 DEF Grows, r, q
    <2>9. CASE 0 \notin ToSet(t)
      BY <2>5, <2>6, <2>7, <2>9 DEF r, q
    <2> QED BY <2>8, <2>9
  <1> QED BY <1>2, <1>3

(* and a string or None.                                                   *)
LEMMA NullableGrows ==
  ASSUME NEW c \in Seq(Nat), NEW s \in Seq(Nat), NEW g, NEW name
  PROVE  Grows(NullableString(Holding(c, g), name), NullableString(Holding(c \o s, g), name), s)
  <1> DEFINE r == Holding(c, g)  q == Holding(c \o s, g)
  <1>1. r.rest = c /\ q.rest = c \o s
    BY HoldingIs
  <1>2. CASE c = << >>
    <2> HIDE DEF r, q
    <2>1. NullableString(r, name) = Refused
      BY <1>1, <1>2 DEF NullableString, String
    <2> QED BY <2>1 DEF Grows, r, q
  <1>3. CASE c # << >>
    <2>1. c \o s # << >> /\ Head(c \o s) = Head(c) /\ 1 \in 0 .. Len(c)
      BY <1>3, HeadLonger
    <2>2. Grows(Take(r, name, None, 1), Take(q, name, None, 1), s)
      BY <2>1, TakeGrows
    <2>3. Grows(String(r, name), String(q, name), s)
      BY StringGrows
    <2> HIDE DEF r, q
    <2>4. CASE Head(c) = NullWord
      <3>1. NullableString(r, name) = Take(r, name, None, 1) /\ NullableString(q, name) = Take(q, name, None, 1)
        BY <1>1, <1>3, <2>1, <2>4 DEF NullableString
      <3> QED BY <2>2, <3>1 DEF r, q
    <2>5. CASE Head(c) # NullWord
      <3>1. NullableString(r, name) = String(r, name) /\ NullableString(q, name) = String(q, name)
        BY <1>1, <2>1, <2>5 DEF NullableString
      <3> QED BY <2>3, <3>1 DEF r, q
    <2> QED BY <2>4, <2>5
  <1> QED BY <1>2, <1>3

(* What a reading holds, and what is refused.                               *)
LEMMA HeldIs ==
  ASSUME NEW c, NEW g, NEW r, r = Holding(c, g)
  PROVE  r.ok /\ r.rest = c /\ r.got = g
  BY HoldingIs

(* Where nothing is left every field is refused.                           *)
LEMMA EmptyRefused ==
  ASSUME NEW r, r.rest = << >>, NEW f, f[1] \in FieldKinds
  PROVE  Field(r, f) = Refused
  BY DEF Field, FieldKinds, Word, String, NullableString

(* What is refused has nothing left.                                       *)
LEMMA RefusedIs == ~Refused.ok /\ Refused.rest = << >>
  BY DEF Refused

(* The strings of a list,                                                  *)
LEMMA StringsGrow ==
  ASSUME NEW c \in Seq(Nat), NEW s \in Seq(Nat), NEW g, NEW name, NEW count \in Nat
  PROVE  Grows(Strings(Holding(c, g), name, count), Strings(Holding(c \o s, g), name, count), s)
  <1> DEFINE d == c \o s  r == Holding(c, g)  q == Holding(d, g)  places == [i \in 1 .. count |-> i]
  <1>1. r.ok /\ r.rest = c /\ r.got = g /\ q.ok /\ q.rest = d /\ q.got = g
    <2>1. r.ok /\ r.rest = c /\ r.got = g
      BY HeldIs
    <2> HIDE DEF d
    <2>2. q.ok /\ q.rest = d /\ q.got = g
      BY HeldIs
    <2> QED BY <2>1, <2>2
  <1>2. d \in Seq(Nat) /\ Len(d) = Len(c) + Len(s) /\ Len(c) \in Nat /\ Len(s) \in Nat
    BY BothAre
  <1>3. CASE count > Len(c)
    <2> HIDE DEF r, q
    <2>1. Strings(r, name, count) = Refused
      BY <1>1, <1>3 DEF Strings
    <2> QED BY <2>1 DEF Grows, r
  <1>4. CASE ~(count > Len(c))
    <2>1. DOMAIN places = 1 .. count
      OBVIOUS
    <2>2. PICK F : StringRun(F, Reading(c), places, count)
      BY <2>1, StringTrace
    <2>3. PICK G : StringRun(G, Reading(d), places, count)
      BY <2>1, StringTrace
    <2>4. /\ F[0] = Reading(c) /\ F[count] = FoldLeft(String, Reading(c), places)
          /\ \A i \in 1 .. count : F[i] = String(F[i - 1], places[i])
      BY <2>2 DEF StringRun
    <2>5. /\ G[0] = Reading(d) /\ G[count] = FoldLeft(String, Reading(d), places)
          /\ \A i \in 1 .. count : G[i] = String(G[i - 1], places[i])
      BY <2>3 DEF StringRun
    <2> HIDE DEF places
    <2> DEFINE Good == {i \in 0 .. count : Grows(F[i], G[i], s)}
    <2>6. 0 \in Good
      <3>1. Grows(Reading(c), Reading(d), s)
        BY DEF Grows, Reading
      <3> QED BY <2>4, <2>5, <3>1
    <2>7. ASSUME NEW i \in 1 .. count, i - 1 \in Good PROVE i \in Good
      <3> DEFINE x == places[i]
      <3>1. Grows(F[i - 1], G[i - 1], s) /\ F[i] = String(F[i - 1], x) /\ G[i] = String(G[i - 1], x) /\ i \in 0 .. count
        BY <2>4, <2>5, <2>7
      <3> HIDE DEF x
      <3>2. CASE F[i - 1] = Refused
        <4>1. String(Refused, x) = Refused
          BY DEF String, Refused
        <4> QED BY <3>1, <3>2, <4>1 DEF Grows
      <3>3. CASE F[i - 1] # Refused
        <4>1. PICK a, h : a \in Seq(Nat) /\ F[i - 1] = Holding(a, h) /\ G[i - 1] = Holding(a \o s, h)
          BY <3>1, <3>3 DEF Grows
        <4>2. Grows(F[i], G[i], s)
          BY <3>1, <4>1, StringGrows
        <4> QED BY <3>1, <4>2
      <3> QED BY <3>2, <3>3
    <2>8. Grows(F[count], G[count], s)
      <3> HIDE DEF Good
      <3>1. \A i \in 0 .. count : i \in Good
        BY <2>6, <2>7, Induction
      <3>2. count \in Good
        BY <3>1
      <3> QED BY <3>2 DEF Good
    <2>9. ~(count > Len(d))
      BY <1>2, <1>4
    <2> HIDE DEF Good
    <2> DEFINE Rest2(all, h) == IF all.ok THEN Holding(all.rest, Onto(Single(name, [i \in 1 .. count |-> all.got[i]]), h))
                                ELSE Refused
    <2>10. Strings(r, name, count) = Rest2(F[count], g)
      <3> HIDE DEF r, q, d
      <3> QED BY <1>1, <1>4, <2>4 DEF Strings, places
    <2>11. Strings(q, name, count) = Rest2(G[count], g)
      <3> HIDE DEF r, q, d
      <3> QED BY <1>1, <2>5, <2>9 DEF Strings, places
    <2>12. CASE F[count] = Refused
      <3>1. ~Refused.ok
        BY DEF Refused
      <3>2. Strings(r, name, count) = Refused
        <4> HIDE DEF r
        <4> QED BY <2>10, <2>12, <3>1
      <3> HIDE DEF r, q
      <3> QED BY <3>2 DEF Grows, r, q
    <2>13. CASE F[count] # Refused
      <3>1. PICK a, h : a \in Seq(Nat) /\ F[count] = Holding(a, h) /\ G[count] = Holding(a \o s, h)
        BY <2>8, <2>13 DEF Grows
      <3> DEFINE w == Onto(Single(name, [i \in 1 .. count |-> h[i]]), g)
      <3>2. /\ F[count].ok /\ F[count].rest = a /\ F[count].got = h
            /\ G[count].ok /\ G[count].rest = a \o s /\ G[count].got = h
        <4>1. F[count].ok /\ F[count].rest = a /\ F[count].got = h
          BY <3>1, HeldIs
        <4> DEFINE b == a \o s
        <4> HIDE DEF b
        <4>2. G[count] = Holding(b, h)
          BY <3>1 DEF b
        <4>3. G[count].ok /\ G[count].rest = b /\ G[count].got = h
          BY <4>2, HeldIs
        <4> QED BY <4>1, <4>3 DEF b
      <3>3. Rest2(F[count], g) = Holding(a, w) /\ Rest2(G[count], g) = Holding(a \o s, w)
        BY <3>2
      <3> HIDE DEF w, Rest2, r, q
      <3>4. Strings(r, name, count) = Holding(a, w) /\ Strings(q, name, count) = Holding(a \o s, w)
        BY <2>10, <2>11, <3>3
      <3> QED BY <3>1, <3>4 DEF Grows, r, q
    <2> QED BY <2>12, <2>13
  <1> QED BY <1>3, <1>4

(* and a field of any kind.                                                *)
LEMMA FieldGrows ==
  ASSUME NEW r, NEW q, NEW s \in Seq(Nat), Grows(r, q, s), NEW f, f[1] \in FieldKinds
  PROVE  Grows(Field(r, f), Field(q, f), s)
  <1>1. CASE r = Refused
    <2>1. r.rest = << >>
      BY <1>1, RefusedIs
    <2>2. Field(r, f) = Refused
      BY <2>1, EmptyRefused
    <2> QED BY <2>2 DEF Grows
  <1>2. CASE r # Refused
    <2>1. PICK c, g : c \in Seq(Nat) /\ r = Holding(c, g) /\ q = Holding(c \o s, g)
      BY <1>2 DEF Grows
    <2>2. r.ok /\ r.rest = c /\ r.got = g /\ q.ok /\ q.rest = c \o s /\ q.got = g
      <3>1. r.ok /\ r.rest = c /\ r.got = g
        BY <2>1, HeldIs
      <3> DEFINE b == c \o s
      <3> HIDE DEF b
      <3>2. q = Holding(b, g)
        BY <2>1 DEF b
      <3>3. q.ok /\ q.rest = b /\ q.got = g
        BY <3>2, HeldIs
      <3> QED BY <3>1, <3>3 DEF b
    <2> DEFINE name == f[2]
    <2> HIDE DEF name
    <2>3. CASE f[1] = "word"
      <3>1. Field(r, f) = Word(r, name) /\ Field(q, f) = Word(q, name)
        BY <2>2, <2>3 DEF Field, name
      <3> QED BY <2>1, <3>1, WordGrows
    <2>4. CASE f[1] = "string"
      <3>1. Field(r, f) = String(r, name) /\ Field(q, f) = String(q, name)
        BY <2>2, <2>4 DEF Field, name
      <3> QED BY <2>1, <3>1, StringGrows
    <2>5. CASE f[1] = "nullable"
      <3>1. Field(r, f) = NullableString(r, name) /\ Field(q, f) = NullableString(q, name)
        BY <2>2, <2>5 DEF Field, name
      <3> QED BY <2>1, <3>1, NullableGrows
    <2>6. CASE f[1] = "nonempty"
      <3>1. /\ Field(r, f) = IF r.rest # << >> /\ Head(r.rest) = 0 THEN Refused ELSE String(r, name)
            /\ Field(q, f) = IF q.rest # << >> /\ Head(q.rest) = 0 THEN Refused ELSE String(q, name)
        BY <2>2, <2>6 DEF Field, name
      <3>2. CASE c = << >>
        <4>1. String(r, name) = Refused
          BY <2>2, <3>2 DEF String
        <4> QED BY <3>1, <4>1 DEF Grows
      <3>3. CASE c # << >>
        <4>1. c \o s # << >> /\ Head(c \o s) = Head(c)
          BY <3>3, HeadLonger
        <4>2. CASE Head(c) = 0
          BY <2>2, <3>1, <3>3, <4>2 DEF Grows
        <4>3. CASE Head(c) # 0
          <5>1. Field(r, f) = String(r, name) /\ Field(q, f) = String(q, name)
            BY <2>2, <3>1, <4>1, <4>3
          <5> QED BY <2>1, <5>1, StringGrows
        <4> QED BY <4>2, <4>3
      <3> QED BY <3>2, <3>3
    <2>7. CASE f[1] = "list"
      <3>1. /\ Field(r, f) = IF r.rest = << >> THEN Refused ELSE Strings(Holding(Tail(r.rest), r.got), name, Head(r.rest))
            /\ Field(q, f) = IF q.rest = << >> THEN Refused ELSE Strings(Holding(Tail(q.rest), q.got), name, Head(q.rest))
        BY <2>2, <2>7 DEF Field, name
      <3>2. CASE c = << >>
        BY <2>2, <3>1, <3>2 DEF Grows
      <3>3. CASE c # << >>
        <4>1. c \o s # << >> /\ Head(c \o s) = Head(c) /\ Tail(c \o s) = Tail(c) \o s /\ Head(c) \in Nat /\ Tail(c) \in Seq(Nat)
          BY <2>1, <3>3, HeadLonger
        <4> DEFINE t == Tail(c)  n == Head(c)
        <4> HIDE DEF t, n
        <4>2. Field(r, f) = Strings(Holding(t, g), name, n) /\ Field(q, f) = Strings(Holding(t \o s, g), name, n)
          BY <2>2, <3>1, <3>3, <4>1 DEF t, n
        <4>3. t \in Seq(Nat) /\ n \in Nat
          BY <4>1 DEF t, n
        <4> QED BY <4>2, <4>3, StringsGrow
      <3> QED BY <3>2, <3>3
    <2> QED BY <2>3, <2>4, <2>5, <2>6, <2>7 DEF FieldKinds
  <1> QED BY <1>1, <1>2

(* A layout whose fields are of the kinds there are.                       *)
Known(layout) ==
  /\ Len(layout) \in Nat /\ DOMAIN layout = 1 .. Len(layout)
  /\ \A i \in 1 .. Len(layout) : layout[i][1] \in FieldKinds

(* So are the fields of a layout.                                          *)
LEMMA ReadGrows ==
  ASSUME NEW r, NEW q, NEW s \in Seq(Nat), Grows(r, q, s), NEW layout, Known(layout)
  PROVE  Grows(Read(r, layout), Read(q, layout), s)
  <1> DEFINE n == Len(layout)
  <1>1. n \in Nat /\ DOMAIN layout = 1 .. n /\ \A i \in 1 .. n : layout[i][1] \in FieldKinds
    BY DEF Known
  <1> HIDE DEF n
  <1>2. PICK F : FieldRun(F, r, layout, n)
    BY <1>1, FieldTrace
  <1>3. PICK G : FieldRun(G, q, layout, n)
    BY <1>1, FieldTrace
  <1>4. /\ F[0] = r /\ F[n] = Read(r, layout) /\ (\A i \in 1 .. n : F[i] = Field(F[i - 1], layout[i]))
        /\ G[0] = q /\ G[n] = Read(q, layout) /\ (\A i \in 1 .. n : G[i] = Field(G[i - 1], layout[i]))
    BY <1>2, <1>3 DEF FieldRun, Read
  <1> DEFINE Good == {i \in 0 .. n : Grows(F[i], G[i], s)}
  <1>5. 0 \in Good
    BY <1>1, <1>4
  <1>6. ASSUME NEW i \in 1 .. n, i - 1 \in Good PROVE i \in Good
    <2>1. Grows(F[i - 1], G[i - 1], s) /\ i \in 0 .. n
      BY <1>1, <1>6
    <2>2. Grows(Field(F[i - 1], layout[i]), Field(G[i - 1], layout[i]), s)
      BY <1>1, <2>1, FieldGrows
    <2> QED BY <1>4, <2>1, <2>2
  <1> HIDE DEF Good
  <1>7. \A i \in 0 .. n : i \in Good
    BY <1>1, <1>5, <1>6, Induction
  <1>8. n \in Good
    BY <1>1, <1>7
  <1> QED BY <1>4, <1>8 DEF Good

(* Nothing makes no field.                                                 *)
LEMMA NothingRefused ==
  ASSUME NEW g, NEW layout, Known(layout), Len(layout) >= 1
  PROVE  Read(Holding(<< >>, g), layout) = Refused
  <1> DEFINE n == Len(layout)  r == Holding(<< >>, g)
  <1>0. r.ok /\ r.rest = << >> /\ r.got = g
    BY HoldingIs
  <1>1. n \in Nat /\ n >= 1 /\ DOMAIN layout = 1 .. n /\ \A i \in 1 .. n : layout[i][1] \in FieldKinds
    BY DEF Known
  <1> HIDE DEF n, r
  <1>2. PICK F : FieldRun(F, r, layout, n)
    BY <1>1, FieldTrace
  <1>4. F[0] = r /\ F[n] = Read(r, layout) /\ \A i \in 1 .. n : F[i] = Field(F[i - 1], layout[i])
    BY <1>2 DEF FieldRun, Read
  <1> DEFINE Good == {i \in 0 .. n : i = 0 \/ F[i] = Refused}
  <1>5. 0 \in Good
    BY <1>1
  <1>6. ASSUME NEW i \in 1 .. n, i - 1 \in Good PROVE i \in Good
    <2>1. i \in 0 .. n /\ layout[i][1] \in FieldKinds /\ F[i] = Field(F[i - 1], layout[i])
      BY <1>1, <1>4
    <2>2. F[i - 1].rest = << >>
      <3>1. i = 1 => F[i - 1] = r
        BY <1>4
      <3>2. i # 1 => F[i - 1] = Refused
        BY <1>6
      <3> QED BY <1>0, <3>1, <3>2, RefusedIs
    <2>3. Field(F[i - 1], layout[i]) = Refused
      BY <2>1, <2>2, EmptyRefused
    <2> QED BY <2>1, <2>3
  <1> HIDE DEF Good
  <1>7. \A i \in 0 .. n : i \in Good
    BY <1>1, <1>5, <1>6, Induction
  <1>8. n \in Good /\ n # 0
    BY <1>1, <1>7
  <1> QED BY <1>4, <1>8 DEF Good, r

(* One item more grows,                                                    *)
LEMMA ItemGrows ==
  ASSUME NEW r, NEW q, NEW s \in Seq(Nat), Grows(r, q, s), NEW layout, Known(layout)
  PROVE  Grows(ReadItem(r, layout), ReadItem(q, layout), s)
  <1>1. CASE r = Refused
    <2>1. ReadItem(r, layout) = Refused
      BY <1>1, RefusedIs DEF ReadItem
    <2> QED BY <2>1 DEF Grows
  <1>2. CASE r # Refused
    <2>1. PICK c, g : c \in Seq(Nat) /\ r = Holding(c, g) /\ q = Holding(c \o s, g)
      BY <1>2 DEF Grows
    <2> DEFINE d == c \o s  x == Read(Reading(c), layout)  y == Read(Reading(d), layout)
    <2>2. r.ok /\ r.rest = c /\ r.got = g
      BY <2>1, HeldIs
    <2>3. Grows(x, y, s)
      <3>1. Grows(Reading(c), Reading(d), s)
        BY <2>1 DEF Grows, Reading
      <3> QED BY <3>1, ReadGrows
    <2> HIDE DEF d
    <2>4. q.ok /\ q.rest = d /\ q.got = g
      <3>1. q = Holding(d, g)
        BY <2>1 DEF d
      <3> QED BY <3>1, HeldIs
    <2> HIDE DEF x, y
    <2>5. /\ ReadItem(r, layout) = IF x.ok THEN Holding(x.rest, Append(g, x.got)) ELSE Refused
          /\ ReadItem(q, layout) = IF y.ok THEN Holding(y.rest, Append(g, y.got)) ELSE Refused
      BY <2>2, <2>4 DEF ReadItem, x, y
    <2>6. CASE x = Refused
      <3>1. ReadItem(r, layout) = Refused
        BY <2>5, <2>6, RefusedIs
      <3> QED BY <3>1 DEF Grows
    <2>7. CASE x # Refused
      <3>1. PICK a, h : a \in Seq(Nat) /\ x = Holding(a, h) /\ y = Holding(a \o s, h)
        BY <2>3, <2>7 DEF Grows
      <3> DEFINE b == a \o s
      <3> HIDE DEF b
      <3>2. x.ok /\ x.rest = a /\ x.got = h
        BY <3>1, HeldIs
      <3>3. y.ok /\ y.rest = b /\ y.got = h
        <4>1. y = Holding(b, h)
          BY <3>1 DEF b
        <4> QED BY <4>1, HeldIs
      <3> DEFINE w == Append(g, h)
      <3> HIDE DEF w
      <3>4. ReadItem(r, layout) = Holding(a, w) /\ ReadItem(q, layout) = Holding(b, w)
        BY <2>5, <3>2, <3>3 DEF w
      <3> QED BY <3>1, <3>4 DEF Grows, b
    <2> QED BY <2>6, <2>7
  <1> QED BY <1>1, <1>2

(* and so do the items of a list,                                          *)
LEMMA ListGrows ==
  ASSUME NEW r, NEW q, NEW s \in Seq(Nat), Grows(Reading(r.rest), Reading(q.rest), s),
         NEW layout, Known(layout), NEW n \in Nat
  PROVE  Grows(ReadItems(r, n, layout), ReadItems(q, n, layout), s)
  <1>2. PICK F : ItemRun(F, layout, r, n)
    BY ItemTrace
  <1>3. PICK G : ItemRun(G, layout, q, n)
    BY ItemTrace
  <1>4. /\ F[0] = Reading(r.rest) /\ F[n] = ReadItems(r, n, layout) /\ (\A i \in 1 .. n : F[i] = ReadItem(F[i - 1], layout))
        /\ G[0] = Reading(q.rest) /\ G[n] = ReadItems(q, n, layout) /\ (\A i \in 1 .. n : G[i] = ReadItem(G[i - 1], layout))
    BY <1>2, <1>3 DEF ItemRun
  <1> DEFINE Good == {i \in 0 .. n : Grows(F[i], G[i], s)}
  <1>5. 0 \in Good
    BY <1>4
  <1>6. ASSUME NEW i \in 1 .. n, i - 1 \in Good PROVE i \in Good
    <2>1. Grows(F[i - 1], G[i - 1], s) /\ i \in 0 .. n
      BY <1>6
    <2>2. Grows(ReadItem(F[i - 1], layout), ReadItem(G[i - 1], layout), s)
      BY <2>1, ItemGrows
    <2> QED BY <1>4, <2>1, <2>2
  <1> HIDE DEF Good
  <1>7. \A i \in 0 .. n : i \in Good
    BY <1>5, <1>6, Induction
  <1>8. n \in Good
    BY <1>7
  <1> QED BY <1>4, <1>8 DEF Good

(* behind a head that grows.                                               *)
LEMMA ItemsGrow ==
  ASSUME NEW r, NEW q, NEW s \in Seq(Nat), Grows(r, q, s), NEW name, NEW layout, Known(layout),
         \E c, g : q = Holding(c, g) /\ g["count"] \in Nat
  PROVE  Grows(Items(r, name, r.got["count"], layout), Items(q, name, q.got["count"], layout), s)
  <1>1. CASE r = Refused
    <2>1. Items(r, name, r.got["count"], layout) = Refused
      BY <1>1, RefusedIs DEF Items
    <2> QED BY <2>1 DEF Grows
  <1>2. CASE r # Refused
    <2>1. PICK c, g : c \in Seq(Nat) /\ r = Holding(c, g) /\ q = Holding(c \o s, g)
      BY <1>2 DEF Grows
    <2> DEFINE d == c \o s  n == g["count"]
    <2>2. r.ok /\ r.rest = c /\ r.got = g
      BY <2>1, HeldIs
    <2>3. d \in Seq(Nat) /\ Len(d) = Len(c) + Len(s) /\ Len(c) \in Nat /\ Len(s) \in Nat
      BY <2>1, BothAre
    <2>4. Grows(Reading(c), Reading(d), s)
      BY <2>1 DEF Grows, Reading
    <2> HIDE DEF d
    <2>5. q.ok /\ q.rest = d /\ q.got = g
      <3>1. q = Holding(d, g)
        BY <2>1 DEF d
      <3> QED BY <3>1, HeldIs
    <2>6. n \in Nat
      <3>1. PICK a, h : q = Holding(a, h) /\ h["count"] \in Nat
        OBVIOUS
      <3>2. q.got = h
        BY <3>1, HeldIs
      <3> QED BY <2>5, <3>1, <3>2
    <2> HIDE DEF n
    <2> DEFINE x == ReadItems(r, n, layout)  y == ReadItems(q, n, layout)
    <2>7. Grows(x, y, s)
      BY <2>2, <2>4, <2>5, <2>6, ListGrows
    <2>8. r.got["count"] = n /\ q.got["count"] = n
      BY <2>2, <2>5 DEF n
    <2> HIDE DEF x, y
    <2>9. CASE n > Len(c)
      <3>1. Items(r, name, n, layout) = Refused
        BY <2>2, <2>9 DEF Items
      <3> QED BY <2>8, <3>1 DEF Grows
    <2>10. CASE ~(n > Len(c))
      <3>1. ~(n > Len(d))
        BY <2>3, <2>6, <2>10
      <3>2. /\ Items(r, name, n, layout) = IF x.ok THEN Holding(x.rest, Onto(Single(name, x.got), g)) ELSE Refused
            /\ Items(q, name, n, layout) = IF y.ok THEN Holding(y.rest, Onto(Single(name, y.got), g)) ELSE Refused
        BY <2>2, <2>5, <2>10, <3>1 DEF Items, x, y
      <3>3. CASE x = Refused
        <4>1. Items(r, name, n, layout) = Refused
          BY <3>2, <3>3, RefusedIs
        <4> QED BY <2>8, <4>1 DEF Grows
      <3>4. CASE x # Refused
        <4>1. PICK a, h : a \in Seq(Nat) /\ x = Holding(a, h) /\ y = Holding(a \o s, h)
          BY <2>7, <3>4 DEF Grows
        <4> DEFINE b == a \o s
        <4> HIDE DEF b
        <4>2. x.ok /\ x.rest = a /\ x.got = h
          BY <4>1, HeldIs
        <4>3. y.ok /\ y.rest = b /\ y.got = h
          <5>1. y = Holding(b, h)
            BY <4>1 DEF b
          <5> QED BY <5>1, HeldIs
        <4> DEFINE w == Onto(Single(name, h), g)
        <4> HIDE DEF w
        <4>4. Items(r, name, n, layout) = Holding(a, w) /\ Items(q, name, n, layout) = Holding(b, w)
          BY <3>2, <4>2, <4>3 DEF w
        <4> QED BY <4>1, <2>8, <4>4 DEF Grows, b
      <3> QED BY <3>3, <3>4
    <2> QED BY <2>9, <2>10
  <1> QED BY <1>1, <1>2

(* What is read whole is no longer whole when it is cut.                   *)
LEMMA CutRefused ==
  ASSUME NEW r, NEW q, NEW s \in Seq(Nat), s # << >>, Grows(r, q, s), q.rest = << >>
  PROVE  ~r.ok
  <1>1. CASE r = Refused
    BY <1>1, RefusedIs
  <1>2. CASE r # Refused
    <2>1. PICK c, g : c \in Seq(Nat) /\ r = Holding(c, g) /\ q = Holding(c \o s, g)
      BY <1>2 DEF Grows
    <2> DEFINE d == c \o s
    <2>2. Len(d) = Len(c) + Len(s) /\ Len(c) \in Nat /\ Len(s) \in Nat
      BY BothAre
    <2> HIDE DEF d
    <2>3. q = Holding(d, g)
      BY <2>1 DEF d
    <2>4. d = << >>
      BY <2>3, HeldIs
    <2>5. Len(s) = 0
      BY <2>2, <2>4
    <2> QED BY <2>5, EmptySeq
  <1> QED BY <1>1, <1>2

(* Every layout is made of the kinds there are.                            *)
LEMMA ListsKnown ==
  ASSUME NEW layout, NEW n, NEW words, NEW strings, NEW nonempties, NEW nullables, NEW lists,
         Lists(layout, n, words, strings, nonempties, nullables, lists)
  PROVE  Known(layout)
  <1>1. n \in Nat /\ Len(layout) = n /\ layout = [i \in 1 .. n |-> layout[i]]
    BY DEF Lists
  <1>2. \A i \in 1 .. n : layout[i][1] \in FieldKinds
    BY DEF Lists, FieldKinds
  <1> QED BY <1>1, <1>2 DEF Known

(* So is one that says what parts are. *)
LEMMA LaysKnown ==
  ASSUME NEW layout, NEW u, NEW parts, Lays(layout, u, parts)
  PROVE  Known(layout)
  BY DEF Lays, Known

(* The layouts of journal payloads are. *)
LEMMA LayoutsKnown ==
  /\ Known(SecondLayout) /\ Known(SpanLayout) /\ Known(IdentityLayout) /\ Known(AppendedLayout)
  /\ Known(CopiedLayout) /\ Known(ItemLayout) /\ Known(FlagsLayout) /\ Known(ViewLayout)
  /\ Known(FactsLayout) /\ Known(FactLayout) /\ Known(ExpungedLayout) /\ Known(MutationLayout)
  <1>1. Known(SecondLayout) /\ Known(SpanLayout) /\ Known(IdentityLayout)
    BY DeliveredFields, SpanFields, IdentityFields, ListsKnown
  <1>2. Known(AppendedLayout) /\ Known(CopiedLayout) /\ Known(ItemLayout)
    BY AppendedFields, CopiedFields, ItemFields, ListsKnown
  <1>3. Known(FlagsLayout) /\ Known(ViewLayout) /\ Known(FactsLayout)
    BY FlagsFields, ViewFields, FactsFields, ListsKnown
  <1>4. Known(FactLayout) /\ Known(ExpungedLayout) /\ Known(MutationLayout)
    BY FactFields, ExpungedFields, MutationFields, ListsKnown
  <1> QED BY <1>1, <1>2, <1>3, <1>4

(* The cells p are what is left of w when s is cut off.                    *)
Cut(w, p, s) == w = p \o s /\ p \in Seq(Nat) /\ s \in Seq(Nat) /\ s # << >>

(* A layout reads of what is left what it reads of the whole, or nothing.  *)
LEMMA ReadCut ==
  ASSUME NEW w, NEW p, NEW s, Cut(w, p, s), NEW layout, Known(layout)
  PROVE  Grows(Read(Reading(p), layout), Read(Reading(w), layout), s) /\ s \in Seq(Nat) /\ s # << >>
  <1>1. w = p \o s /\ p \in Seq(Nat) /\ s \in Seq(Nat) /\ s # << >>
    BY DEF Cut
  <1>2. Grows(Reading(p), Reading(w), s)
    BY <1>1 DEF Grows, Reading
  <1> QED BY <1>1, <1>2, ReadGrows

(* What is left begins as the whole does.                                  *)
LEMMA CutBegins ==
  ASSUME NEW w, NEW p, NEW s, Cut(w, p, s)
  PROVE  w # << >> /\ (p # << >> => p[1] = w[1])
  <1>1. w = p \o s /\ p \in Seq(Nat) /\ s \in Seq(Nat) /\ s # << >>
    BY DEF Cut
  <1>2. /\ Len(w) = Len(p) + Len(s) /\ Len(p) \in Nat /\ Len(s) \in Nat
        /\ \A i \in 1 .. Len(p) : w[i] = p[i]
    BY <1>1, BothAre
  <1>3. Len(s) # 0 /\ (p # << >> => Len(p) # 0)
    BY <1>1, EmptySeq
  <1>4. w # << >>
    BY <1>2, <1>3
  <1>5. p # << >> => 1 \in 1 .. Len(p)
    BY <1>2, <1>3
  <1> QED BY <1>2, <1>4, <1>5

(* A list of strings that is counted in the head.                          *)
LEMMA CountedGrow ==
  ASSUME NEW r, NEW q, NEW s \in Seq(Nat), Grows(r, q, s), NEW name, NEW m, NEW n \in Nat,
         r # Refused => m = n
  PROVE  Grows(Strings(r, name, m), Strings(q, name, n), s)
  <1>1. CASE r = Refused
    <2>1. Strings(r, name, m) = Refused
      BY <1>1, RefusedIs DEF Strings
    <2> QED BY <2>1 DEF Grows
  <1>2. CASE r # Refused
    <2>1. PICK c, g : c \in Seq(Nat) /\ r = Holding(c, g) /\ q = Holding(c \o s, g)
      BY <1>2 DEF Grows
    <2> QED BY <1>2, <2>1, StringsGrow
  <1> QED BY <1>1, <1>2

(* A visible or hidden view's member, cut short, is refused.               *)
LEMMA ViewCut ==
  ASSUME NEW w, NEW p, NEW s, Cut(w, p, s), DecodeView(w) # None
  PROVE  DecodeView(p) = None
  <1> DEFINE r == Read(Reading(p), ViewLayout)  q == Read(Reading(w), ViewLayout)
  <1>1. q.rest = << >>
    BY DEF DecodeView, Whole
  <1>2. ~r.ok
    BY <1>1, ReadCut, CutRefused, LayoutsKnown
  <1> QED BY <1>2 DEF DecodeView, Whole

(* So is a fact inserted or retracted,                                     *)
LEMMA MutationCut ==
  ASSUME NEW w, NEW p, NEW s, Cut(w, p, s), DecodeMutation(w) # None
  PROVE  DecodeMutation(p) = None
  <1> DEFINE r == Read(Reading(p), MutationLayout)  q == Read(Reading(w), MutationLayout)
  <1>1. q.rest = << >>
    BY DEF DecodeMutation, Whole
  <1>2. ~r.ok
    BY <1>1, ReadCut, CutRefused, LayoutsKnown
  <1> QED BY <1>2 DEF DecodeMutation, Whole

(* an APPEND,                                                              *)
LEMMA AppendedCut ==
  ASSUME NEW w, NEW p, NEW s, Cut(w, p, s), DecodeAppended(w) # None
  PROVE  DecodeAppended(p) = None
  <1> DEFINE r == Read(Reading(p), AppendedLayout)  q == Read(Reading(w), AppendedLayout)
  <1>1. q.rest = << >>
    BY DEF DecodeAppended, Whole
  <1>2. ~r.ok
    BY <1>1, ReadCut, CutRefused, LayoutsKnown
  <1> QED BY <1>2 DEF DecodeAppended, Whole

(* a COPY, whose items are counted,                                        *)
LEMMA CopiedCut ==
  ASSUME NEW w, NEW p, NEW s, Cut(w, p, s), DecodeCopied(w) # None,
         Counting(Read(Reading(w), CopiedLayout))
  PROVE  DecodeCopied(p) = None
  <1> DEFINE h == Read(Reading(p), CopiedLayout)  k == Read(Reading(w), CopiedLayout)
             r == Items(h, "items", h.got["count"], ItemLayout)
             q == Items(k, "items", k.got["count"], ItemLayout)
  <1>1. q.rest = << >>
    BY DEF DecodeCopied, Whole
  <1>2. Grows(h, k, s) /\ s \in Seq(Nat) /\ s # << >> /\ \E c, g : k = Holding(c, g) /\ g["count"] \in Nat
    BY ReadCut, LayoutsKnown DEF Counting
  <1>3. DecodeCopied(p) = IF Whole(r, 1) /\ ValidCopied(Got(r)) THEN Got(r) ELSE None
    BY DEF DecodeCopied
  <1> HIDE DEF h, k
  <1>4. Grows(r, q, s)
    BY <1>2, ItemsGrow, LayoutsKnown
  <1> HIDE DEF r, q
  <1>5. ~r.ok
    BY <1>1, <1>2, <1>4, CutRefused
  <1> QED BY <1>3, <1>5 DEF Whole

(* the facts of a message, which are counted too,                          *)
LEMMA FactsCut ==
  ASSUME NEW w, NEW p, NEW s, Cut(w, p, s), DecodeFacts(w) # None,
         Counting(Read(Reading(w), FactsLayout))
  PROVE  DecodeFacts(p) = None
  <1> DEFINE h == Read(Reading(p), FactsLayout)  k == Read(Reading(w), FactsLayout)
             r == Items(h, "facts", h.got["count"], FactLayout)
             q == Items(k, "facts", k.got["count"], FactLayout)
  <1>1. q.rest = << >>
    BY DEF DecodeFacts, Whole
  <1>2. Grows(h, k, s) /\ s \in Seq(Nat) /\ s # << >> /\ \E c, g : k = Holding(c, g) /\ g["count"] \in Nat
    BY ReadCut, LayoutsKnown DEF Counting
  <1>3. Whole(r, 1) \/ DecodeFacts(p) = None
    BY DEF DecodeFacts
  <1> HIDE DEF h, k
  <1>4. Grows(r, q, s)
    BY <1>2, ItemsGrow, LayoutsKnown
  <1> HIDE DEF r, q
  <1>5. ~r.ok
    BY <1>1, <1>2, <1>4, CutRefused
  <1> QED BY <1>3, <1>5 DEF Whole

(* an expunge, whose UIDs are all that is left,                            *)
LEMMA ExpungedCut ==
  ASSUME NEW w, NEW p, NEW s, Cut(w, p, s), DecodeExpunged(w) # None
  PROVE  DecodeExpunged(p) = None
  <1> DEFINE r == Read(Reading(p), ExpungedLayout)  q == Read(Reading(w), ExpungedLayout)
  <1>1. Counted(q) /\ Grows(r, q, s) /\ s \in Seq(Nat) /\ s # << >>
    BY ReadCut, LayoutsKnown DEF DecodeExpunged
  <1>2. (r.ok /\ Counted(r)) \/ DecodeExpunged(p) = None
    BY DEF DecodeExpunged
  <1> HIDE DEF r, q
  <1>3. CASE r = Refused
    BY <1>2, <1>3, RefusedIs
  <1>4. CASE r # Refused
    <2>1. PICK c, g : c \in Seq(Nat) /\ r = Holding(c, g) /\ q = Holding(c \o s, g)
      BY <1>1, <1>4 DEF Grows
    <2> DEFINE d == c \o s
    <2>2. Len(d) = Len(c) + Len(s) /\ Len(c) \in Nat /\ Len(s) \in Nat
      BY <1>1, BothAre
    <2> HIDE DEF d
    <2>3. r.rest = c /\ r.got = g
      BY <2>1, HeldIs
    <2>4. q.rest = d /\ q.got = g
      <3>1. q = Holding(d, g)
        BY <2>1 DEF d
      <3> QED BY <3>1, HeldIs
    <2>5. Counted(r) => Len(s) = 0
      BY <1>1, <2>2, <2>3, <2>4 DEF Counted
    <2>6. Len(s) # 0
      BY <1>1, EmptySeq
    <2> QED BY <1>2, <2>5, <2>6
  <1> QED BY <1>3, <1>4

(* a change of flags,                                                      *)
LEMMA FlagsCut ==
  ASSUME NEW w, NEW p, NEW s, Cut(w, p, s), DecodeFlags(w) # None,
         \E c, g : /\ Read(Reading(w), FlagsLayout) = Holding(c, g)
                   /\ g["n_flags"] \in Nat /\ g["n_keywords"] \in Nat
  PROVE  DecodeFlags(p) = None
  <1> DEFINE h == Read(Reading(p), FlagsLayout)  k == Read(Reading(w), FlagsLayout)
             f == Strings(h, "system_flags", h.got["n_flags"])
             d == Strings(k, "system_flags", k.got["n_flags"])
             r == Strings(f, "user_keywords", h.got["n_keywords"])
             q == Strings(d, "user_keywords", k.got["n_keywords"])
  <1>1. q.rest = << >>
    BY DEF DecodeFlags, Whole
  <1>2. Grows(h, k, s) /\ s \in Seq(Nat) /\ s # << >>
    BY ReadCut, LayoutsKnown
  <1>3. Whole(r, 1) \/ DecodeFlags(p) = None
    BY DEF DecodeFlags
  <1>4. k.got["n_flags"] \in Nat /\ k.got["n_keywords"] \in Nat
    <2>1. PICK c, g : k = Holding(c, g) /\ g["n_flags"] \in Nat /\ g["n_keywords"] \in Nat
      OBVIOUS
    <2> HIDE DEF k
    <2>2. k.got = g
      BY <2>1, HeldIs
    <2> QED BY <2>1, <2>2
  <1> HIDE DEF h, k
  <1>5. h # Refused => h.got = k.got
    <2> SUFFICES ASSUME h # Refused PROVE h.got = k.got
      OBVIOUS
    <2>1. PICK c, g : c \in Seq(Nat) /\ h = Holding(c, g) /\ k = Holding(c \o s, g)
      BY <1>2 DEF Grows
    <2> QED BY <2>1, HeldIs
  <1>6. Grows(f, d, s)
    BY <1>2, <1>4, <1>5, CountedGrow
  <1>7. f # Refused => h # Refused
    <2>1. h = Refused => f = Refused
      BY RefusedIs DEF Strings
    <2> QED BY <2>1
  <1> HIDE DEF f, d
  <1>8. Grows(r, q, s)
    BY <1>2, <1>4, <1>5, <1>6, <1>7, CountedGrow
  <1> HIDE DEF r, q
  <1>9. ~r.ok
    BY <1>1, <1>2, <1>8, CutRefused
  <1> QED BY <1>3, <1>9 DEF Whole

(* and an audit, of either version.                                        *)
LEMMA AuditCut ==
  ASSUME NEW w, NEW p, NEW s, Cut(w, p, s), DecodeAudit(w) # None,
         Known(OtherLayout), Known(QueryLayout)
  PROVE  DecodeAudit(p) = None
  <1> DEFINE layout(cells) == IF cells # << >> /\ cells[1] = 2 THEN QueryLayout ELSE OtherLayout
             r == Read(Reading(p), layout(p))  q == Read(Reading(w), layout(w))
  <1>1. q.rest = << >>
    BY DEF DecodeAudit, Whole, QueryLayout, OtherLayout, CodeLayout
  <1>2. r.ok \/ DecodeAudit(p) = None
    BY DEF DecodeAudit, Whole, QueryLayout, OtherLayout, CodeLayout
  <1>3. CASE p = << >>
    <2>1. Len(OtherLayout) >= 1
      BY DEF OtherLayout, AuditHeader, AuditStrings
    <2>2. r = Refused
      BY <1>3, <2>1, NothingRefused DEF Reading
    <2> HIDE DEF r
    <2> QED BY <1>2, <2>2, RefusedIs
  <1>4. CASE p # << >>
    <2>1. layout(p) = layout(w) /\ Known(layout(w))
      BY <1>4, CutBegins
    <2>2. Grows(r, q, s) /\ s \in Seq(Nat) /\ s # << >>
      <3> HIDE DEF layout
      <3> QED BY <2>1, ReadCut
    <2> HIDE DEF r, q
    <2>3. ~r.ok
      BY <1>1, <2>2, CutRefused
    <2> QED BY <1>2, <2>3
  <1> QED BY <1>3, <1>4

(* What is in front of the same cells is the same.                         *)
LEMMA SameFront ==
  ASSUME NEW a \in Seq(Nat), NEW b \in Seq(Nat), NEW s \in Seq(Nat), a \o s = b \o s
  PROVE  a = b
  <1> DEFINE c == a \o s  d == b \o s
  <1>1. Len(c) = Len(a) + Len(s) /\ Len(a) \in Nat /\ Len(s) \in Nat /\ \A i \in 1 .. Len(a) : c[i] = a[i]
    BY BothAre
  <1>2. Len(d) = Len(b) + Len(s) /\ Len(b) \in Nat /\ \A i \in 1 .. Len(b) : d[i] = b[i]
    BY BothAre
  <1>3. c = d
    OBVIOUS
  <1> HIDE DEF c, d
  <1>4. Len(a) = Len(b) /\ \A i \in 1 .. Len(a) : a[i] = b[i]
    BY <1>1, <1>2, <1>3
  <1> QED BY <1>4, SeqEqual

(* A delivery without an identity is a delivery.                           *)
LEMMA UnidentifiedIsTyped ==
  ASSUME NEW e \in EventTypes("delivered")
  PROVE  Unidentified(e) \in EventTypes("delivered")
  <1> DEFINE z == << >>  N == Nullables  S == Seq(CStrings)  f == Unidentified(e)
  <1>1. f = [e EXCEPT !.delivery_id = None, !.queue_id = None, !.account_identity = None,
                      !.envelope_sender = None, !.recipients = z]
    BY DEF Unidentified
  <1>2. None \in N /\ z \in S
    BY DEF Nullables
  <1> HIDE DEF f, z
  <1> DEFINE absent == {"delivery_id", "queue_id", "account_identity", "envelope_sender"}
             kept == {"size_bytes", "internal_date", "duplicates", "object_key", "message_id", "subject",
                      "from", "to", "cc", "bcc", "date", "message_id_span_valid", "message_id_span_start",
                      "message_id_span_end", "subject_span_valid", "subject_span_start", "subject_span_end"}
  <1>4. DOMAIN e = kept \cup absent \cup {"recipients"}
    BY DEF EventTypes
  <1>5. /\ DOMAIN f = kept \cup absent \cup {"recipients"} /\ f = [x \in DOMAIN f |-> f[x]]
        /\ \A x \in kept : f[x] = e[x]
        /\ \A x \in absent : f[x] \in N
        /\ f["recipients"] \in S
    BY <1>1, <1>2, <1>4
  <1>3. f \in EventTypes("delivered")
    BY <1>5 DEF EventTypes
  <1> QED BY <1>3 DEF f

(* A delivery with spans and an identity: its identity is what is behind   *)
(* its spans, and without it it is a delivery without one.                 *)
LEMMA IdentityBehind ==
  ASSUME NEW e \in EventTypes("delivered"), EncodeDelivered(e) # None, HasSpans(e), e.delivery_id # None
  PROVE  \E v, c, g :
           /\ v \in Seq(Nat) /\ c \in Seq(Nat)
           /\ EncodeDelivered(e) = v \o c /\ DecodeDelivered(v) = Unidentified(e)
           /\ Read(Read(Reading(EncodeDelivered(e)), SecondLayout), SpanLayout) = Holding(c, g)
  <1> DEFINE a == FlattenSeq(DeliveredParts(e))  b == FlattenSeq(SpanParts(e))  c == FlattenSeq(IdentityParts(e))
             cells == EncodeDelivered(e)  f == Unidentified(e)
  <1>1. PICK u : DeliveredAs(u, e)
    BY DeliveredIs DEF EncodeDelivered
  <1>2. a \in Seq(Nat) /\ b \in Seq(Nat) /\ c \in Seq(Nat)
    BY <1>1, SecondLays, SpansLay, IdentityLays, PartsMake
  <1>3. cells = (a \o b) \o c
    BY DEF EncodeDelivered
  <1>4. /\ f \in EventTypes("delivered") /\ HasSpans(f) /\ f.delivery_id = None /\ f.object_key = e.object_key
        /\ DeliveredParts(f) = DeliveredParts(e) /\ SpanParts(f) = SpanParts(e) /\ Unidentified(f) = f
    <2> DEFINE kept == DOMAIN e \ {"delivery_id", "queue_id", "account_identity", "envelope_sender", "recipients"}
    <2>1. /\ DOMAIN f = DOMAIN e /\ (\A x \in kept : f[x] = e[x])
          /\ f.delivery_id = None /\ f.queue_id = None /\ f.account_identity = None
          /\ f.envelope_sender = None /\ f.recipients = << >>
      BY DEF Unidentified, EventTypes
    <2>2. DOMAIN e = {"size_bytes", "internal_date", "duplicates", "object_key", "message_id", "subject", "from",
                      "to", "cc", "bcc", "date", "message_id_span_valid", "message_id_span_start",
                      "message_id_span_end", "subject_span_valid", "subject_span_start", "subject_span_end",
                      "delivery_id", "queue_id", "account_identity", "envelope_sender", "recipients"}
      BY DEF EventTypes
    <2>3. f \in EventTypes("delivered")
      BY UnidentifiedIsTyped
    <2>4. Unidentified(f) = f
      BY <2>1, <2>2, <2>3 DEF Unidentified, EventTypes
    <2> HIDE DEF f
    <2>5. /\ f.size_bytes = e.size_bytes /\ f.internal_date = e.internal_date /\ f.duplicates = e.duplicates
          /\ f.object_key = e.object_key /\ f.message_id = e.message_id /\ f.subject = e.subject
          /\ f.from = e.from /\ f.to = e.to /\ f.cc = e.cc /\ f.bcc = e.bcc /\ f.date = e.date
          /\ f.message_id_span_valid = e.message_id_span_valid
          /\ f.message_id_span_start = e.message_id_span_start
          /\ f.message_id_span_end = e.message_id_span_end
          /\ f.subject_span_valid = e.subject_span_valid
          /\ f.subject_span_start = e.subject_span_start /\ f.subject_span_end = e.subject_span_end
      BY <2>1, <2>2
    <2>6. HasSpans(f)
      BY <2>5 DEF HasSpans
    <2>7. DeliveredParts(f) = DeliveredParts(e)
      BY <2>5, <2>6 DEF DeliveredParts, DeliveredVersion
    <2>8. SpanParts(f) = SpanParts(e)
      BY <2>5 DEF SpanParts
    <2> QED BY <2>1, <2>3, <2>4, <2>5, <2>6, <2>7, <2>8
  <1>5. IsKey(f.object_key) /\ f.delivery_id # << >>
    <2>1. IsKey(e.object_key)
      BY DEF EncodeDelivered
    <2>2. << >> \in Seq(Nat)
      OBVIOUS
    <2>3. None # << >>
      BY <2>2, NoneAssumption
    <2> QED BY <1>4, <2>1, <2>3
  <1> HIDE DEF f
  <1>6. EncodeDelivered(f) = a \o b
    <2> DEFINE z == << >>
    <2>1. EncodeDelivered(f) = (a \o b) \o z
      BY <1>4, <1>5 DEF EncodeDelivered
    <2> HIDE DEF a, b
    <2>2. a \o b \in Seq(Nat)
      BY <1>2, BothAre
    <2>3. (a \o b) \o z = a \o b
      BY <2>2, ConcatEmptySeq
    <2> QED BY <2>1, <2>3
  <1>7. DecodeDelivered(a \o b) = f
    <2>1. EncodeDelivered(f) # None
      BY <1>4, <1>5, DeliveredWritten
    <2>2. DecodeDelivered(EncodeDelivered(f)) = Recorded("delivered", f)
      BY <1>4, <2>1, DeliveredRead
    <2>3. Recorded("delivered", f) = f
      BY <1>4 DEF Recorded
    <2> HIDE DEF a, b
    <2> QED BY <1>6, <2>2, <2>3
  <1>8. Read(Read(Reading(cells), SecondLayout), SpanLayout) = Holding(c, Restrict(u, SpanWords \cup FirstNames))
    <2>1. \A s \in Seq(Nat) : cells = a \o s =>
            Read(Reading(cells), SecondLayout) = Holding(s, Restrict(u, FirstNames))
      BY <1>1, FirstPart
    <2>2. Read(Holding(b \o c, Restrict(u, FirstNames)), SpanLayout) = Holding(c, Restrict(u, SpanWords \cup FirstNames))
          /\ b \o c \in Seq(Nat)
      BY <1>1, <1>2, SpanPart
    <2> HIDE DEF a, b, c, cells
    <2>3. cells = a \o (b \o c)
      BY <1>2, <1>3, Associates
    <2> QED BY <2>1, <2>2, <2>3
  <1>9. a \o b \in Seq(Nat)
    <2> HIDE DEF a, b
    <2> QED BY <1>2, BothAre
  <1> DEFINE v == a \o b  g == Restrict(u, SpanWords \cup FirstNames)
  <1>10. /\ v \in Seq(Nat) /\ c \in Seq(Nat) /\ EncodeDelivered(e) = v \o c
         /\ DecodeDelivered(v) = Unidentified(e)
         /\ Read(Read(Reading(EncodeDelivered(e)), SecondLayout), SpanLayout) = Holding(c, g)
    BY <1>2, <1>3, <1>7, <1>8, <1>9 DEF f
  <1> HIDE DEF v, c, g, cells
  <1> QED BY <1>10

(* What a delivery's reader made, decoding needs.                          *)
LEMMA ReaderNeeded ==
  ASSUME NEW cells
  PROVE  DecodeDelivered(cells) # None => Reader(cells).ok /\ Reader(cells).rest = << >>
  BY DEF DecodeDelivered, Reader

(* The oldest layout of deliveries is, too. *)
LEMMA FirstKnown == Known(FirstLayout)
  <1>1. Len(FirstLayout) = 3 /\ DOMAIN FirstLayout = 1 .. 3
    BY DEF FirstLayout
  <1>2. \A i \in 1 .. 3 : FirstLayout[i][1] \in FieldKinds
    BY DEF FirstLayout, FieldKinds
  <1> QED BY <1>1, <1>2 DEF Known

(* A delivery cut short is refused, or it was cut before its identity.     *)
LEMMA DeliveredCut ==
  ASSUME NEW e \in EventTypes("delivered"), EncodeDelivered(e) # None,
         NEW w, w = EncodeDelivered(e), NEW p, NEW s, Cut(w, p, s), DecodeDelivered(w) # None
  PROVE  \/ DecodeDelivered(p) = None
         \/ HasSpans(e) /\ DecodeDelivered(p) = Unidentified(e)
  <1>1. Reader(w).rest = << >> /\ (Reader(p).ok \/ DecodeDelivered(p) = None)
    BY ReaderNeeded
  <1>2. w # << >> /\ (p # << >> => p[1] = w[1]) /\ w = p \o s /\ p \in Seq(Nat) /\ s \in Seq(Nat) /\ s # << >>
    BY CutBegins DEF Cut
  <1>3. ASSUME Reader(p) = Refused PROVE DecodeDelivered(p) = None
    BY <1>1, <1>3, RefusedIs
  <1>4. ASSUME Grows(Reader(p), Reader(w), s) PROVE DecodeDelivered(p) = None
    BY <1>1, <1>2, <1>4, CutRefused
  <1>5. CASE p = << >>
    BY <1>3, <1>5 DEF Reader
  <1>6. CASE p # << >> /\ w[1] = 1
    <2>1. Reader(p) = Read(Reading(p), FirstLayout) /\ Reader(w) = Read(Reading(w), FirstLayout)
      BY <1>2, <1>6 DEF Reader
    <2> QED BY <1>4, <2>1, ReadCut, FirstKnown
  <1>7. CASE p # << >> /\ w[1] = 2
    <2>1. Reader(p) = Read(Reading(p), SecondLayout) /\ Reader(w) = Read(Reading(w), SecondLayout)
      BY <1>2, <1>7 DEF Reader
    <2> QED BY <1>4, <2>1, ReadCut, LayoutsKnown
  <1>8. CASE p # << >> /\ w[1] = 3
    <2>1. /\ Reader(p) = Read(Read(Reading(p), SecondLayout), IdentityLayout)
          /\ Reader(w) = Read(Read(Reading(w), SecondLayout), IdentityLayout)
      BY <1>2, <1>8 DEF Reader
    <2>2. Grows(Read(Reading(p), SecondLayout), Read(Reading(w), SecondLayout), s)
      BY ReadCut, LayoutsKnown
    <2>3. Grows(Reader(p), Reader(w), s)
      BY <1>2, <2>1, <2>2, ReadGrows, LayoutsKnown
    <2> QED BY <1>4, <2>3
  <1>9. CASE p # << >> /\ w[1] = 4
    <2> DEFINE x == Read(Read(Reading(p), SecondLayout), SpanLayout)
               y == Read(Read(Reading(w), SecondLayout), SpanLayout)
    <2>1. Reader(p) = FourthRest(x) /\ Reader(w) = FourthRest(y)
      BY <1>2, <1>9 DEF Reader
    <2>2. Grows(x, y, s)
      <3>1. Grows(Read(Reading(p), SecondLayout), Read(Reading(w), SecondLayout), s)
        BY ReadCut, LayoutsKnown
      <3> QED BY <1>2, <3>1, ReadGrows, LayoutsKnown
    <2>3. DecodeDelivered(w) # None => e.delivery_id # None \/ y.rest = << >>
      <3> SUFFICES ASSUME e.delivery_id = None PROVE y.rest = << >>
        OBVIOUS
      <3>1. CASE HasSpans(e)
        <4>1. PICK u : DeliveredAs(u, e)
          BY DeliveredIs DEF EncodeDelivered
        <4> DEFINE a == FlattenSeq(DeliveredParts(e))  b == FlattenSeq(SpanParts(e))  z == << >>
        <4>2. a \in Seq(Nat) /\ b \in Seq(Nat) /\ w = (a \o b) \o z
          BY <3>1, <4>1, SecondLays, SpansLay, PartsMake DEF EncodeDelivered
        <4>3. \A d \in Seq(Nat) : w = a \o d => Read(Reading(w), SecondLayout) = Holding(d, Restrict(u, FirstNames))
          BY <4>1, FirstPart
        <4>4. \A d \in Seq(Nat) : Read(Holding(b \o d, Restrict(u, FirstNames)), SpanLayout) = Holding(d, Restrict(u, SpanWords \cup FirstNames))
          BY <4>1, SpanPart
        <4> HIDE DEF a, b, y
        <4>5. z \in Seq(Nat) /\ b \o z = b /\ (a \o b) \o z = a \o b
          BY <4>2, BothAre, ConcatEmptySeq
        <4> HIDE DEF z
        <4>6. w = a \o (b \o z) /\ b \o z \in Seq(Nat)
          BY <4>2, <4>5
        <4>7. y = Holding(z, Restrict(u, SpanWords \cup FirstNames))
          BY <4>3, <4>4, <4>5, <4>6 DEF y
        <4>8. y.rest = z
          BY <4>7, HeldIs
        <4> QED BY <4>8 DEF z
      <3>2. CASE ~HasSpans(e)
        <4>1. PICK u : DeliveredAs(u, e)
          BY DeliveredIs DEF EncodeDelivered
        <4> DEFINE a == FlattenSeq(DeliveredParts(e))  z == << >>
        <4>2. a \in Seq(Nat) /\ w = (a \o z) \o z
          BY <3>2, <4>1, SecondLays, PartsMake DEF EncodeDelivered
        <4>3. \A d \in Seq(Nat) : w = a \o d => w[1] = DeliveredVersion(e)
          BY <4>1, FirstPart
        <4> HIDE DEF a
        <4>4. z \in Seq(Nat) /\ w = a \o z
          BY <4>2, ConcatEmptySeq
        <4>5. DeliveredVersion(e) = 2
          BY <3>2 DEF DeliveredVersion
        <4> HIDE DEF z
        <4>6. w[1] = DeliveredVersion(e)
          BY <4>3, <4>4
        <4> QED BY <1>9, <4>5, <4>6
      <3> QED BY <3>1, <3>2
    <2> HIDE DEF x, y
    <2>4. CASE x = Refused
      <3>1. FourthRest(x) = Refused
        BY <2>4, RefusedIs DEF FourthRest
      <3> QED BY <1>3, <2>1, <3>1
    <2>5. CASE x # Refused
      <3>1. PICK c, g : c \in Seq(Nat) /\ x = Holding(c, g) /\ y = Holding(c \o s, g)
        BY <2>2, <2>5 DEF Grows
      <3>2. x.rest = c /\ y.rest # << >>
        <4>1. x.rest = c
          BY <3>1, HeldIs
        <4> DEFINE d == c \o s
        <4>2. Len(d) = Len(c) + Len(s) /\ Len(c) \in Nat /\ Len(s) \in Nat
          BY <1>2, BothAre
        <4> HIDE DEF d
        <4>3. y = Holding(d, g)
          BY <3>1 DEF d
        <4>4. y.rest = d
          BY <4>3, HeldIs
        <4>5. Len(s) # 0
          BY <1>2, EmptySeq
        <4>6. d # << >>
          BY <4>2, <4>5
        <4> QED BY <4>1, <4>4, <4>6
      <3>3. FourthRest(y) = Read(y, IdentityLayout)
        BY <3>2 DEF FourthRest
      <3>4. CASE c # << >>
        <4>1. FourthRest(x) = Read(x, IdentityLayout)
          BY <3>2, <3>4 DEF FourthRest
        <4>2. Grows(Reader(p), Reader(w), s)
          BY <1>2, <2>1, <2>2, <3>3, <4>1, ReadGrows, LayoutsKnown
        <4> QED BY <1>4, <4>2
      <3>5. CASE c = << >>
        <4>1. e.delivery_id # None
          BY <2>3, <3>2
        <4>2. HasSpans(e)
          <5>1. DeliveredVersion(e) = w[1]
            <6>1. PICK u : DeliveredAs(u, e)
              BY DeliveredIs DEF EncodeDelivered
            <6> DEFINE a == FlattenSeq(DeliveredParts(e))  b == FlattenSeq(SpanParts(e))
                       t == FlattenSeq(IdentityParts(e))  n == IF HasSpans(e) THEN b ELSE << >>
            <6>2. a \in Seq(Nat) /\ n \in Seq(Nat) /\ t \in Seq(Nat)
              BY <6>1, SecondLays, SpansLay, IdentityLays, PartsMake
            <6>3. w = (a \o n) \o t
              BY <4>1 DEF EncodeDelivered
            <6>4. \A d \in Seq(Nat) : w = a \o d => w[1] = DeliveredVersion(e)
              BY <6>1, FirstPart
            <6> HIDE DEF a, n, t
            <6>5. w = a \o (n \o t) /\ n \o t \in Seq(Nat)
              <7>1. n \o t \in Seq(Nat)
                BY <6>2, BothAre
              <7>2. Same(w, a, n, t)
                BY <6>2, <6>3, Regrouped
              <7> QED BY <7>1, <7>2 DEF Same
            <6> QED BY <6>4, <6>5
          <5> QED BY <1>9, <5>1 DEF DeliveredVersion
        <4>3. PICK v, t, h :
                /\ v \in Seq(Nat) /\ t \in Seq(Nat)
                /\ w = v \o t /\ DecodeDelivered(v) = Unidentified(e) /\ y = Holding(t, h)
          BY <4>1, <4>2, IdentityBehind DEF y
        <4>4. t = s
          <5> DEFINE d == c \o s
          <5>1. d = s
            BY <1>2, <3>5, ConcatEmptySeq
          <5> HIDE DEF d
          <5>2. y = Holding(d, g)
            BY <3>1 DEF d
          <5>3. y.rest = d
            BY <5>2, HeldIs
          <5>4. y.rest = t
            BY <4>3, HeldIs
          <5> QED BY <5>1, <5>3, <5>4
        <4>5. v = p
          BY <1>2, <4>3, <4>4, SameFront
        <4> QED BY <4>2, <4>3, <4>5
      <3> QED BY <3>4, <3>5
    <2> QED BY <2>4, <2>5
  <1>10. CASE w[1] \notin {1, 2, 3, 4}
    <2>1. Reader(w) = Refused
      BY <1>2, <1>10 DEF Reader
    <2> QED BY <2>1, ReaderNeeded, RefusedIs
  <1> QED BY <1>5, <1>6, <1>7, <1>8, <1>9, <1>10

(* A strict prefix is what is left when cells are cut off.                 *)
LEMMA PrefixIsCut ==
  ASSUME NEW S, NEW p \in Seq(S), NEW w \in Seq(Nat), IsStrictPrefix(p, w)
  PROVE  \E s : Cut(w, p, s)
  <1> DEFINE n == Len(p)  s == Rest(w, n)  d == p \o s
  <1>1. n \in 0 .. Len(w) /\ n \in Nat /\ Len(w) \in Nat /\ SubSeq(p, 1, Len(p)) = SubSeq(w, 1, n) /\ p # w
    BY DEF IsStrictPrefix, IsPrefix
  <1>2. p = SubSeq(w, 1, n)
    BY <1>1, SubSeqFull
  <1> HIDE DEF n
  <1>3. p \in Seq(Nat) /\ Len(p) = n /\ \A k \in 1 .. n : p[k] = w[k]
    <2>1. \A k \in 1 .. n : w[k] \in Nat
      <3>1. \A k \in 1 .. n : k \in 1 .. Len(w)
        BY <1>1
      <3> QED BY <3>1, ElementOfSeq
    <2>2. /\ SubSeq(w, 1, n) \in Seq(Nat) /\ Len(SubSeq(w, 1, n)) = (IF 1 <= n THEN n - 1 + 1 ELSE 0)
          /\ \A k \in 1 .. n - 1 + 1 : SubSeq(w, 1, n)[k] = w[1 + k - 1]
      <3>1. 1 \in Int /\ n \in Int
        BY <1>1
      <3> QED BY <2>1, <3>1, SubSeqProperties
    <2> QED BY <1>1, <1>2, <2>2
  <1>4. s \in Seq(Nat) /\ Len(s) = Len(w) - n /\ \A k \in 1 .. Len(w) - n : s[k] = w[n + k]
    BY <1>1, RestIs
  <1> HIDE DEF s
  <1>5. /\ d \in Seq(Nat) /\ Len(d) = Len(p) + Len(s)
        /\ (\A i \in 1 .. Len(p) : d[i] = p[i]) /\ \A i \in 1 .. Len(s) : d[Len(p) + i] = s[i]
    BY <1>3, <1>4, BothAre
  <1> HIDE DEF d
  <1>6. Len(d) = Len(w)
    BY <1>1, <1>3, <1>4, <1>5
  <1>7. ASSUME NEW k \in 1 .. Len(d) PROVE d[k] = w[k]
    <2>1. CASE k <= n
      <3>1. k \in 1 .. n
        BY <1>1, <1>6, <2>1
      <3> QED BY <1>3, <1>5, <3>1
    <2>2. CASE ~(k <= n)
      <3> DEFINE i == k - n
      <3>1. i \in 1 .. Len(w) - n /\ n + i = k
        BY <1>1, <1>6, <2>2
      <3> HIDE DEF i
      <3> QED BY <1>3, <1>4, <1>5, <3>1
    <2> QED BY <2>1, <2>2
  <1>8. d = w
    BY <1>5, <1>6, <1>7, SeqEqual
  <1>9. s # << >>
    <2> SUFFICES ASSUME s = << >> PROVE FALSE
      OBVIOUS
    <2>1. Len(p) = Len(w)
      BY <1>1, <1>3, <1>4
    <2>2. p = w
      BY <1>3, <2>1, SeqEqual
    <2> QED BY <1>1, <2>2
  <1> QED BY <1>3, <1>4, <1>8, <1>9 DEF Cut, d

(* What is recorded is of the type it was to be recorded as.               *)
LEMMA RecordedIsTyped ==
  ASSUME NEW type \in EventKinds, NEW e \in EventTypes(type)
  PROVE  Recorded(type, e) \in EventTypes(type)
  <1>1. CASE type = "delivered"
    <2> DEFINE a == IF e.delivery_id = None THEN Unidentified(e) ELSE e
    <2>1. a \in EventTypes("delivered")
      BY <1>1, UnidentifiedIsTyped
    <2> HIDE DEF a
    <2>2. [a EXCEPT !.message_id_span_start = 0, !.message_id_span_end = 0,
                    !.subject_span_start = 0, !.subject_span_end = 0] \in EventTypes("delivered")
      BY <2>1 DEF EventTypes
    <2> QED BY <1>1, <2>1, <2>2 DEF Recorded, a
  <1>2. CASE type = "audit"
    <2>1. None \in Nullables
      BY DEF Nullables
    <2>2. Onto(NoQuery, e) \in EventTypes("audit")
      BY <1>2, <2>1 DEF EventTypes, Onto, NoQuery
    <2> QED BY <1>2, <2>2 DEF Recorded
  <1>3. CASE type \notin {"delivered", "audit"}
    BY <1>3 DEF Recorded
  <1> QED BY <1>1, <1>2, <1>3

(* What is left of a record, however little was cut off, is refused, or    *)
(* its identity was.                                                       *)
LEMMA RecordCut ==
  ASSUME NEW type \in EventKinds, NEW e \in EventTypes(type), Encode(type, e) # None,
         NEW w, w = Encode(type, e), NEW p, NEW s, Cut(w, p, s)
  PROVE  \/ Decode(type, p) = None
         \/ type = "delivered" /\ HasSpans(e) /\ Decode(type, p) = Unidentified(e)
  <1>0. Decode(type, w) # None
    <2>1. Decode(type, w) = Recorded(type, e)
      BY RoundTrip
    <2>2. Recorded(type, e) # None
      BY RecordedIsTyped, NoneAssumption
    <2> QED BY <2>1, <2>2
  <1>1. CASE type = "delivered"
    BY <1>0, <1>1, DeliveredCut DEF Encode, Decode
  <1>2. CASE type = "appended"
    BY <1>0, <1>2, AppendedCut DEF Encode, Decode
  <1>3. CASE type = "copied"
    <2>1. w = EncodeCopied(e) /\ e \in EventTypes("copied") /\ w # None
      BY <1>3 DEF Encode
    <2>2. Counting(Read(Reading(w), CopiedLayout))
      BY <2>1, CopiedRead
    <2> QED BY <1>0, <1>3, <2>2, CopiedCut DEF Decode
  <1>4. CASE type = "audit"
    <2>1. Known(OtherLayout) /\ Known(QueryLayout)
      <3>1. PICK u : AuditAs(u, e)
        BY <1>4, AuditIs
      <3>2. Lays(OtherLayout, u, OtherParts(e)) /\ Lays(QueryLayout, u, QueryParts(e))
        BY <3>1, OtherRead, QueryRead
      <3> QED BY <3>2, LaysKnown
    <2> QED BY <1>0, <1>4, <2>1, AuditCut DEF Decode
  <1>5. CASE type = "flags"
    <2>1. w = EncodeFlags(e) /\ e \in EventTypes("flags") /\ ValidFlags(e)
      BY <1>5 DEF Encode, EncodeFlags
    <2>2. \E c, g : Read(Reading(w), FlagsLayout) = Holding(c, g) /\ g["n_flags"] \in Nat /\ g["n_keywords"] \in Nat
      BY <2>1, FlagsRead
    <2> QED BY <1>0, <1>5, <2>2, FlagsCut DEF Decode
  <1>6. CASE type = "view"
    BY <1>0, <1>6, ViewCut DEF Decode
  <1>7. CASE type = "facts"
    <2>1. w = EncodeFacts(e) /\ e \in EventTypes("facts") /\ w # None
      BY <1>7 DEF Encode
    <2>2. Counting(Read(Reading(w), FactsLayout))
      BY <2>1, FactsRead
    <2> QED BY <1>0, <1>7, <2>2, FactsCut DEF Decode
  <1>8. CASE type = "expunged"
    BY <1>0, <1>8, ExpungedCut DEF Decode
  <1>9. CASE type = "mutation"
    BY <1>0, <1>9, MutationCut DEF Decode
  <1> QED BY <1>1, <1>2, <1>3, <1>4, <1>5, <1>6, <1>7, <1>8, <1>9 DEF EventKinds
(* What is read, of a journal or of what another writer put there, is what *)
(* its cells decode to; and what they were before was written for a value. *)
ReadInv ==
  /\ record.stage \in {"foreign", "read"} =>
       /\ record.type \in EventKinds /\ record.value \in EventTypes(record.type)
       /\ Encode(record.type, record.value) # None /\ record.cells \in Seq(Nat \cup Cells)
  /\ record.stage = "read" => record.seen = Decode(record.type, record.cells)

(* Another writer's payload is a payload. *)
LEMMA ForeignAreCells ==
  ASSUME NEW cells \in Seq(Nat), NEW f \in Foreign(cells)
  PROVE  f \in Seq(Nat \cup Cells)
  <1> DEFINE S == Nat \cup Cells
  <1>1. cells \in Seq(S) /\ Len(cells) \in Nat /\ DOMAIN cells = 1 .. Len(cells) /\ Cells \subseteq S
    OBVIOUS
  <1> HIDE DEF S
  <1>2. ASSUME NEW n \in 0 .. Len(cells) - 1, f = SubSeq(cells, 1, n) PROVE f \in Seq(S)
    <2>1. \A k \in 1 .. n : cells[k] \in S
      <3>1. \A k \in 1 .. n : k \in 1 .. Len(cells)
        BY <1>1
      <3> QED BY <1>1, <3>1, ElementOfSeq
    <2>2. 1 \in Int /\ n \in Int
      OBVIOUS
    <2> QED BY <1>2, <2>1, <2>2, SubSeqProperties
  <1>3. ASSUME NEW c \in Cells, f = Append(cells, c) PROVE f \in Seq(S)
    BY <1>1, <1>3
  <1>4. ASSUME NEW n \in DOMAIN cells, NEW c \in Cells, f = [cells EXCEPT ![n] = c] PROVE f \in Seq(S)
    BY <1>1, <1>4
  <1>5. f \in Seq(S)
    BY <1>2, <1>3, <1>4 DEF Foreign
  <1> QED BY <1>5 DEF S

(* Every step keeps that. *)
LEMMA ReadInvCorrect == Spec => []ReadInv
  <1>1. Init => ReadInv
    BY DEF Init, NoRecord, ReadInv
  <1>2. RecordInv /\ RecordShape /\ ReadInv /\ [Next]_vars => ReadInv'
    <2> SUFFICES ASSUME RecordInv, RecordShape, ReadInv, [Next]_vars PROVE ReadInv'
      OBVIOUS
    <2>1. CASE WriteRecord
      <3>1. PICK e \in Events : \E cells : record' = [stage |-> IF cells = None THEN "refused" ELSE "written",
                                           type |-> e.type, value |-> e.value, cells |-> cells]
        BY <2>1 DEF WriteRecord
      <3>2. record'.stage \in {"refused", "written"}
        BY <3>1
      <3> QED BY <3>2 DEF ReadInv
    <2>2. CASE ExtractFacts
      <3>1. \E value, cells : record' = [stage |-> IF cells = None THEN "stuck" ELSE "extracted", type |-> "facts",
                                         value |-> value, cells |-> cells]
        BY <2>2 DEF ExtractFacts
      <3>2. record'.stage \in {"stuck", "extracted"}
        BY <3>1
      <3> QED BY <3>2 DEF ReadInv
    <2>3. CASE WriteForeign
      <3>1. PICK cells \in Foreign(record.cells) : record' = [record EXCEPT !.stage = "foreign", !.cells = cells]
        BY <2>3 DEF WriteForeign
      <3>2. record = [stage |-> "written", type |-> record.type, value |-> record.value, cells |-> record.cells]
            /\ record.stage = "written"
        BY <2>3 DEF WriteForeign, RecordShape
      <3>3. record'.stage = "foreign" /\ record'.type = record.type /\ record'.value = record.value /\ record'.cells = cells
        BY <3>1, <3>2
      <3>4. /\ record.type \in EventKinds /\ record.value \in EventTypes(record.type)
            /\ record.cells = Encode(record.type, record.value) /\ record.cells # None
        BY <3>2 DEF RecordInv
      <3>5. cells \in Seq(Nat \cup Cells)
        BY <3>4, RoundTrip, ForeignAreCells
      <3> QED BY <3>3, <3>4, <3>5 DEF ReadInv
    <2>4. CASE ReadRecord
      <3>1. /\ record'.stage = "read" /\ record'.type = record.type /\ record'.cells = record.cells
            /\ record'.value = record.value /\ record'.seen = Decode(record.type, record.cells)
            /\ record.stage \in {"written", "extracted", "foreign"}
        BY <2>4 DEF ReadRecord
      <3>2. CASE record.stage = "foreign"
        BY <3>1, <3>2 DEF ReadInv
      <3>3. CASE record.stage \in {"written", "extracted"}
        <4>1. /\ record.type \in EventKinds /\ record.value \in EventTypes(record.type)
              /\ record.cells = Encode(record.type, record.value) /\ record.cells # None
          BY <3>3 DEF RecordInv
        <4>2. record.cells \in Seq(Nat)
          BY <4>1, RoundTrip
        <4>3. \A c \in Seq(Nat) : c \in Seq(Nat \cup Cells)
          OBVIOUS
        <4> QED BY <3>1, <4>1, <4>2, <4>3 DEF ReadInv
      <3> QED BY <3>1, <3>2, <3>3
    <2>5. CASE UNCHANGED record
      BY <2>5 DEF ReadInv
    <2> QED BY <2>1, <2>2, <2>3, <2>4, <2>5 DEF Next, vars, Send, Receive, Execute, Understand
  <1> QED BY <1>1, <1>2, RecordInvCorrect, PTL DEF Spec

(* A payload cut short is refused wherever it was cut, or it is a delivery *)
(* with spans that was cut before its identity: the one place, for every   *)
(* value of every type.                                                    *)
THEOREM CutIsRefusedUnlessIdentityLostCorrect == Spec => []CutIsRefusedUnlessIdentityLost
  <1>1. ReadInv => CutIsRefusedUnlessIdentityLost
    <2> SUFFICES ASSUME ReadInv, record.stage = "read",
                        IsStrictPrefix(record.cells, Encode(record.type, record.value))
                 PROVE  \/ record.seen = None
                        \/ /\ record.type = "delivered" /\ HasSpans(record.value)
                           /\ record.seen = Unidentified(record.value)
      BY DEF CutIsRefusedUnlessIdentityLost
    <2> DEFINE type == record.type  e == record.value  w == Encode(type, e)  p == record.cells
    <2>1. /\ type \in EventKinds /\ e \in EventTypes(type) /\ w # None /\ p \in Seq(Nat \cup Cells)
          /\ record.seen = Decode(type, p)
      BY DEF ReadInv
    <2>2. w \in Seq(Nat)
      BY <2>1, RoundTrip
    <2>3. \E s : Cut(w, p, s)
      BY <2>1, <2>2, PrefixIsCut
    <2> QED BY <2>1, <2>3, RecordCut
  <1> QED BY <1>1, ReadInvCorrect, PTL
=============================================================================
