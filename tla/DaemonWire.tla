----------------------------- MODULE DaemonWire -----------------------------
(***************************************************************************)
(* What passes between a client and the daemon: how a request is checked   *)
(* and written by the client library, what the daemon makes of it, and the  *)
(* same for the answer.  Cap'n Proto carries a message as it was written   *)
(* and has no absent text: what is not there is written, and read, as the  *)
(* empty string.                                                           *)
(*   wyrebox/daemon/wyrebox-daemon-capnp-codec.cc, *-request.c, *-frame.c  *)
(***************************************************************************)
EXTENDS Texts

CONSTANTS
  MaxCriteria,  \* of a SEARCH; of their texts
  MaxTextLength,
  MaxUids,      \* of a COPY, MOVE or EXPUNGE
  MaxEntries,   \* of a batch of facts
  MaxBytes      \* of an appended message

Kept(s) == IF s = << >> THEN None ELSE s
Blanked(r) == [f \in DOMAIN r |-> IF r[f] = None THEN << >> ELSE r[f]]

Kinds == {"ordinary", "virtual"}   \* of mailboxes
Modes == {"set", "clear", "replace"}

-----------------------------------------------------------------------------
(* The checks of a request, the same at both ends: what it comes to, or    *)
(* None.                                                                   *)

RequestIdentity(i) ==
  IF Required(i.request_id) THEN [f \in DOMAIN i |-> Kept(i[f])] ELSE None

MailboxList(b) ==
  IF IsPlain(b.account) /\ NoControl(b.prefix) THEN Blanked(b) ELSE None

(* SELECT and STATUS name a mailbox by its id or by its name.              *)
MailboxSelect(b) ==
  IF /\ IsPlain(b.account) /\ Required(b.id) # Required(b.name)
     /\ NoControl(b.id) /\ NoControl(b.name)
  THEN [b EXCEPT !.id = Kept(@), !.name = Kept(@)] ELSE None

MessageFetch(b) ==
  IF IsPlain(b.account) /\ IsPlain(b.mailbox) /\ b.kind \in Kinds /\ b.uidvalidity # 0 /\ b.uid # 0
  THEN b ELSE None

Criterion(c) ==
  CASE c.kind \in {"subject", "from", "domain"} -> IsPlain(c.text) /\ Len(c.text) <= MaxTextLength
    [] c.kind \in {"since", "before"} -> c.text = None
    [] OTHER -> FALSE
MessageSearch(b) ==
  IF /\ IsPlain(b.account) /\ IsPlain(b.mailbox) /\ b.kind \in Kinds /\ b.uidvalidity # 0
     /\ Len(b.criteria) <= MaxCriteria
     /\ \A c \in ToSet(b.criteria) : Criterion(c)
  THEN b ELSE None

(* A query of a predicate or of a DuckDB template.                         *)
Query(b) ==
  IF /\ IsToken(b.query) /\ IsToken(b.target) /\ IsPlain(b.scope)
     /\ \A a \in ToSet(b.arguments) : IsPlain(a)
  THEN b ELSE None

Delivery(b) ==
  IF /\ IsPlain(b.delivery_id) /\ NoControl(b.queue_id) /\ NoControl(b.sender)
     /\ b.recipients # << >> /\ \A r \in ToSet(b.recipients) : IsPlain(r)
     /\ b.bytes # << >>
  THEN b ELSE None

FlagUpdate(b) ==
  IF /\ IsPlain(b.account) /\ IsPlain(b.mailbox) /\ b.uidvalidity # 0 /\ b.uid # 0
     /\ b.mode \in Modes /\ Names(b.flags, b.keywords, IsUserKeyword)
     /\ b.mode = "replace" \/ b.flags # << >> \/ b.keywords # << >>
  THEN b ELSE None

SomeUids(uids) == Len(uids) \in 1 .. MaxUids /\ Ascending(uids)
Expunge(b) ==
  IF IsPlain(b.account) /\ IsPlain(b.mailbox) /\ b.uidvalidity # 0 /\ SomeUids(b.uids)
  THEN b ELSE None
CopyMove(b) ==
  IF /\ IsPlain(b.account) /\ IsPlain(b.source) /\ IsPlain(b.dest) /\ b.kind \in Kinds
     /\ b.source_uidvalidity # 0 /\ b.dest_uidvalidity # 0 /\ SomeUids(b.uids)
  THEN b ELSE None

MessageAppend(b) ==
  IF /\ IsPlain(b.account) /\ IsPlain(b.mailbox) /\ b.uidvalidity # 0
     /\ Len(b.bytes) \in 1 .. MaxBytes /\ Names(b.flags, b.keywords, IsUserKeyword)
  THEN b ELSE None

FactMutation(b) ==
  IF /\ b.mutation \in {"insert", "retract"} /\ IsPredicate(b.predicate) /\ IsPlain(b.scope)
     /\ \A a \in ToSet(b.arguments) : IsPlain(a)
  THEN b ELSE None
FactBatch(b) ==
  IF /\ Len(b.entries) \in 1 .. MaxEntries
     /\ \A e \in ToSet(b.entries) : FactMutation(e) # None /\ e.scope = b.entries[1].scope
  THEN b ELSE None

EventStream(b) ==
  IF IsPlain(b.account) /\ (b.offset = 0 \/ b.sequence # 0) THEN b ELSE None

Checked(kind, b) ==
  CASE kind = "list" -> MailboxList(b)
    [] kind \in {"select", "status"} -> MailboxSelect(b)
    [] kind = "fetch" -> MessageFetch(b)
    [] kind = "search" -> MessageSearch(b)
    [] kind \in {"wirelog", "duckdb"} -> Query(b)
    [] kind = "delivery" -> Delivery(b)
    [] kind = "flags" -> FlagUpdate(b)
    [] kind = "expunge" -> Expunge(b)
    [] kind \in {"copy", "move"} -> CopyMove(b)
    [] kind = "append" -> MessageAppend(b)
    [] kind = "fact" -> FactMutation(b)
    [] kind = "batch" -> FactBatch(b)
    [] kind = "events" -> EventStream(b)

Writes == {"delivery", "flags", "expunge", "copy", "move", "append", "fact", "batch"}
Streams == {"fetch", "search", "wirelog", "duckdb", "events"}

-----------------------------------------------------------------------------
(* A request as it is written.  A COPY or MOVE names its two mailboxes, a  *)
(* request for events is written without the filters it may have.          *)

Body(kind, b) ==
  IF kind = "events" THEN [b EXCEPT !.filter = None] ELSE Blanked(b)

Written(r) ==
  [kind |-> r.kind, identity |-> Blanked(r.identity), body |-> Body(r.kind, r.body)]

(* The client library checks what it writes.                               *)
EncodeRequest(r) ==
  IF RequestIdentity(r.identity) = None \/ Checked(r.kind, r.body) = None THEN None ELSE Written(r)

(* The daemon keeps the identity as it reads it and wants one more thing of *)
(* a LIST than its client does.                                            *)
IdentityReadStrict(m) ==  \* variant: every request must name its caller
  /\ m.identity.request_id # << >> /\ m.identity.caller_identity # << >>
  /\ m.kind = "list" => m.identity.account_identity # << >>
IdentityRead(m) ==
  /\ m.identity.request_id # << >>
  /\ m.kind = "list" => m.identity.account_identity # << >>

DecodeRequest(m) ==
  LET body == Checked(m.kind, m.body)
  IN  IF IdentityRead(m) /\ body # None THEN [m EXCEPT !.body = body] ELSE None

-----------------------------------------------------------------------------
(* Answers: built by a service or, for a failure, by its dispatcher.       *)

Classes == {"invalid", "temporary", "internal"}   \* of errors, some of them

Entry(e) ==
  /\ e.kind \in Kinds /\ IsPlain(e.id) /\ IsPlain(e.name)
  /\ Len(e.delimiter) = 1 /\ NoControl(e.delimiter)
  /\ NoControl(e.special_use) /\ e.child_state \in {"unknown", "children", "none"}

Used(e) == [e EXCEPT !.special_use = Kept(@)]
ListResult(f) ==
  LET p == f.payload
  IN  IF \A e \in ToSet(p) : Entry(e)
      THEN [f EXCEPT !.payload = [n \in DOMAIN p |-> Used(p[n])]] ELSE None

SuccessReceipt(f) ==
  IF Required(f.payload.durable_marker) /\ f.payload.sequence # 0 /\ Required(f.payload.summary)
  THEN f ELSE None

ErrorFrame(f) ==
  LET p == f.payload
  IN  IF Required(p.message) /\ p.class \in Classes
      THEN [f EXCEPT !.payload = [p EXCEPT !.retry_hint = Kept(p.retry_hint)]] ELSE None

SelectResult(f) ==
  LET p == f.payload
  IN  IF p.kind \in Kinds /\ IsPlain(p.id) /\ IsPlain(p.name) /\ p.uidvalidity # 0 /\ p.uidnext # 0
      THEN f ELSE None

(* Only the chunks of a stream want the identifiers of the request plain.  *)
OneStream(f) ==
  /\ Required(f.payload.message_id) # Required(f.payload.query_id)
  /\ \A t \in {f.request_id, f.payload.message_id, f.payload.query_id, f.correlation_id} : NoControl(t)
Identified(p) == [p EXCEPT !.message_id = Kept(@), !.query_id = Kept(@)]
StreamChunk(f) ==
  IF OneStream(f) /\ (f.payload.end \/ f.payload.bytes # << >>)
  THEN [f EXCEPT !.payload = Identified(@)] ELSE None

Answer(given) ==
  LET f == [given EXCEPT !.correlation_id = Kept(@)]
  IN  IF ~Required(f.request_id) THEN None
      ELSE CASE f.kind = "success" -> SuccessReceipt(f)
             [] f.kind = "error" -> ErrorFrame(f)
             [] f.kind = "list" -> ListResult(f)
             [] f.kind = "select" -> SelectResult(f)
             [] f.kind = "chunk" -> StreamChunk(f)

(* A success and an error carry a request id of their own, which is the    *)
(* frame's; the others are given the frame's when they are written.  Of    *)
(* what the frame must hold, only a part is checked again.                 *)
WritableFilled(f) ==  \* variant: the last chunk may not be empty either
  f.kind = "chunk" => f.payload.bytes # << >>
Writable(f) ==
  LET p == f.payload
  IN  /\ Required(f.request_id)
      /\ CASE f.kind = "success" -> Required(p.durable_marker) /\ Required(p.summary)
           [] f.kind = "error" -> Required(p.message) /\ p.class \in Classes
           [] f.kind = "list" -> \A e \in ToSet(p) : e.kind \in Kinds
           [] f.kind = "select" -> Required(p.id) /\ Required(p.name) /\ p.uidvalidity # 0 /\ p.uidnext # 0
           [] f.kind = "chunk" -> Required(p.message_id) # Required(p.query_id) /\ (p.end \/ p.bytes # << >>)

PayloadWritten(f) ==
  IF f.kind = "list" THEN [n \in DOMAIN f.payload |-> Blanked(f.payload[n])] ELSE Blanked(f.payload)

EncodeAnswer(f) ==
  IF Writable(f)
  THEN [kind |-> f.kind, request_id |-> f.request_id, payload_id |-> f.request_id,
        correlation_id |-> IF f.correlation_id = None THEN << >> ELSE f.correlation_id,
        payload |-> PayloadWritten(f)]
  ELSE None

(* The client reads an answer only if both ids agree.                      *)
DecodeAnswer(m) ==
  IF m.request_id # << >> /\ m.payload_id = m.request_id
  THEN Answer([kind |-> m.kind, request_id |-> m.request_id, correlation_id |-> m.correlation_id,
               payload |-> m.payload])
  ELSE None
=============================================================================
