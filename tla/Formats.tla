------------------------------- MODULE Formats -------------------------------
(***************************************************************************)
(* What is written for another to read.  One record is encoded, kept in    *)
(* the journal and decoded by a replay, or a payload it never wrote (cut   *)
(* short, longer, one field different: another writer's) is decoded there. *)
(* One request is encoded by a client, the daemon's library or another,    *)
(* decoded, executed and answered by the daemon, and its answer decoded.   *)
(* The record a request leads to is the composition of the two, and the    *)
(* facts found in a stored message are a record too.                       *)
(***************************************************************************)
EXTENDS FactExtraction, DaemonWire

CONSTANTS
  Events,      \* [type, value]: what is to be recorded
  Cells,       \* the values a cell of another writer may have
  Stored,      \* [mail, file]: a stored message, the rules of its daemon
  Messages,    \* what the headers of a stored message may say
  Requests,    \* [kind, identity, body]: what clients ask
  Outcomes     \* [kind, payload]: what the services come to, errors included

-----------------------------------------------------------------------------
(* What requests and answers hold, checked or not.  A text of C ends where *)
(* its NUL is, and none is as long as the length that means none.          *)

CStrings == {s \in Seq(Nat \ {0}) : Len(s) < NullWord}
Nullables == CStrings \cup {None}

Identities ==
  [request_id : Nullables, caller_identity : Nullables, account_identity : Nullables,
   tool_identity : Nullables, correlation_id : Nullables]
SearchCriteria == [kind : STRING, text : Nullables]
FactBodies ==
  [mutation : STRING, predicate : Nullables, scope : Nullables, arguments : Seq(CStrings)]
BodyTypes(kind) ==
  CASE kind = "list" -> [account : Nullables, prefix : Nullables]
    [] kind \in {"select", "status"} -> [account : Nullables, id : Nullables, name : Nullables]
    [] kind = "fetch" ->
         [account : Nullables, mailbox : Nullables, kind : STRING, uidvalidity : Nat, uid : Nat]
    [] kind = "search" ->
         [account : Nullables, mailbox : Nullables, kind : STRING, uidvalidity : Nat,
          criteria : Seq(SearchCriteria)]
    [] kind \in {"wirelog", "duckdb"} ->
         [query : Nullables, target : Nullables, scope : Nullables, arguments : Seq(CStrings)]
    [] kind = "delivery" ->
         [delivery_id : Nullables, queue_id : Nullables, sender : Nullables,
          recipients : Seq(CStrings), bytes : Seq(Nat)]
    [] kind = "flags" ->
         [account : Nullables, mailbox : Nullables, uidvalidity : Nat, uid : Nat, mode : STRING,
          flags : Seq(CStrings), keywords : Seq(CStrings)]
    [] kind = "expunge" ->
         [account : Nullables, mailbox : Nullables, uidvalidity : Nat, uids : Seq(Nat)]
    [] kind \in {"copy", "move"} ->
         [account : Nullables, source : Nullables, dest : Nullables, kind : STRING,
          source_uidvalidity : Nat, dest_uidvalidity : Nat, uids : Seq(Nat)]
    [] kind = "append" ->
         [account : Nullables, mailbox : Nullables, uidvalidity : Nat, internal_date : Nat,
          bytes : Seq(Nat), flags : Seq(CStrings), keywords : Seq(CStrings)]
    [] kind = "fact" -> FactBodies
    [] kind = "batch" -> [entries : Seq(FactBodies)]
    [] kind = "events" -> [account : Nullables, offset : Nat, sequence : Nat, filter : Nullables]
RequestKinds == Writes \cup Streams \cup {"list", "select", "status"}
RequestTypes(kind) == [kind : {kind}, identity : Identities, body : BodyTypes(kind)]

MailboxEntries ==
  [kind : STRING, id : Nullables, name : Nullables, delimiter : CStrings, special_use : Nullables,
   selectable : BOOLEAN, child_state : STRING]
PayloadTypes(kind) ==
  CASE kind = "success" ->
         [durable_marker : Nullables, offset : Nat, sequence : Nat, summary : Nullables]
    [] kind = "error" -> [class : STRING, message : Nullables, retry_hint : Nullables]
    [] kind = "list" -> Seq(MailboxEntries)
    [] kind = "select" ->
         [kind : STRING, id : Nullables, name : Nullables, uidvalidity : Nat, uidnext : Nat, count : Nat]
    [] kind = "chunk" ->
         [message_id : Nullables, query_id : Nullables, index : Nat, bytes : Seq(Nat), end : BOOLEAN]
AnswerKinds == {"success", "error", "list", "select", "chunk"}
FrameTypes(kind) ==
  [kind : {kind}, request_id : Nullables, correlation_id : Nullables, payload : PayloadTypes(kind)]
AnswerTypes(kind) ==
  [kind : {kind}, request_id : Nullables, payload_id : Nullables, correlation_id : Nullables,
   payload : PayloadTypes(kind)]

(* What is to be recorded, checked or not; of facts, only fact records.    *)
ItemTypes ==
  [src_uid : Nat, dst_uid : Nat, internal_date : Nat, message_id : Nullables,
   system_flags : Seq(CStrings), user_keywords : Seq(CStrings)]
FactTexts ==
  [predicate : Nullables, source : Nullables, confidence : Nat, args : Seq(CStrings)]
FactTypes == {f \in FactTexts : FactRecord(f, 1)}
EventTypes(type) ==
  CASE type = "delivered" ->
         [size_bytes : Nat, internal_date : Nat, duplicates : Nat, object_key : Nullables,
          message_id : Nullables, subject : Nullables, from : Nullables, to : Nullables,
          cc : Nullables, bcc : Nullables, date : Nullables, message_id_span_valid : BOOLEAN,
          message_id_span_start : Nat, message_id_span_end : Nat, subject_span_valid : BOOLEAN,
          subject_span_start : Nat, subject_span_end : Nat, delivery_id : Nullables,
          queue_id : Nullables, account_identity : Nullables, envelope_sender : Nullables,
          recipients : Seq(CStrings)]
    [] type = "appended" ->
         [account_id : Nullables, mailbox_id : Nullables, uidvalidity : Nat, uid : Nat,
          size_bytes : Nat, internal_date : Nat, duplicates : Nat, object_key : Nullables,
          message_id : Nullables, subject : Nullables, from : Nullables, to : Nullables,
          cc : Nullables, bcc : Nullables, date : Nullables, message_id_span_valid : BOOLEAN,
          message_id_span_start : Nat, message_id_span_end : Nat, subject_span_valid : BOOLEAN,
          subject_span_start : Nat, subject_span_end : Nat, system_flags : Seq(CStrings),
          user_keywords : Seq(CStrings)]
    [] type = "copied" ->
         [account_id : Nullables, source_mailbox_id : Nullables, dest_mailbox_id : Nullables,
          source_uidvalidity : Nat, dest_uidvalidity : Nat, items : Seq(ItemTypes)]
    [] type = "audit" ->
         [operation : Nat, outcome : Nat, mutation_count : Nat, final_offset : Nat,
          final_sequence : Nat, error_code : Nat, request_id : Nullables,
          correlation_id : Nullables, caller_identity : Nullables, account_identity : Nullables,
          tool_identity : Nullables, scope_id : Nullables, predicate_id : Nullables,
          query_id : Nullables, template_id : Nullables, error_domain : Nullables,
          error_class : Nullables, error_message : Nullables]
    [] type = "flags" ->
         [account_id : Nullables, mailbox_id : Nullables, uid : Nat, uidvalidity : Nat, mode : Nat,
          system_flags : Seq(CStrings), user_keywords : Seq(CStrings)]
    [] type = "view" ->
         [account_id : Nullables, view_id : Nullables, message_id : Nullables,
          membership_id : Nullables, rule_version_hash : Nullables, uid : Nat, uidvalidity : Nat,
          is_visible : BOOLEAN, materialized_at : Nat]
    [] type = "facts" ->
         [account_id : Nullables, message_id : Nullables, extracted_at : Nat \ {0},
          facts : Seq(FactTypes)]
    [] type = "expunged" ->
         [account_id : Nullables, mailbox_id : Nullables, uidvalidity : Nat, uids : Seq(Nat)]
    [] type = "mutation" ->
         [mutation : Nat, predicate_id : Nullables, scope_id : Nullables, arguments : Seq(CStrings)]
EventKinds ==
  {"delivered", "appended", "copied", "audit", "flags", "view", "facts", "expunged", "mutation"}

(* None is a value of its own.                                             *)
ASSUME NoneAssumption ==
  /\ None \notin Nat /\ None \notin STRING /\ None \notin CStrings /\ None \notin Seq(Nat)
  /\ None \notin BOOLEAN /\ \A kind \in AnswerKinds : None \notin FrameTypes(kind) /\ None \notin AnswerTypes(kind)
  /\ None \notin Seq(CStrings) /\ None \notin Seq(SearchCriteria) /\ None \notin Seq(FactBodies)
  /\ \A kind \in RequestKinds : None \notin BodyTypes(kind) /\ None \notin RequestTypes(kind)
  /\ \A type \in EventKinds : None \notin EventTypes(type)

ASSUME RequestsAssumption ==
  /\ NullWord \in Nat \ {0, 1}
  /\ \A r \in Requests : \E kind \in RequestKinds : r \in RequestTypes(kind)

(* What a service comes to makes an answer, at least under a plain id.     *)
ASSUME OutcomesAssumption ==
  \A o \in Outcomes :
    /\ o.kind \in AnswerKinds /\ o.payload \in PayloadTypes(o.kind)
    /\ Answer([kind |-> o.kind, request_id |-> <<1>>, correlation_id |-> None,
               payload |-> o.payload]) # None

ASSUME EventsAssumption ==
  \A e \in Events : \E type \in EventKinds : e.type = type /\ e.value \in EventTypes(type)

(* What the headers of a stored message say, and where they say it.        *)
HeaderTypes ==
  [size_bytes : Nat, internal_date : Nat, duplicates : Nat, object_key : CStrings,
   message_id : Nullables, subject : Nullables, from : Nullables, to : Nullables, cc : Nullables,
   bcc : Nullables, date : Nullables, message_id_span_valid : BOOLEAN, message_id_span_start : Nat,
   message_id_span_end : Nat, subject_span_valid : BOOLEAN, subject_span_start : Nat,
   subject_span_end : Nat]
ASSUME MessagesAssumption ==
  \A m \in Messages :
    /\ m \in HeaderTypes /\ IsKey(m.object_key)
    /\ SpanAsWritten(m.message_id_span_valid, m.message_id_span_start, m.message_id_span_end)
    /\ SpanAsWritten(m.subject_span_valid, m.subject_span_start, m.subject_span_end)

(* The texts found in a stored message are texts of C, too.                *)
ASSUME StoredAssumption ==
  \A m \in Stored : \A rules \in {RulesFrom(m.file)} :
    rules # None => Extract(<<1>>, m.mail, rules) \in Seq(FactTexts) \cup {None}

VARIABLES
  record,      \* [stage, type, value, cells, seen]
  exchange     \* [stage, own, request, message, decoded, failed, answer, seen]

vars == <<record, exchange>>

Encode(type, e) ==
  CASE type = "delivered" -> EncodeDelivered(e)
    [] type = "appended" -> EncodeAppended(e)
    [] type = "copied" -> EncodeCopied(e)
    [] type = "audit" -> EncodeAudit(e)
    [] type = "flags" -> EncodeFlags(e)
    [] type = "view" -> EncodeView(e)
    [] type = "facts" -> EncodeFacts(e)
    [] type = "expunged" -> EncodeExpunged(e)
    [] type = "mutation" -> EncodeMutation(e)
Decode(type, cells) ==
  CASE type = "delivered" -> DecodeDelivered(cells)
    [] type = "appended" -> DecodeAppended(cells)
    [] type = "copied" -> DecodeCopied(cells)
    [] type = "audit" -> DecodeAudit(cells)
    [] type = "flags" -> DecodeFlags(cells)
    [] type = "view" -> DecodeView(cells)
    [] type = "facts" -> DecodeFacts(cells)
    [] type = "expunged" -> DecodeExpunged(cells)
    [] type = "mutation" -> DecodeMutation(cells)

NoRecord == [stage |-> "none"]
NoExchange == [stage |-> "none"]
Init == record = NoRecord /\ exchange = NoExchange

-----------------------------------------------------------------------------
(* The journal.                                                            *)

WriteRecord ==
  /\ record.stage = "none" /\ exchange.stage = "none"
  /\ \E e \in Events : \E cells \in {Encode(e.type, e.value)} :
       record' = [stage |-> IF cells = None THEN "refused" ELSE "written", type |-> e.type,
                  value |-> e.value, cells |-> cells]
  /\ UNCHANGED exchange

Foreign(cells) ==
  {SubSeq(cells, 1, n) : n \in 0 .. Len(cells) - 1}
  \cup {Append(cells, c) : c \in Cells}
  \cup {[cells EXCEPT ![n] = c] : n \in DOMAIN cells, c \in Cells}

WriteForeign ==
  /\ record.stage = "written"
  /\ \E cells \in Foreign(record.cells) \ {record.cells} :
       record' = [record EXCEPT !.stage = "foreign", !.cells = cells]
  /\ UNCHANGED exchange

(* The facts of a message are recorded unless one of them cannot be: then  *)
(* it stays pending, and so do those after it.  A daemon whose rules are   *)
(* refused does not start.                                                 *)
ExtractFacts ==
  /\ record.stage = "none" /\ exchange.stage = "none"
  /\ \E m \in Stored : \E rules \in {RulesFrom(m.file)} :
       /\ rules # None
       /\ \E facts \in {Extract(<<1>>, m.mail, rules)} :
            LET value == [account_id |-> <<2>>, message_id |-> <<1>>, extracted_at |-> 1, facts |-> facts]
                cells == IF facts = None THEN None ELSE EncodeFacts(value)
            IN  record' = [stage |-> IF cells = None THEN "stuck" ELSE "extracted", type |-> "facts",
                           value |-> value, cells |-> cells]
  /\ UNCHANGED exchange

ReadRecord ==
  /\ record.stage \in {"written", "extracted", "foreign"}
  /\ record' = [stage |-> "read", own |-> record.stage # "foreign", type |-> record.type,
                value |-> record.value, cells |-> record.cells,
                seen |-> Decode(record.type, record.cells)]
  /\ UNCHANGED exchange

-----------------------------------------------------------------------------
(* The wire.                                                               *)

(* The encoder of requests knows every kind but the batches, which, like   *)
(* requests nothing has checked, come from another library.                *)
Send ==
  /\ record.stage = "none" /\ exchange.stage = "none"
  /\ \E r \in Requests, own \in BOOLEAN :
       /\ own => r.kind # "batch"
       /\ LET m == IF own THEN EncodeRequest(r) ELSE Written(r)
          IN  exchange' = [stage |-> IF m = None THEN "unsent" ELSE "sent", own |-> own,
                           request |-> r, message |-> m]
  /\ UNCHANGED record

(* What a request is recorded as, given what the stored message's headers  *)
(* say.  A COPY or MOVE records rows of the catalog, which earlier records *)
(* made.  The audit record behind a fact mutation or an import is left out:*)
(* its fields are the identity's, which authorization has checked.         *)
ModeNumber == [set |-> 0, clear |-> 1, replace |-> 2]
MutationNumber == [insert |-> 0, retract |-> 1]
FlagNames(b) == [system_flags |-> b.flags, user_keywords |-> b.keywords]
MutationOf(b) ==
  [type |-> "mutation", value |-> [mutation |-> MutationNumber[b.mutation], predicate_id |-> b.predicate,
                                   scope_id |-> b.scope, arguments |-> b.arguments]]
RecordsOf(r, message) ==
  LET b == r.body
  IN  CASE r.kind = "delivery" ->
             {[type |-> "delivered",
               value |-> Onto(message, [delivery_id |-> b.delivery_id, queue_id |-> b.queue_id,
                           account_identity |-> r.identity.account_identity,
                           envelope_sender |-> b.sender, recipients |-> b.recipients])]}
        [] r.kind = "flags" ->
             {[type |-> "flags",
               value |-> Onto(FlagNames(b), [account_id |-> b.account, mailbox_id |-> b.mailbox, uid |-> b.uid,
                           uidvalidity |-> b.uidvalidity, mode |-> ModeNumber[b.mode]])]}
        [] r.kind = "expunge" ->
             {[type |-> "expunged", value |-> [account_id |-> b.account, mailbox_id |-> b.mailbox,
                                               uidvalidity |-> b.uidvalidity, uids |-> b.uids]]}
        [] r.kind = "append" ->
             {[type |-> "appended",
               value |-> Onto(Onto(message, FlagNames(b)), [account_id |-> b.account, mailbox_id |-> b.mailbox,
                           uidvalidity |-> b.uidvalidity, uid |-> 1])]}
        [] r.kind = "fact" -> {MutationOf(b)}
        [] r.kind = "batch" -> {MutationOf(e) : e \in ToSet(b.entries)}
        [] OTHER -> {}

Receive ==
  /\ exchange.stage = "sent"
  /\ \E d \in {DecodeRequest(exchange.message)} :
       exchange' = [stage |-> IF d = None THEN "dropped" ELSE "received", own |-> exchange.own,
                    request |-> exchange.request, decoded |-> d]
  /\ UNCHANGED record

(* A write is answered by its receipt, what streams by a chunk.            *)
AnswerKind(kind) ==
  CASE kind \in Writes -> "success"
    [] kind \in Streams -> "chunk"
    [] kind = "list" -> "list"
    [] kind \in {"select", "status"} -> "select"

Framed(kind, payload) ==
  [kind |-> kind, request_id |-> exchange.decoded.identity.request_id,
   correlation_id |-> exchange.decoded.identity.correlation_id, payload |-> payload]

(* The service fails or answers; an answer that makes no frame, and every  *)
(* failure, is answered by an error.                                       *)
Execute ==
  /\ exchange.stage = "received"
  /\ \E o \in Outcomes, e \in Outcomes :
       /\ o.kind \in {AnswerKind(exchange.decoded.kind), "error"} /\ e.kind = "error"
       /\ LET f == IF o.kind = "error" THEN None ELSE Answer(Framed(o.kind, o.payload))
          IN  exchange' = [stage |-> "executed", own |-> exchange.own, request |-> exchange.request,
                           decoded |-> exchange.decoded, failed |-> o.kind = "error",
                           answer |-> IF f # None THEN f ELSE Answer(Framed("error", e.payload))]
  /\ UNCHANGED record

Understand ==
  /\ exchange.stage = "executed"
  /\ \E m \in {EncodeAnswer(exchange.answer)} :
       exchange' = Onto([stage |-> "answered", seen |-> IF m = None THEN None ELSE DecodeAnswer(m)],
                        exchange)
  /\ UNCHANGED record

Next ==
  \/ WriteRecord \/ ExtractFacts \/ WriteForeign \/ ReadRecord
  \/ Send \/ Receive \/ Execute \/ Understand
Spec == Init /\ [][Next]_vars

-----------------------------------------------------------------------------
(* Properties of the journal.                                              *)

(* What a layout has no room for is not recorded: of a delivery without    *)
(* an id the rest of its identity, without spans where they would be, and  *)
(* of a mutation's audit what only queries have.                           *)
Unidentified(e) == [e EXCEPT !.delivery_id = None, !.queue_id = None, !.account_identity = None,
                             !.envelope_sender = None, !.recipients = << >>]
Recorded(type, e) ==
  CASE type = "delivered" ->
         LET f == IF e.delivery_id = None THEN Unidentified(e) ELSE e
         IN  IF HasSpans(e) THEN f
             ELSE [f EXCEPT !.message_id_span_start = 0, !.message_id_span_end = 0,
                            !.subject_span_start = 0, !.subject_span_end = 0]
    [] type = "audit" -> IF IsQuery(e) THEN e ELSE Onto(NoQuery, e)
    [] OTHER -> e

(* What the encoder accepts, every reader understands, and as what it was: *)
(* an account whose record no replay can decode stays held for ever.       *)
WrittenIsReadable ==
  record.stage = "read" /\ record.own => record.seen = Recorded(record.type, record.value)

(* What is left of a payload cut short is refused, but for one place where *)
(* it reads as whole: a delivery with spans, cut before its identity, is   *)
(* a delivery without one, which a retry would not find.                   *)
CutIsRefusedUnlessIdentityLost ==
  record.stage = "read" /\ IsStrictPrefix(record.cells, Encode(record.type, record.value)) =>
    \/ record.seen = None
    \/ /\ record.type = "delivered" /\ HasSpans(record.value)
       /\ record.seen = Unidentified(record.value)

(* Facts are extracted from every stored message, as long as no encoded     *)
(* word in it is silent: one whose facts could not be recorded would keep  *)
(* those of all later ones waiting.                                        *)
ExtractedUnlessSilent == Spoken # << >> => record.stage # "stuck"

(* A fact is compared with others by its texts.  An address has one        *)
(* spelling: in angle brackets it is found again as itself, alone; the     *)
(* sender's domain is that of the first address of From; and every text is *)
(* valid UTF-8, but the id of a list, which nobody makes valid.            *)
CanonicalUnlessListId ==
  record.stage = "extracted" =>
    LET found(predicate) == {f \in ToSet(record.value.facts) : f.predicate = Token(predicate)}
        senders == {f \in found("participant") : f.source = Token("from")}
    IN  /\ \A f \in found("participant") \cup found("delivered_to") :
             AddressList(<<Less>> \o f.args[2] \o <<More>>) = <<[address |-> f.args[2], name |-> None]>>
        /\ (found("sender_domain") = {}) = (senders = {})
        /\ \A d \in found("sender_domain") : \E f \in senders : IsSuffix(<<At>> \o d.args[2], f.args[2])
        /\ \A f \in ToSet(record.value.facts) \ found("list_id") : \A a \in ToSet(f.args) : Stray \notin ToSet(a)

(* Of every stored message there are facts, and others can name them.      *)
FactsAreCanonicalUnlessListId == ExtractedUnlessSilent /\ CanonicalUnlessListId

-----------------------------------------------------------------------------
(* Properties of the wire.                                                 *)

(* What the client library encodes the daemon understands as it was meant, *)
(* but for a LIST that names no account in its identity, which the daemon  *)
(* drops, and the filters of an event stream, which are not sent.          *)
RequestsUnderstoodUnlessAnonymous ==
  exchange.stage \in {"dropped", "received"} /\ exchange.own =>
    LET asked == exchange.request  got == exchange.decoded
    IN  IF exchange.stage = "dropped"
        THEN asked.kind = "list" /\ ~Required(asked.identity.account_identity)
        ELSE /\ Blanked(got.identity) = Blanked(asked.identity)
             /\ \/ Blanked(got.body) = Blanked(asked.body)
                \/ /\ asked.kind = "events"
                   /\ Blanked(got.body) = Blanked([asked.body EXCEPT !.filter = None])

(* What the client sees is what the daemon answered, under the id of its   *)
(* request; and what was executed is not answered as if it had failed, but *)
(* for a stream whose request has a control character in its identifiers.  *)
AnswersUnderstoodUnlessOdd ==
  exchange.stage = "answered" =>
    /\ exchange.seen = exchange.answer
    /\ exchange.seen.request_id = exchange.request.identity.request_id
    /\ exchange.seen.kind = "error" =>
         \/ exchange.failed
         \/ /\ exchange.request.kind \in Streams
            /\ \E f \in {"request_id", "correlation_id"} : ~NoControl(exchange.request.identity[f])

(* What the daemon takes in can be recorded, and the replay reads it: a    *)
(* request is checked before UIDs are reserved and objects stored for it,  *)
(* and by other rules than its record.                                     *)
AcceptedIsRecordable ==
  exchange.stage = "received" =>
    \A m \in Messages : \A r \in RecordsOf(exchange.decoded, m) :
      LET cells == Encode(r.type, r.value)
      IN  cells # None /\ Decode(r.type, cells) = Recorded(r.type, r.value)
=============================================================================
