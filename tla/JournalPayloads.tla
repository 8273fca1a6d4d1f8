--------------------------- MODULE JournalPayloads ---------------------------
(***************************************************************************)
(* The payloads of journal records: what each writer puts behind a record's *)
(* header and what replay, perhaps years and versions later, reads there.  *)
(* A payload is a sequence of cells: a number of any width is one cell, a  *)
(* string is its length and its characters, and NullWord is the length of  *)
(* the string that is not there.  Every layout is written twice, as the    *)
(* code writes it: what encode appends, and what decode reads.             *)
(*   wyrebox/journal/wyrebox-*-payload.c,                                  *)
(*   daemon/wyrebox-daemon-fact-mutation-request.c                         *)
(***************************************************************************)
EXTENDS Texts, TLC

CONSTANTS
  NullWord,     \* G_MAXUINT32 as a length
  Exact         \* WYREBOX_FACT_CONFIDENCE_EXACT

KeyLength == 1  \* WYREBOX_SHA256_OBJECT_KEY_LEN
IsKey(s) == IsToken(s) /\ Len(s) = KeyLength

-----------------------------------------------------------------------------
(* Writing and reading.  A reading keeps the cells left and the fields got, *)
(* and stays refused once it is.                                           *)

Bit(b) == IF b THEN 1 ELSE 0
Text(s) == <<Len(s)>> \o s
Nullable(s) == IF s = None THEN <<NullWord>> ELSE Text(s)
Each(Put(_), list) == FlattenSeq([i \in DOMAIN list |-> Put(list[i])])
List(strings) == <<Len(strings)>> \o Each(Text, strings)

Without(f, names) == Restrict(f, DOMAIN f \ names)
Holding(cells, got) == [ok |-> TRUE, rest |-> cells, got |-> got]
Reading(cells) == Holding(cells, << >>)
Refused == [ok |-> FALSE, rest |-> << >>, got |-> << >>]
Take(r, field, value, n) ==
  Holding(SubSeq(r.rest, n + 1, Len(r.rest)), Onto(Single(field, value), r.got))

Word(r, field) == IF r.rest = << >> THEN Refused ELSE Take(r, field, Head(r.rest), 1)

(* A length past the end is refused, and so is a NUL among the characters. *)
String(r, field) ==
  IF r.rest = << >> \/ Head(r.rest) > Len(r.rest) - 1 THEN Refused
  ELSE LET n == Head(r.rest)  s == SubSeq(r.rest, 2, n + 1)
       IN  IF 0 \in ToSet(s) THEN Refused ELSE Take(r, field, s, n + 1)
NullableString(r, field) ==
  IF r.rest # << >> /\ Head(r.rest) = NullWord THEN Take(r, field, None, 1) ELSE String(r, field)

(* A count that the cells left cannot hold is refused before it is used.   *)
Strings(r, field, count) ==
  IF ~r.ok \/ count > Len(r.rest) THEN Refused
  ELSE LET all == FoldLeft(String, Reading(r.rest), [i \in 1 .. count |-> i])
       IN  IF all.ok THEN Holding(all.rest, Onto(Single(field, [i \in 1 .. count |-> all.got[i]]), r.got))
           ELSE Refused

Field(r, f) ==
  CASE ~r.ok -> Refused
    [] f[1] = "word" -> Word(r, f[2])
    [] f[1] = "string" -> String(r, f[2])
    [] f[1] = "nullable" -> NullableString(r, f[2])
    [] f[1] = "nonempty" -> IF r.rest # << >> /\ Head(r.rest) = 0 THEN Refused ELSE String(r, f[2])
    [] f[1] = "list" ->
         IF r.rest = << >> THEN Refused
         ELSE Strings(Holding(Tail(r.rest), r.got), f[2], Head(r.rest))
Read(r, layout) == FoldLeft(Field, r, layout)

ReadItem(s, layout) ==
  LET one == IF s.ok THEN Read(Reading(s.rest), layout) ELSE Refused
  IN  IF one.ok THEN Holding(one.rest, Append(s.got, one.got)) ELSE Refused
ReadItems(r, count, layout) ==
  LET item(s, i) == ReadItem(s, layout)
  IN  FoldLeft(item, Reading(r.rest), [i \in 1 .. count |-> i])
Items(r, field, count, layout) ==
  IF ~r.ok \/ count > Len(r.rest) THEN Refused
  ELSE LET all == ReadItems(r, count, layout)
       IN  IF all.ok THEN Holding(all.rest, Onto(Single(field, all.got), r.got)) ELSE Refused

(* Trailing cells are refused; magic and counts are no part of a value.    *)
Whole(r, magic) == r.ok /\ r.rest = << >> /\ r.got["magic"] = magic
Got(r) == Without(r.got, {"magic", "count", "n_flags", "n_keywords"})

-----------------------------------------------------------------------------
(* MessageDelivered.  The writer picks the oldest layout that can say what *)
(* there is to say, the reader knows all four.                             *)

HasSpans(e) == e.message_id_span_valid \/ e.subject_span_valid

DeliveredVersion(e) == IF HasSpans(e) THEN 4 ELSE IF e.delivery_id # None THEN 3 ELSE 2
DeliveredParts(e) ==
  <<<<DeliveredVersion(e)>>, <<e.size_bytes>>, <<e.internal_date>>, <<e.duplicates>>,
    Text(e.object_key), Nullable(e.message_id), Nullable(e.subject), Nullable(e.from),
    Nullable(e.to), Nullable(e.cc), Nullable(e.bcc), Nullable(e.date)>>
SpanParts(e) ==
  <<<<Bit(e.message_id_span_valid)>>, <<e.message_id_span_start>>, <<e.message_id_span_end>>,
    <<Bit(e.subject_span_valid)>>, <<e.subject_span_start>>, <<e.subject_span_end>>>>
IdentityParts(e) ==
  <<Nullable(e.delivery_id), Nullable(e.queue_id), Nullable(e.account_identity),
    Nullable(e.envelope_sender), List(e.recipients)>>
EncodeDelivered(e) ==
  IF ~IsKey(e.object_key) \/ e.delivery_id = << >> THEN None
  ELSE FlattenSeq(DeliveredParts(e))
       \o (IF HasSpans(e) THEN FlattenSeq(SpanParts(e)) ELSE << >>)
       \o (IF e.delivery_id # None THEN FlattenSeq(IdentityParts(e)) ELSE << >>)

FirstLayout == <<<<"word", "magic">>, <<"word", "size_bytes">>, <<"string", "object_key">>>>
SecondLayout ==
  <<<<"word", "magic">>, <<"word", "size_bytes">>, <<"word", "internal_date">>,
    <<"word", "duplicates">>, <<"string", "object_key">>, <<"nullable", "message_id">>,
    <<"nullable", "subject">>, <<"nullable", "from">>, <<"nullable", "to">>,
    <<"nullable", "cc">>, <<"nullable", "bcc">>, <<"nullable", "date">>>>
SpanLayout ==
  <<<<"word", "message_id_span_valid">>, <<"word", "message_id_span_start">>,
    <<"word", "message_id_span_end">>, <<"word", "subject_span_valid">>,
    <<"word", "subject_span_start">>, <<"word", "subject_span_end">>>>
IdentityLayout ==
  <<<<"nullable", "delivery_id">>, <<"nullable", "queue_id">>, <<"nullable", "account_identity">>,
    <<"nullable", "envelope_sender">>, <<"list", "recipients">>>>

(* What a layout has no room for reads as absent.                          *)
Absent ==
  [size_bytes |-> 0, internal_date |-> 0, duplicates |-> 0, message_id |-> None, subject |-> None,
   from |-> None, to |-> None, cc |-> None, bcc |-> None, date |-> None,
   message_id_span_valid |-> 0, message_id_span_start |-> 0, message_id_span_end |-> 0,
   subject_span_valid |-> 0, subject_span_start |-> 0, subject_span_end |-> 0,
   delivery_id |-> None, queue_id |-> None, account_identity |-> None,
   envelope_sender |-> None, recipients |-> << >>]

(* A fourth layout that ends with its spans is one without an identity.    *)
FourthAlways(r) == Read(r, IdentityLayout)  \* variant: the identity is always read
FourthRest(r) == IF r.rest = << >> THEN r ELSE Read(r, IdentityLayout)

DecodeDelivered(cells) ==
  LET start == Reading(cells)
      r == IF cells = << >> THEN Refused
           ELSE CASE cells[1] = 1 -> Read(start, FirstLayout)
                  [] cells[1] = 2 -> Read(start, SecondLayout)
                  [] cells[1] = 3 -> Read(Read(start, SecondLayout), IdentityLayout)
                  [] cells[1] = 4 -> FourthRest(Read(Read(start, SecondLayout), SpanLayout))
                  [] OTHER -> Refused
      e == Onto(Got(r), Absent)
  IN  IF /\ r.ok /\ r.rest = << >> /\ IsKey(e.object_key)
         /\ "delivery_id" \in DOMAIN r.got => e.delivery_id # None
      THEN [e EXCEPT !.message_id_span_valid = @ # 0, !.subject_span_valid = @ # 0] ELSE None

-----------------------------------------------------------------------------
(* MessageAppended                                                         *)

SpanAsWritten(valid, start, end) == IF valid THEN start <= end ELSE start = 0 /\ end = 0

ValidAppended(e) ==
  /\ Required(e.account_id) /\ Required(e.mailbox_id)
  /\ e.uidvalidity # 0 /\ e.uid # 0 /\ IsKey(e.object_key)
  /\ SpanAsWritten(e.message_id_span_valid, e.message_id_span_start, e.message_id_span_end)
  /\ SpanAsWritten(e.subject_span_valid, e.subject_span_start, e.subject_span_end)
  /\ Names(e.system_flags, e.user_keywords, IsKeyword)

SpanFlags(e) == Bit(e.message_id_span_valid) + 2 * Bit(e.subject_span_valid)
AppendedParts(e) ==
  <<<<1>>, <<e.uidvalidity>>, <<e.uid>>, <<e.size_bytes>>, <<e.internal_date>>,
    <<e.duplicates>>, <<SpanFlags(e)>>, <<e.message_id_span_start>>, <<e.message_id_span_end>>,
    <<e.subject_span_start>>, <<e.subject_span_end>>, Text(e.account_id), Text(e.mailbox_id),
    Text(e.object_key), Nullable(e.message_id), Nullable(e.subject), Nullable(e.from),
    Nullable(e.to), Nullable(e.cc), Nullable(e.bcc), Nullable(e.date), List(e.system_flags),
    List(e.user_keywords)>>
EncodeAppended(e) == IF ValidAppended(e) THEN FlattenSeq(AppendedParts(e)) ELSE None

KnownSpanFlags(word) == word <= 3

AppendedLayout ==
  <<<<"word", "magic">>, <<"word", "uidvalidity">>, <<"word", "uid">>, <<"word", "size_bytes">>,
    <<"word", "internal_date">>, <<"word", "duplicates">>, <<"word", "span_flags">>,
    <<"word", "message_id_span_start">>, <<"word", "message_id_span_end">>,
    <<"word", "subject_span_start">>, <<"word", "subject_span_end">>, <<"nullable", "account_id">>,
    <<"nullable", "mailbox_id">>, <<"nullable", "object_key">>, <<"nullable", "message_id">>,
    <<"nullable", "subject">>, <<"nullable", "from">>, <<"nullable", "to">>, <<"nullable", "cc">>,
    <<"nullable", "bcc">>, <<"nullable", "date">>, <<"list", "system_flags">>,
    <<"list", "user_keywords">>>>
DecodeAppended(cells) ==
  LET r == Read(Reading(cells), AppendedLayout)
      flags == r.got["span_flags"]
      e == Onto([message_id_span_valid |-> flags % 2 = 1,
                 subject_span_valid |-> (flags \div 2) % 2 = 1], Without(Got(r), {"span_flags"}))
  IN  IF Whole(r, 1) /\ KnownSpanFlags(flags) /\ ValidAppended(e) THEN e ELSE None

-----------------------------------------------------------------------------
(* MembershipsCopied                                                       *)

ValidCopied(e) ==
  /\ Required(e.account_id) /\ Required(e.source_mailbox_id) /\ Required(e.dest_mailbox_id)
  /\ e.source_uidvalidity # 0 /\ e.dest_uidvalidity # 0 /\ e.items # << >>
  /\ \A i \in ToSet(e.items) : /\ i.src_uid # 0 /\ i.dst_uid # 0 /\ Required(i.message_id)
                               /\ Names(i.system_flags, i.user_keywords, IsKeyword)
  /\ IsInjective([i \in DOMAIN e.items |-> e.items[i].dst_uid])

ItemParts(i) ==
  <<<<i.src_uid>>, <<i.dst_uid>>, <<i.internal_date>>, Text(i.message_id), List(i.system_flags),
    List(i.user_keywords)>>
CopiedParts(e) ==
  <<<<1>>, <<e.source_uidvalidity>>, <<e.dest_uidvalidity>>, <<Len(e.items)>>,
    Text(e.account_id), Text(e.source_mailbox_id), Text(e.dest_mailbox_id)>>
EncodeItem(i) == FlattenSeq(ItemParts(i))
EncodeCopied(e) ==
  IF ValidCopied(e) THEN FlattenSeq(CopiedParts(e)) \o Each(EncodeItem, e.items) ELSE None

CopiedLayout ==
  <<<<"word", "magic">>, <<"word", "source_uidvalidity">>, <<"word", "dest_uidvalidity">>,
    <<"word", "count">>, <<"string", "account_id">>, <<"string", "source_mailbox_id">>,
    <<"string", "dest_mailbox_id">>>>
ItemLayout ==
  <<<<"word", "src_uid">>, <<"word", "dst_uid">>, <<"word", "internal_date">>,
    <<"string", "message_id">>, <<"list", "system_flags">>, <<"list", "user_keywords">>>>
DecodeCopied(cells) ==
  LET head == Read(Reading(cells), CopiedLayout)
      r == Items(head, "items", head.got["count"], ItemLayout)
  IN  IF Whole(r, 1) /\ ValidCopied(Got(r)) THEN Got(r) ELSE None

-----------------------------------------------------------------------------
(* DaemonAuditRecorded: operations 0 .. 3 are a fact mutation, a batch of  *)
(* them, a template query and a predicate query, outcome 1 a failure.      *)

IsQuery(e) == e.operation \in {2, 3}

ValidAudit(e) ==
  /\ e.operation \in 0 .. 3 /\ e.outcome \in 0 .. 1
  /\ Required(e.request_id) /\ Required(e.caller_identity)
  /\ Required(e.account_identity) /\ Required(e.scope_id)
  /\ e.operation = 0 => Required(e.predicate_id) /\ e.mutation_count = 1
  /\ IsQuery(e) => Required(e.query_id) /\ Required(e.template_id)
  /\ IsQuery(e) /\ e.outcome = 1 =>
       Required(e.error_domain) /\ Required(e.error_class) /\ Required(e.error_message)
  /\ ~IsQuery(e) => e.mutation_count # 0 /\ e.final_sequence # 0

(* Only the audits of queries take the second layout.                      *)
AuditVersion(e) == IF IsQuery(e) THEN 2 ELSE 1
AuditHeaderParts(e) ==
  <<<<AuditVersion(e)>>, <<e.operation>>, <<e.outcome>>, <<e.mutation_count>>, <<e.final_offset>>,
    <<e.final_sequence>>>>
AuditStringParts(e) ==
  <<Nullable(e.request_id), Nullable(e.correlation_id), Nullable(e.caller_identity),
    Nullable(e.account_identity), Nullable(e.tool_identity), Nullable(e.scope_id),
    Nullable(e.predicate_id)>>
AuditQueryParts(e) ==
  <<Nullable(e.query_id), Nullable(e.template_id), Nullable(e.error_domain),
    Nullable(e.error_class), Nullable(e.error_message)>>
EncodeAudit(e) ==
  IF ~ValidAudit(e) THEN None
  ELSE FlattenSeq(IF IsQuery(e)
                  THEN AuditHeaderParts(e) \o <<<<e.error_code>>>> \o AuditStringParts(e)
                       \o AuditQueryParts(e)
                  ELSE AuditHeaderParts(e) \o AuditStringParts(e))

AuditHeader ==
  <<<<"word", "magic">>, <<"word", "operation">>, <<"word", "outcome">>,
    <<"word", "mutation_count">>, <<"word", "final_offset">>, <<"word", "final_sequence">>>>
AuditStrings ==
  <<<<"nullable", "request_id">>, <<"nullable", "correlation_id">>,
    <<"nullable", "caller_identity">>, <<"nullable", "account_identity">>,
    <<"nullable", "tool_identity">>, <<"nullable", "scope_id">>, <<"nullable", "predicate_id">>>>
AuditQuery ==
  <<<<"nullable", "query_id">>, <<"nullable", "template_id">>, <<"nullable", "error_domain">>,
    <<"nullable", "error_class">>, <<"nullable", "error_message">>>>
NoQuery == [error_code |-> 0, query_id |-> None, template_id |-> None, error_domain |-> None,
            error_class |-> None, error_message |-> None]

DecodeAudit(cells) ==
  LET second == cells # << >> /\ cells[1] = 2
      r == Read(Reading(cells),
             IF second THEN AuditHeader \o <<<<"word", "error_code">>>> \o AuditStrings \o AuditQuery
             ELSE AuditHeader \o AuditStrings)
      e == Onto(Got(r), NoQuery)
  IN  IF Whole(r, IF second THEN 2 ELSE 1) /\ ValidAudit(e) THEN e ELSE None

-----------------------------------------------------------------------------
(* FlagChanged: modes 0 .. 2 set, clear and replace.                       *)

ValidFlags(e) ==
  /\ Required(e.account_id) /\ Required(e.mailbox_id)
  /\ e.uid # 0 /\ e.uidvalidity # 0 /\ e.mode \in 0 .. 2
  /\ Names(e.system_flags, e.user_keywords, IsKeyword)
  /\ e.mode = 2 \/ e.system_flags # << >> \/ e.user_keywords # << >>

FlagsParts(e) ==
  <<<<1>>, <<e.uid>>, <<e.uidvalidity>>, <<e.mode>>, <<Len(e.system_flags)>>,
    <<Len(e.user_keywords)>>, Text(e.account_id), Text(e.mailbox_id)>>
EncodeFlags(e) ==
  IF ~ValidFlags(e) THEN None
  ELSE FlattenSeq(FlagsParts(e)) \o Each(Text, e.system_flags) \o Each(Text, e.user_keywords)

FlagsLayout ==
  <<<<"word", "magic">>, <<"word", "uid">>, <<"word", "uidvalidity">>, <<"word", "mode">>,
    <<"word", "n_flags">>, <<"word", "n_keywords">>, <<"string", "account_id">>,
    <<"string", "mailbox_id">>>>
DecodeFlags(cells) ==
  LET head == Read(Reading(cells), FlagsLayout)
      r == Strings(Strings(head, "system_flags", head.got["n_flags"]),
                   "user_keywords", head.got["n_keywords"])
  IN  IF Whole(r, 1) /\ ValidFlags(Got(r)) THEN Got(r) ELSE None

-----------------------------------------------------------------------------
(* DerivedViewMembershipChanged                                            *)

ValidView(e) ==
  /\ Required(e.account_id) /\ Required(e.view_id) /\ Required(e.message_id)
  /\ Required(e.membership_id) /\ Required(e.rule_version_hash)
  /\ e.uid # 0 /\ e.uidvalidity # 0 /\ e.materialized_at # 0

ViewParts(e) ==
  <<<<1>>, <<e.uid>>, <<e.uidvalidity>>, <<Bit(e.is_visible)>>, <<e.materialized_at>>,
    Text(e.account_id), Text(e.view_id), Text(e.message_id), Text(e.membership_id),
    Text(e.rule_version_hash)>>
EncodeView(e) == IF ValidView(e) THEN FlattenSeq(ViewParts(e)) ELSE None

ViewLayout ==
  <<<<"word", "magic">>, <<"word", "uid">>, <<"word", "uidvalidity">>, <<"word", "is_visible">>,
    <<"word", "materialized_at">>, <<"nonempty", "account_id">>, <<"nonempty", "view_id">>,
    <<"nonempty", "message_id">>, <<"nonempty", "membership_id">>,
    <<"nonempty", "rule_version_hash">>>>
DecodeView(cells) ==
  LET r == Read(Reading(cells), ViewLayout)
      e == [Got(r) EXCEPT !.is_visible = @ = 1]
  IN  IF Whole(r, 1) /\ r.got["is_visible"] <= 1 /\ ValidView(e) THEN e ELSE None

-----------------------------------------------------------------------------
(* FactsExtracted.  The writer checks the message a fact names and that no *)
(* string is empty; the reader builds fact records, which check the rest.  *)

NamesMessage(fact, message) == fact.args # << >> /\ fact.args[1] = message
FactRecord(fact, created) ==
  /\ IsPredicate(fact.predicate) /\ Required(fact.source)
  /\ \A a \in ToSet(fact.args) : a # << >>
  /\ fact.confidence <= Exact /\ created # 0

FactParts(f) == <<Text(f.predicate), Text(f.source), <<f.confidence>>, List(f.args)>>
FactsParts(e) ==
  <<<<1>>, <<e.extracted_at>>, <<Len(e.facts)>>, Text(e.account_id), Text(e.message_id)>>
EncodeFact(f) == FlattenSeq(FactParts(f))
EncodeFacts(e) ==
  IF /\ Required(e.account_id) /\ Required(e.message_id)
     /\ \A f \in ToSet(e.facts) : /\ NamesMessage(f, e.message_id) /\ Required(f.predicate)
                                  /\ Required(f.source) /\ << >> \notin ToSet(f.args)
  THEN FlattenSeq(FactsParts(e)) \o Each(EncodeFact, e.facts) ELSE None

FactLayout == <<<<"nonempty", "predicate">>, <<"nonempty", "source">>, <<"word", "confidence">>,
                <<"list", "args">>>>
FactsLayout == <<<<"word", "magic">>, <<"word", "extracted_at">>, <<"word", "count">>,
                 <<"nonempty", "account_id">>, <<"nonempty", "message_id">>>>
DecodeFacts(cells) ==
  LET head == Read(Reading(cells), FactsLayout)
      r == Items(head, "facts", head.got["count"], FactLayout)
      e == Got(r)
  IN  IF /\ Whole(r, 1)
         /\ \A f \in ToSet(e.facts) : FactRecord(f, e.extracted_at) /\ NamesMessage(f, e.message_id)
      THEN e ELSE None

-----------------------------------------------------------------------------
(* MembershipsExpunged                                                     *)

ValidExpunged(e) ==
  /\ Required(e.account_id) /\ Required(e.mailbox_id) /\ e.uidvalidity # 0 /\ e.uids # << >>
  /\ Ascending(e.uids)

ExpungedParts(e) ==
  <<<<1>>, <<e.uidvalidity>>, <<Len(e.uids)>>, Text(e.account_id), Text(e.mailbox_id)>>
EncodeExpunged(e) == IF ValidExpunged(e) THEN FlattenSeq(ExpungedParts(e)) \o e.uids ELSE None

(* One cell is one UID here, so the UIDs are what is left.                 *)
CountedNot(r) == TRUE  \* variant: however many are left
Counted(r) == Len(r.rest) = r.got["count"]
ExpungedLayout == <<<<"word", "magic">>, <<"word", "uidvalidity">>, <<"word", "count">>,
                    <<"string", "account_id">>, <<"string", "mailbox_id">>>>
DecodeExpunged(cells) ==
  LET r == Read(Reading(cells), ExpungedLayout)
      e == Onto([uids |-> r.rest], Got(r))
  IN  IF r.ok /\ r.got["magic"] = 1 /\ Counted(r) /\ ValidExpunged(e) THEN e ELSE None

-----------------------------------------------------------------------------
(* FactInserted and FactRetracted share one payload, which says again      *)
(* which of the two (0 or 1) it is.                                        *)

ValidMutation(e) ==
  /\ e.mutation \in 0 .. 1 /\ IsPredicate(e.predicate_id) /\ IsPlain(e.scope_id)
  /\ \A a \in ToSet(e.arguments) : IsPlain(a)

MutationParts(e) ==
  <<<<1>>, <<e.mutation>>, Text(e.predicate_id), Text(e.scope_id), List(e.arguments)>>
EncodeMutation(e) == IF ValidMutation(e) THEN FlattenSeq(MutationParts(e)) ELSE None

MutationLayout == <<<<"word", "magic">>, <<"word", "mutation">>, <<"string", "predicate_id">>,
                    <<"string", "scope_id">>, <<"list", "arguments">>>>
DecodeMutation(cells) ==
  LET r == Read(Reading(cells), MutationLayout)
  IN  IF Whole(r, 1) /\ ValidMutation(Got(r)) THEN Got(r) ELSE None
=============================================================================
