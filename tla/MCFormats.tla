------------------------------ MODULE MCFormats ------------------------------
(* A plain value and a full one of every kind, and each with one field     *)
(* changed to every value of a pool.                                       *)
EXTENDS Formats

A == <<1>>
B == <<2>>
Odd == <<3>>    \* a string with a control character
Flag == <<4>>
Flags == {Flag}

TruthFields == {"message_id_span_valid", "subject_span_valid", "is_visible"}
ListFields == {"recipients", "system_flags", "user_keywords", "arguments", "args", "flags", "keywords"}
NumberFields ==
  {"size_bytes", "internal_date", "duplicates", "message_id_span_start", "message_id_span_end",
   "subject_span_start", "subject_span_end", "uidvalidity", "uid", "source_uidvalidity",
   "dest_uidvalidity", "src_uid", "dst_uid", "operation", "outcome", "mutation_count",
   "final_offset", "final_sequence", "error_code", "mode", "materialized_at", "confidence",
   "extracted_at", "offset", "sequence", "mutation"}
Pool(field, v) ==
  CASE field \in TruthFields -> BOOLEAN
    [] field \in ListFields -> {v, << >>, <<A>>, <<A, B>>, <<A, A>>, <<Odd>>, <<Flag>>, << << >> >>}
    [] field \in NumberFields -> {0, 1, 2, 4}
    [] field = "bytes" -> {v, << >>, <<1, 2, 1>>}
    [] OTHER -> {v, None, << >>, A, B, Odd}
Around(b) == {b} \cup UNION {{[b EXCEPT ![f] = v] : v \in Pool(f, b[f])} : f \in DOMAIN b}
Typed(type, values) == {[type |-> type, value |-> v] : v \in values}

Plain ==
  [size_bytes |-> 2, internal_date |-> 1, duplicates |-> 0, object_key |-> A, message_id |-> None,
   subject |-> None, from |-> None, to |-> None, cc |-> None, bcc |-> None, date |-> None,
   message_id_span_valid |-> FALSE, message_id_span_start |-> 0, message_id_span_end |-> 0,
   subject_span_valid |-> FALSE, subject_span_start |-> 0, subject_span_end |-> 0]
Full ==
  [size_bytes |-> 2, internal_date |-> 1, duplicates |-> 4, object_key |-> B, message_id |-> A,
   subject |-> B, from |-> A, to |-> << >>, cc |-> A, bcc |-> B, date |-> B,
   message_id_span_valid |-> TRUE, message_id_span_start |-> 1, message_id_span_end |-> 2,
   subject_span_valid |-> TRUE, subject_span_start |-> 4, subject_span_end |-> 4]
AllMessages == {Plain, Full}
Anonymous ==
  [delivery_id |-> None, queue_id |-> None, account_identity |-> None, envelope_sender |-> None]
Named ==
  [delivery_id |-> A, queue_id |-> << >>, account_identity |-> B, envelope_sender |-> None]
Delivered ==
  UNION {Around(m @@ i @@ [recipients |-> r]) :
           m \in {Plain, Full}, i \in {Anonymous, Named}, r \in {<< >>, <<A, B>>}}

Appended ==
  LET place == [account_id |-> A, mailbox_id |-> B, uidvalidity |-> 1, uid |-> 2]
      names == {[system_flags |-> << >>, user_keywords |-> << >>],
                [system_flags |-> <<Flag>>, user_keywords |-> <<A, B>>]}
  IN  UNION {Around(place @@ m @@ n) : m \in {Plain, Full}, n \in names}

Copied ==
  LET one == [src_uid |-> 2, dst_uid |-> 1, internal_date |-> 1, message_id |-> A,
              system_flags |-> << >>, user_keywords |-> << >>]
      two == [src_uid |-> 1, dst_uid |-> 2, internal_date |-> 0, message_id |-> B,
              system_flags |-> <<Flag>>, user_keywords |-> <<A>>]
      head == [account_id |-> A, source_mailbox_id |-> A, dest_mailbox_id |-> B,
               source_uidvalidity |-> 1, dest_uidvalidity |-> 2]
      items == {<< >>, <<one, two>>} \cup {<<i>> : i \in Around(one) \cup Around(two)}
                 \cup {<<one, [two EXCEPT !.dst_uid = 1]>>}
  IN  {head @@ [items |-> s] : s \in items} \cup {h @@ [items |-> <<one>>] : h \in Around(head)}

Audits ==
  LET base == [outcome |-> 0, mutation_count |-> 1, final_offset |-> 0, final_sequence |-> 2,
               error_code |-> 0, request_id |-> A, correlation_id |-> None,
               caller_identity |-> B, account_identity |-> A, tool_identity |-> None,
               scope_id |-> B, predicate_id |-> A]
      query == [query_id |-> A, template_id |-> B, error_domain |-> A, error_class |-> A,
                error_message |-> B]
  IN  UNION {Around(base @@ q @@ [operation |-> o]) :
               o \in 0 .. 4, q \in {query, [f \in DOMAIN query |-> None]}}
      \cup Around([base EXCEPT !.outcome = 1] @@ query @@ [operation |-> 2])

FlagChanges ==
  LET base == [account_id |-> A, mailbox_id |-> B, uid |-> 1, uidvalidity |-> 2]
  IN  UNION {Around(base @@ [mode |-> m, system_flags |-> f, user_keywords |-> k]) :
               m \in 0 .. 2, f \in {<< >>, <<Flag>>}, k \in {<< >>, <<A, B>>}}

Views == Around([account_id |-> A, view_id |-> B, message_id |-> A, membership_id |-> B,
                 rule_version_hash |-> A, uid |-> 1, uidvalidity |-> 2, is_visible |-> TRUE,
                 materialized_at |-> 1])

(* Deterministic extraction passes fact records on, with the time.         *)
Facts ==
  LET fact == [predicate |-> A, source |-> B, confidence |-> 1, args |-> <<A, B>>]
      head == [account_id |-> B, message_id |-> A, extracted_at |-> 1]
      some == {<< >>, <<fact, [fact EXCEPT !.args = <<A>>]>>} \cup {<<f>> : f \in Around(fact)}
      all == {head @@ [facts |-> s] : s \in some} \cup {h @@ [facts |-> <<fact>>] : h \in Around(head)}
  IN  {e \in all : e.extracted_at # 0 /\ \A f \in ToSet(e.facts) : FactRecord(f, e.extracted_at)}

Expunged ==
  LET base == [account_id |-> A, mailbox_id |-> B, uidvalidity |-> 1]
  IN  {b @@ [uids |-> <<1, 2>>] : b \in Around(base)}
      \cup {base @@ [uids |-> u] : u \in {<< >>, <<0>>, <<2>>, <<2, 1>>, <<1, 1>>, <<1, 2, 4>>}}

Mutations == Around([mutation |-> 0, predicate_id |-> A, scope_id |-> B, arguments |-> <<A, B>>])

AllEvents ==
  Typed("delivered", Delivered) \cup Typed("appended", Appended) \cup Typed("copied", Copied)
  \cup Typed("audit", Audits) \cup Typed("flags", FlagChanges) \cup Typed("view", Views)
  \cup Typed("facts", Facts) \cup Typed("expunged", Expunged) \cup Typed("mutation", Mutations)

-----------------------------------------------------------------------------
Enums == [kind |-> Kinds, mode |-> Modes, mutation |-> {"insert", "retract"}]
Bodies(b) ==
  {b} \cup UNION {{[b EXCEPT ![f] = v] :
                     v \in IF f \in DOMAIN Enums THEN Enums[f] \cup {"unknown"} ELSE Pool(f, b[f])} :
                   f \in DOMAIN b}

Place == [account |-> A, mailbox |-> B, uidvalidity |-> 1]
Mailbox == [account |-> A, id |-> B, name |-> None]
QueryBody == [query |-> A, target |-> B, scope |-> A, arguments |-> <<A, B>>]
Move == [account |-> A, source |-> A, kind |-> "virtual", source_uidvalidity |-> 1, dest |-> B,
         dest_uidvalidity |-> 2]
Named2 == [flags |-> <<Flag>>, keywords |-> <<A, B>>]
Fact == [mutation |-> "insert", predicate |-> A, scope |-> B, arguments |-> <<A>>]
SomeLists == {<< >>, <<0>>, <<2>>, <<1, 2>>, <<2, 1>>, <<1, 1>>, <<1, 2, 4>>}

BodiesOf(kind) ==
  CASE kind = "list" -> Bodies([account |-> A, prefix |-> None])
    [] kind \in {"select", "status"} -> Bodies(Mailbox) \cup {[account |-> A, id |-> << >>, name |-> B]}
    [] kind = "fetch" -> Bodies(Place @@ [kind |-> "ordinary", uid |-> 1])
    [] kind = "search" ->
         LET texts == [kind : {"subject", "from", "domain", "unknown"}, text : {<< >>, A, Odd, <<1, 2, 1>>}]
             dates == [kind : {"since", "before"}, text : {None, A}]
             base == Place @@ [kind |-> "virtual"]
         IN  {b @@ [criteria |-> << >>] : b \in Bodies(base)}
             \cup {base @@ [criteria |-> <<c>>] : c \in texts \cup dates}
             \cup {base @@ [criteria |-> [n \in 1 .. m |-> [kind |-> "from", text |-> A]]] : m \in 2 .. 3}
    [] kind \in {"wirelog", "duckdb"} -> Bodies(QueryBody)
    [] kind = "delivery" ->
         Bodies([delivery_id |-> A, queue_id |-> None, sender |-> B, recipients |-> <<A, B>>, bytes |-> A])
    [] kind = "flags" -> UNION {Bodies(Place @@ Named2 @@ [uid |-> 2, mode |-> m]) : m \in Modes}
    [] kind = "expunge" -> {p @@ [uids |-> <<1, 2>>] : p \in Bodies(Place)} \cup {Place @@ [uids |-> u] : u \in SomeLists}
    [] kind \in {"copy", "move"} -> {b @@ [uids |-> <<2>>] : b \in Bodies(Move)} \cup {Move @@ [uids |-> u] : u \in SomeLists}
    [] kind = "append" -> Bodies(Place @@ Named2 @@ [bytes |-> <<1, 2>>, internal_date |-> 1])
    [] kind = "fact" -> Bodies(Fact)
    [] kind = "batch" ->
         {[entries |-> e] : e \in {<< >>, <<Fact, Fact, Fact>>, <<Fact, [Fact EXCEPT !.scope = A]>>}
                                    \cup {<<Fact, f>> : f \in Bodies(Fact)}}
    [] kind = "events" -> Bodies([account |-> A, offset |-> 1, sequence |-> 2, filter |-> None])

Caller == [request_id |-> A, caller_identity |-> B, account_identity |-> A, tool_identity |-> None,
           correlation_id |-> None]
Plainest(kind) == CHOOSE b \in BodiesOf(kind) : Checked(kind, b) # None
AllRequests ==
  UNION {{[kind |-> k, identity |-> Caller, body |-> b] : b \in BodiesOf(k)} : k \in RequestKinds}
  \cup UNION {{[kind |-> k, identity |-> i, body |-> Plainest(k)] : i \in Bodies(Caller)} :
                k \in RequestKinds}

AllOutcomes ==
  LET receipt == [durable_marker |-> A, offset |-> 0, sequence |-> 1, summary |-> B]
      chunk == [message_id |-> A, query_id |-> None, index |-> 0, bytes |-> A, end |-> FALSE]
      entry == [kind |-> "virtual", id |-> A, name |-> B, delimiter |-> A, special_use |-> None,
                selectable |-> TRUE, child_state |-> "none"]
      mailbox == [kind |-> "ordinary", id |-> A, name |-> B, uidvalidity |-> 1, uidnext |-> 1, count |-> 0]
  IN  {[kind |-> "success", payload |-> receipt]}
      \cup [kind : {"chunk"}, payload : {chunk, [chunk EXCEPT !.message_id = << >>, !.query_id = B],
                                         [chunk EXCEPT !.bytes = << >>, !.end = TRUE]}]
      \cup [kind : {"list"}, payload : {<< >>, <<entry, [entry EXCEPT !.special_use = Flag]>>}]
      \cup [kind : {"select"}, payload : {mailbox, [mailbox EXCEPT !.kind = "virtual"]}]
      \cup [kind : {"error"}, payload : {[class |-> "temporary", message |-> A, retry_hint |-> None],
                                         [class |-> "invalid", message |-> B, retry_hint |-> A]}]

-----------------------------------------------------------------------------
(* Headers one character away from an address list of every shape, and the *)
(* rules a file may hold.                                                  *)
Shapes ==
  {<<1, At, 1, Dot, 2>>,
   <<2, Space, Less, 1, At, 2, More>>,
   <<Quote, 2, Comma, Backslash, Quote, Quote, Space, Less, 1, At, 2, More, Comma, 2, At, 1>>,
   <<Open, Open, 1, Close, Close, 1, At, 2, Space, Open, Quote, Close>>,
   <<1, Colon, 1, At, 2, Comma, Quote, 1, At, 2, Quote, At, 1, Semicolon, 2, At, 2>>,
   <<Encoded, Space, Encoded, Less, 1, Dot, 1, At, LeftSquare, 1, Colon, 2, RightSquare, More>>,
   <<Quote, Quote, Space, Less, 1, At, 2, Hyphen, 1, More>>}
Characters ==
  {1, 2, Control, Backslash, Quote, At, Comma, Space, Open, Close, Less, More, LeftSquare, RightSquare,
   Colon, Semicolon, Dot, Hyphen, Encoded, Stray}
Edits(s, characters) ==
  {s} \cup {RemoveAt(s, i) : i \in DOMAIN s}
  \cup {[s EXCEPT ![i] = c] : i \in DOMAIN s, c \in characters}
  \cup {InsertAt(s, i, c) : i \in DOMAIN s, c \in characters}

Line(name, value) == [name |-> name, value |-> value]
IdTexts == Edits(<<Less, 1, More>>, {Less, More, Stray, Space, 1})
             \cup Edits(<<Less, 1, More, Less, 2, More>>, {Less, More})
Mails ==
  {<<Line(h, v)>> : h \in {"from", "x-original-to"}, v \in UNION {Edits(s, Characters) : s \in Shapes}}
  \cup {<<Line("to", v), Line("cc", v), Line("bcc", v), Line("delivered-to", v), Line("x-original-to", A)>> :
          v \in Shapes}
  \cup {<<Line(h, v)>> : h \in {"message-id", "date", "in-reply-to", "references", "list-id"}, v \in IdTexts}
  \cup {<<Line("from", A), Line("from", v)>> : v \in Shapes}

Fine == [dictionary |-> [field |-> "subject", match |-> <<2, 1>>, project |-> A],
         regex |-> [field |-> "from", predicate |-> "date_candidate", capture_group |-> 1,
                    pattern |-> [groups |-> 1, finds |-> 1, empty |-> FALSE]]]
Keys(kind) ==
  {Fine[kind]} \cup {Without(Fine[kind], {k}) : k \in DOMAIN Fine[kind]}
  \cup {[Fine[kind] EXCEPT !.field = f] : f \in Fields \cup {"date"}}
  \cup {("unknown" :> A) @@ Fine[kind]}
  \cup (IF kind = "dictionary" THEN {}
        ELSE {[Fine[kind] EXCEPT !.predicate = p] : p \in Candidates \cup {"participant"}}
             \cup {[Fine[kind] EXCEPT !.capture_group = n] : n \in {0, 2, None}}
             \cup {[Fine[kind] EXCEPT !.pattern = x] : x \in {None} \cup [groups : {0, 1}, finds : {1, 2}, empty : BOOLEAN]})
Groups ==
  UNION {{[kind |-> k, id |-> A, keys |-> x] : x \in Keys(k)} : k \in {"dictionary", "regex"}}
  \cup {[kind |-> "other", id |-> A, keys |-> Fine.regex], [kind |-> "regex", id |-> Odd, keys |-> Fine.regex]}
Spelled(subject, from) == <<Line("subject", subject), Line("from", from)>>
AllStored ==
  [mail : Mails, file : {<< >>}]
  \cup [mail : {Spelled(s, f) : s \in {<<1, 2, 1>>, <<Encoded, Space, Encoded>>, << >>}, f \in {<<1, At, 1>>, <<2>>}},
         file : {<<g>> : g \in Groups} \cup {<<g, [kind |-> "dictionary", id |-> B, keys |-> Fine.dictionary]>> : g \in Groups}]
=============================================================================
