--------------------------- MODULE FactExtraction ---------------------------
(***************************************************************************)
(* What a stored message is found to say: the headers read from it, the    *)
(* addresses in them, the rules an administrator adds, and the facts that  *)
(* come of it.  A header is a sequence of the characters below; an encoded *)
(* word is one of them, since what is between its marks counts nowhere but *)
(* in the text it is decoded to.                                           *)
(*   wyrebox/facts/wyrebox-deterministic-fact-extractor.c,                 *)
(*   facts/wyrebox-fact-extraction-rules.c, ingestion/wyrebox-eml-metadata.c *)
(***************************************************************************)
EXTENDS JournalPayloads

CONSTANTS
  Spoken         \* what an encoded word says: None, nobody can decode it;
                 \* << >>, a silent word, such as a lone shift of ISO-2022-JP

(* Of the letters, 2 is the capital of 1.  Other is a character that is no *)
(* ASCII, Stray a byte that is no UTF-8.                                   *)
Quote == 5      At == 6        Comma == 7     Space == 8
Open == 10      Close == 11    Less == 12     More == 13
LeftSquare == 14               RightSquare == 15
Colon == 16     Semicolon == 17               Dot == 18    Hyphen == 19
Encoded == 20   Stray == 21    Other == 22

Lowered(s) == [i \in DOMAIN s |-> IF s[i] = 2 THEN 1 ELSE s[i]]
MakeValid(s) == IF s = None THEN None ELSE [i \in DOMAIN s |-> IF s[i] = Stray THEN Other ELSE s[i]]
Trimmed(s) ==
  LET inner == {i \in DOMAIN s : s[i] # Space}
  IN  IF inner = {} THEN << >> ELSE SubSeq(s, Min(inner), Max(inner))

(* Headers come in lines, and of those with one name the first counts.     *)
Header(mail, name) ==
  LET named == {i \in DOMAIN mail : mail[i].name = name}
  IN  IF named = {} THEN None ELSE mail[Min(named)].value

(* The words of a header decoded, without the blanks between two of them;  *)
(* or, if one cannot be, the header as it is.                              *)
Decoded(s) ==
  IF s = None \/ Spoken = None THEN s
  ELSE LET between(i) ==
             /\ s[i] = Space
             /\ \E a \in 1 .. i - 1, b \in i + 1 .. Len(s) :
                  /\ s[a] = Encoded /\ s[b] = Encoded
                  /\ \A k \in a + 1 .. b - 1 : s[k] = Space
           said(i) == IF s[i] = Encoded THEN Spoken ELSE IF between(i) THEN << >> ELSE <<s[i]>>
       IN  Each(said, [i \in DOMAIN s |-> i])

-----------------------------------------------------------------------------
(* Quotes and comments.                                                    *)

Outside == [quoting |-> "plain", depth |-> 0]
Lex(l, c) ==
  CASE c = Encoded -> l
    [] l.quoting = "escaped" -> [l EXCEPT !.quoting = IF l.depth > 0 THEN "plain" ELSE "quoted"]
    [] c = Backslash /\ (l.depth > 0 \/ l.quoting = "quoted") -> [l EXCEPT !.quoting = "escaped"]
    [] c = Open /\ l.quoting = "plain" -> [l EXCEPT !.depth = @ + 1]
    [] c = Close /\ l.depth > 0 -> [l EXCEPT !.depth = @ - 1]
    [] c = Quote /\ l.depth = 0 -> [l EXCEPT !.quoting = IF @ = "plain" THEN "quoted" ELSE "plain"]
    [] OTHER -> l
Lexed(s) == FoldLeft(Lex, Outside, s)
Bare(s, i) == Lexed(SubSeq(s, 1, i - 1)) = Outside

(* Within an address nobody looks for encoded words.                       *)
LexAddress(l, c) == Lex(l, IF c = Encoded THEN Dot ELSE c)
Quoting(s) == FoldLeft(LexAddress, Outside, s).quoting

(* A comment leaves a blank; one that does not end spoils the text.        *)
WithoutComments(s) ==
  LET step(st, c) ==
        LET l == Lex(st.lex, c)
        IN  [lex |-> l,
             out |-> IF st.lex.depth > 0 THEN st.out
                     ELSE Append(st.out, IF l.depth > 0 THEN Space ELSE c)]
      end == FoldLeft(step, [lex |-> Outside, out |-> << >>], s)
  IN  IF end.lex.depth = 0 /\ end.lex.quoting # "escaped" THEN end.out ELSE None

-----------------------------------------------------------------------------
(* One address.                                                            *)

Atext == Letters \cup {Hyphen, Encoded, Other}

(* Where the only @ is that no quotes and no domain literal hide.          *)
AddressSeparator(s) ==
  LET step(st, i) ==
        LET c == s[i]  bare == st.lex.quoting = "plain"  next == [st EXCEPT !.lex = LexAddress(@, c)]
        IN  CASE bare /\ c = At /\ ~st.literal -> [next EXCEPT !.at = i, !.bad = @ \/ st.at # 0]
              [] bare /\ c = LeftSquare /\ st.at # 0 -> [next EXCEPT !.literal = TRUE, !.bad = @ \/ st.literal]
              [] bare /\ c = RightSquare /\ st.at # 0 -> [next EXCEPT !.literal = FALSE, !.bad = @ \/ ~st.literal]
              [] bare /\ c = Space -> [next EXCEPT !.bad = TRUE]
              [] OTHER -> next
      end == FoldLeft(step, [lex |-> Outside, at |-> 0, literal |-> FALSE, bad |-> FALSE],
                      [i \in DOMAIN s |-> i])
  IN  IF end.bad \/ end.literal \/ end.lex.quoting # "plain" THEN 0 ELSE end.at

LocalPartIsValid(l) ==
  /\ l # << >> /\ Stray \notin ToSet(l)
  /\ IF l[1] = Quote
     THEN /\ Len(l) >= 2 /\ l[Len(l)] = Quote
          /\ \A i \in 2 .. Len(l) - 1 :
               Quoting(SubSeq(l, 1, i - 1)) = "escaped" \/ l[i] \notin {Quote, Control}
          /\ Quoting(SubSeq(l, 1, Len(l) - 1)) # "escaped"
     ELSE /\ ToSet(l) \subseteq Atext \cup {Dot}
          /\ \A i \in DOMAIN l : l[i] = Dot => i \notin {1, Len(l)} /\ l[i - 1] # Dot

(* The conversion to ASCII takes no character there is none for.           *)
HostnameToAscii(d) == Other \notin ToSet(d)

DomainIsValid(d) ==
  /\ d # << >>
  /\ IF d[1] = LeftSquare
     THEN /\ Len(d) >= 3 /\ d[Len(d)] = RightSquare
          /\ \A i \in 2 .. Len(d) - 1 : d[i] \notin {Control, Space, LeftSquare, RightSquare}
     ELSE /\ ToSet(d) \subseteq Letters \cup {Hyphen, Other, Dot}
          /\ \A i \in DOMAIN d :
               /\ d[i] \in {Dot, Hyphen} => i \notin {1, Len(d)}
               /\ d[i] = Dot => {d[i - 1], d[i + 1]} \cap {Dot, Hyphen} = {}
          /\ HostnameToAscii(d)

NormalizeAddress(value) ==
  LET s == Trimmed(value)
      at == AddressSeparator(s)
      domain == Lowered(SubSeq(s, at + 1, Len(s)))
  IN  IF /\ at # 0 /\ Stray \notin ToSet(domain)
         /\ LocalPartIsValid(SubSeq(s, 1, at - 1)) /\ DomainIsValid(domain)
      THEN SubSeq(s, 1, at) \o domain ELSE None

(* A name is a phrase: words apart, each an atom, quoted or encoded.       *)
PhraseIsValid(s) ==
  LET step(q, c) ==
        CASE q = "bad" -> "bad"
          [] q = "escaped" -> "quoted"
          [] q = "quoted" -> CASE c = Backslash -> "escaped" [] c = Quote -> "closed"
                               [] c = Control -> "bad" [] OTHER -> "quoted"
          [] c = Space -> "gap"
          [] q = "gap" /\ c = Quote -> "quoted"
          [] q = "gap" /\ c = Encoded -> "closed"
          [] q \in {"gap", "atom"} /\ c \in Atext \cup {Dot} -> "atom"
          [] OTHER -> "bad"
  IN  Stray \notin ToSet(s) /\ FoldLeft(step, "gap", s) \in {"gap", "atom", "closed"}

(* The quotes around a name are taken off, and of nothing no name is made. *)
Unquoted(name) ==
  LET text == IF name # << >> /\ name[1] = Quote /\ name[Len(name)] = Quote
              THEN SubSeq(name, 2, Len(name) - 1) ELSE name
  IN  IF text = << >> THEN None ELSE text

(* <address> with a name before it and nothing after, or an address only.  *)
Nothing == [text |-> << >>, name |-> None]
Angles(s, c) == {i \in DOMAIN s : s[i] = c /\ Bare(s, i)}
Bracketed(name, after, ends) ==
  IF /\ ends # {} /\ Trimmed(SubSeq(after, Min(ends) + 1, Len(after))) = << >>
     /\ name = << >> \/ PhraseIsValid(name)
  THEN [text |-> SubSeq(after, 1, Min(ends) - 1), name |-> Unquoted(name)]
  ELSE Nothing
AddressAfter(name, after) == Bracketed(name, after, Angles(after, More))
Uncommented(s, starts) ==
  IF starts = {} THEN [text |-> s, name |-> None]
  ELSE AddressAfter(Trimmed(SubSeq(s, 1, Min(starts) - 1)), SubSeq(s, Min(starts) + 1, Len(s)))
DisplayName(s) == IF s = None THEN Nothing ELSE Uncommented(s, Angles(s, Less))

Addressed(address, name) ==
  IF address = None THEN << >> ELSE <<[address |-> address, name |-> Decoded(name)]>>
Spelt(text, name) == Addressed(IF text = None THEN None ELSE NormalizeAddress(text), name)
ParsedAddress(d) == Spelt(WithoutComments(d.text), d.name)
Segment(text) ==
  IF Trimmed(text) = << >> THEN << >> ELSE ParsedAddress(DisplayName(WithoutComments(Trimmed(text))))

(* A list is apart by commas, in groups or not.                            *)
Segments(value) ==
  LET step(st, c) ==
        LET bare == st.lex = Outside /\ c # Encoded
            open == bare /\ st.angle = 0 /\ st.literal = 0
            next == [st EXCEPT !.lex = Lex(@, c), !.segment = Append(@, c)]
        IN  CASE bare /\ c = Less -> [next EXCEPT !.angle = @ + 1]
              [] bare /\ c = More /\ st.angle > 0 -> [next EXCEPT !.angle = @ - 1]
              [] bare /\ c = LeftSquare /\ st.angle = 0 -> [next EXCEPT !.literal = @ + 1]
              [] bare /\ c = RightSquare /\ st.angle = 0 /\ st.literal > 0 -> [next EXCEPT !.literal = @ - 1]
              [] open /\ c = Colon /\ ~st.group -> [st EXCEPT !.segment = << >>, !.group = TRUE]
              [] open /\ c \in {Comma, Semicolon} ->
                   [st EXCEPT !.ended = Append(@, st.segment), !.segment = << >>,
                              !.group = @ /\ c # Semicolon]
              [] OTHER -> next
      end == FoldLeft(step, [lex |-> Outside, angle |-> 0, literal |-> 0, group |-> FALSE,
                             segment |-> << >>, ended |-> << >>], value)
  IN  Append(end.ended, end.segment)
AddressList(value) == IF value = None THEN << >> ELSE Each(Segment, Segments(value))

-----------------------------------------------------------------------------
(* The rules of a file: its groups, each a kind, an id and keys.  A key    *)
(* without a value is as good as none, a capture group that is no number   *)
(* is None.                                                                *)

Fields == {"subject", "from", "to", "cc", "bcc"}
Candidates == {"amount_candidate", "date_candidate", "reference_candidate"}
RequiredKeys == [dictionary |-> {"field", "match", "project"}, regex |-> {"field", "predicate", "pattern"}]
AllowedKeys == [RequiredKeys EXCEPT !.regex = @ \cup {"capture_group"}]

GroupIsRule(g) ==
  /\ g.kind \in DOMAIN RequiredKeys /\ IsToken(g.id)
  /\ DOMAIN g.keys \subseteq AllowedKeys[g.kind]
  /\ RequiredKeys[g.kind] \subseteq DOMAIN g.keys
  /\ "capture_group" \in DOMAIN g.keys => g.keys["capture_group"] # None

(* A pattern compiles, as [groups, finds, empty], or is no pattern.        *)
CaptureGroup(g) == IF "capture_group" \in DOMAIN g.keys THEN g.keys["capture_group"] ELSE 0
RuleIsValid(g) ==
  /\ g.keys["field"] \in Fields
  /\ g.kind = "regex" => /\ g.keys["predicate"] \in Candidates
                         /\ g.keys["pattern"] # None /\ CaptureGroup(g) <= g.keys["pattern"].groups
RulesFrom(file) ==
  IF \A g \in ToSet(file) : GroupIsRule(g) /\ RuleIsValid(g) THEN file ELSE None

-----------------------------------------------------------------------------
(* The facts.                                                              *)

(* Predicates, and the sources that headers are, as tokens.                *)
Token(name) ==
  CASE name \in {"message_id", "message-id"} -> <<1>>
    [] name \in {"sender_domain", "from"} -> <<2>>
    [] name \in {"participant", "to"} -> <<1, 1>>
    [] name \in {"participant_display_name", "cc"} -> <<1, 2>>
    [] name \in {"sent_at", "bcc"} -> <<2, 1>>
    [] name \in {"replies_to", "in-reply-to"} -> <<2, 2>>
    [] name \in {"references", "date"} -> <<1, 1, 1>>
    [] name \in {"list_id", "list-id"} -> <<1, 1, 2>>
    [] name \in {"delivered_to", "delivered-to"} -> <<1, 2, 1>>
    [] name \in {"project_keyword", "x-original-to"} -> <<1, 2, 2>>
    [] name \in {"amount_candidate", "subject"} -> <<2, 1, 1>>
    [] name = "date_candidate" -> <<2, 1, 2>>
    [] name = "reference_candidate" -> <<2, 2, 1>>

FactOf(id, predicate, args, source) ==
  [predicate |-> Token(predicate), source |-> source, confidence |-> Exact, args |-> <<id>> \o args]

Participants(id, header, addresses) ==
  Each(LAMBDA a : <<FactOf(id, "participant", <<a.address>>, Token(header))>>
                  \o (IF a.name = None THEN << >>
                      ELSE <<FactOf(id, "participant_display_name", <<a.address, a.name>>, Token(header))>>),
       addresses)
DomainOf(address) == SubSeq(address, AddressSeparator(address) + 1, Len(address))

(* What stands between < and >: the first alone, without or all with them. *)
ListId(s) ==
  LET starts == IF s = None THEN {} ELSE {i \in DOMAIN s : s[i] = Less}
      ends == {i \in DOMAIN s : s[i] = More /\ i > Min(starts)}
  IN  IF starts = {} THEN << >>
      ELSE IF ends = {} THEN << >>
      ELSE SubSeq(s, Min(starts) + 1, Min(ends) - 1)
MessageIdTokens(s) ==
  LET step(st, i) ==
        CASE s[i] = Less /\ st.start = 0 -> [st EXCEPT !.start = i]
          [] s[i] = More /\ st.start # 0 ->
               [start |-> 0, found |-> IF i = st.start + 1 THEN st.found ELSE Append(st.found, SubSeq(s, st.start, i))]
          [] OTHER -> st
  IN  IF s = None THEN << >>
      ELSE FoldLeft(step, [start |-> 0, found |-> << >>], [i \in DOMAIN s |-> i]).found

(* A dictionary rule asks whether a header has its text, in whatever case; *)
(* a pattern is tried on all of it, and what it finds empty is no fact.    *)
Mentions(s, text) ==
  s # None /\ \E i \in 0 .. Len(s) - Len(text) : Lowered(SubSeq(s, i + 1, i + Len(text))) = Lowered(text)
Matches(pattern, group, s) ==
  Each(LAMBDA c : IF c # pattern.finds \/ (group # 0 /\ pattern.empty) THEN << >> ELSE <<<<c>>>>,
       IF s = None THEN << >> ELSE s)
RuleFacts(id, g, s) ==
  LET source == Token(g.keys["field"]) \o g.id
  IN  IF g.kind = "dictionary"
      THEN IF Mentions(s, g.keys["match"]) THEN <<FactOf(id, "project_keyword", <<g.keys["project"]>>, source)>>
           ELSE << >>
      ELSE Each(LAMBDA v : <<FactOf(id, g.keys["predicate"], <<v>>, source)>>,
                Matches(g.keys["pattern"], CaptureGroup(g), s))

(* Not every header is made valid before it is used.                       *)
MadeValid == Fields \cup {"message-id", "date", "in-reply-to", "references"}
ValueAsIs(mail, name) == Header(mail, name)  \* variant: none is made valid
Value(mail, name) ==
  IF name \in MadeValid THEN MakeValid(Header(mail, name)) ELSE Header(mail, name)

AddressHeaders == {"from", "to", "cc", "bcc", "delivered-to", "x-original-to"}
AddressesIn(mail) == [name \in AddressHeaders |-> AddressList(Value(mail, name))]

FactsFound(id, mail, rules, addresses) ==
  LET h(name) == Value(mail, name)
      whole(predicate, name) == IF Required(h(name)) THEN <<FactOf(id, predicate, <<h(name)>>, Token(name))>> ELSE << >>
      tokens(predicate, name) == Each(LAMBDA t : <<FactOf(id, predicate, <<t>>, Token(name))>>, MessageIdTokens(h(name)))
      participants(name) == Participants(id, name, addresses[name])
      senders == addresses["from"]
      to == IF h("delivered-to") # None THEN "delivered-to" ELSE "x-original-to"
  IN  whole("message_id", "message-id")
      \o (IF senders = << >> THEN << >>
          ELSE <<FactOf(id, "sender_domain", <<DomainOf(senders[1].address)>>, Token("from"))>>)
      \o participants("from") \o participants("to") \o participants("cc") \o participants("bcc")
      \o whole("sent_at", "date")
      \o tokens("replies_to", "in-reply-to") \o tokens("references", "references")
      \o (IF ListId(h("list-id")) = << >> THEN << >>
          ELSE <<FactOf(id, "list_id", <<ListId(h("list-id"))>>, Token("list-id"))>>)
      \o Each(LAMBDA a : <<FactOf(id, "delivered_to", <<a.address>>, Token(to))>>, addresses[to])
      \o Each(LAMBDA g : RuleFacts(id, g, Decoded(h(g.keys["field"]))),
              SelectSeq(rules, LAMBDA g : g.kind = "dictionary")
              \o SelectSeq(rules, LAMBDA g : g.kind = "regex"))
AllRecords(facts) == IF \A f \in ToSet(facts) : FactRecord(f, 1) THEN facts ELSE None
Extract(id, mail, rules) == AllRecords(FactsFound(id, mail, rules, AddressesIn(mail)))
=============================================================================
