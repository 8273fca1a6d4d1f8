-------------------------- MODULE PostfixDelivery --------------------------
(***************************************************************************)
(* Postfix handing messages to wyreboxd: the LMTP delivery listener (one   *)
(* connection, one transaction, one request per recipient), the pipe       *)
(* helper (one request for all recipients), the daemon's delivery          *)
(* ingestion as its answers see it, and the translation of answers to      *)
(* replies and exit codes.  Postfix keeps what was neither delivered nor   *)
(* refused and tries again.                                                *)
(*   wyrebox/postfix/*, -daemon-delivery-ingestion-service.c and           *)
(*   -dispatcher.c, -daemon-error.c, -daemon-response-frame.c              *)
(* Ingestion in detail is DeliveryIngest; here it is one step per request. *)
(***************************************************************************)
EXTENDS DaemonServer, Sequences

CONSTANTS
  Entries,     \* entries of the Postfix queue, each one message
  Transports,  \* the transports Postfix is configured with: lmtp, pipe
  Recipients,  \* entry -> its recipients, in order
  StorageOf,   \* daemon -> its journal and object store
  MaxTries     \* bound: attempts per entry

Members(s) == {s[i] : i \in DOMAIN s}
Answers == {"success", "permissionDenied", "notFound", "conflict", "permanentFailure",
            "temporaryFailure", "internalError"}

ASSUME DeliveryAssumption ==
  /\ Transports \subseteq {"lmtp", "pipe"}
  /\ DOMAIN Recipients = Entries /\ DOMAIN StorageOf = Daemons
  /\ \A q \in Entries : Recipients[q] \in Seq(Members(Recipients[q]))
  /\ Nobody \notin Entries \cup Answers
  /\ MaxTries \in Nat

VARIABLES
  queue,    \* entry -> recipient -> queued, sent or bounced
  flaw,     \* entry -> what is wrong with its message, if anything
  via,      \* entry -> its transport
  tx,       \* entry -> the attempt under way
  request,  \* connection -> the delivery request sent on it
  store     \* storage -> delivery records, and what a failed append left

deliveryVars == <<queue, flaw, via, tx, request, store>>
vars == <<serverVars, deliveryVars>>

Storages == {StorageOf[d] : d \in Daemons}
Flaws == {"none", "unparsable", "oversize", "empty"}
Idle == [pc |-> "idle", mail |-> FALSE, listed |-> << >>, accepted |-> << >>,
         replies |-> << >>, conn |-> Nobody, tries |-> 0]

Init ==
  /\ ServerInit
  /\ queue = [q \in Entries |-> [r \in Members(Recipients[q]) |-> "queued"]]
  /\ flaw \in [Entries -> Flaws]
  /\ Cardinality({q \in Entries : flaw[q] # "none"}) <= 1
  /\ via \in [Entries -> Transports]
  /\ tx = [q \in Entries |-> Idle]
  /\ request = [k \in Connections |-> Nobody]
  /\ store = [s \in Storages |-> [records |-> {}, torn |-> FALSE, failed |-> FALSE,
                                  everTorn |-> FALSE]]

-----------------------------------------------------------------------------
(* The daemon's answer to a delivery                                       *)

(* A torn record behind the safe end makes every search of the journal     *)
(* that has to read past it fail with G_IO_ERROR_INVALID_DATA.             *)
AnyRecipients(a, b) == TRUE  \* variant
SameDelivery(a, b) == a.to = b.to
Recorded(s, rq) == \E rec \in store[s].records : rec.id = rq.id /\ SameDelivery(rec, rq)
Conflicts(s, rq) == \E rec \in store[s].records : rec.id = rq.id /\ ~SameDelivery(rec, rq)
Known(s, rq) == \E rec \in store[s].records : rec.id = rq.id

ErrorClass(code) ==
  CASE code = "permissionDenied" -> "permissionDenied"
    [] code = "notFound" -> "notFound"
    [] code = "exists" -> "conflict"
    [] code \in {"invalidArgument", "invalidData", "notSupported"} -> "permanentFailure"
    [] code \in {"timedOut", "busy", "wouldBlock"} -> "temporaryFailure"
    [] OTHER -> "internalError"

(* Failures that leave the store as it is, in the order they are found.    *)
Refusal(s, rq) ==
  CASE flaw[rq.id[1]] = "unparsable" -> ErrorClass("invalidData")
    [] Conflicts(s, rq) -> ErrorClass("exists")
    [] ~Known(s, rq) /\ store[s].torn -> ErrorClass("invalidData")
    [] ~Known(s, rq) /\ ~store[s].torn /\ store[s].failed -> ErrorClass("failed")
    [] OTHER -> "none"

(* The append succeeds, or fails and leaves nothing, part of the record,   *)
(* or all of it; then the writer refuses every later append.               *)
Appended(s, rq) == [store EXCEPT ![s].records = @ \cup {rq}]
AppendFailed(s, rq) ==
  {[store EXCEPT ![s].failed = TRUE],
   [store EXCEPT ![s].failed = TRUE, ![s].torn = TRUE, ![s].everTorn = TRUE],
   [store EXCEPT ![s].failed = TRUE, ![s].records = @ \cup {rq}]}

HandleDelivery(k) ==
  LET s == StorageOf[conn[k].daemon]  rq == request[k]  refusal == Refusal(s, rq) IN
  /\ conn[k].at = "handling"
  /\ \/ refusal # "none" /\ Answered(k, refusal) /\ UNCHANGED store
     \/ refusal = "none" /\ Recorded(s, rq) /\ AnsweredBehindPass(k, "success") /\ UNCHANGED store
     \/ /\ refusal = "none" /\ ~Recorded(s, rq)
        /\ \/ AnsweredBehindPass(k, "success") /\ store' = Appended(s, rq)
           \/ Answered(k, ErrorClass("noSpace")) /\ store' \in AppendFailed(s, rq)
  /\ UNCHANGED <<queue, flaw, via, tx, request>>

(* Startup truncates a torn suffix and opens a new writer. *)
StartDaemon(d) ==
  /\ \A e \in Daemons : StorageOf[e] = StorageOf[d] => daemon[e].pc = "down"
  /\ Start(d)
  /\ store' = [store EXCEPT ![StorageOf[d]].torn = FALSE, ![StorageOf[d]].failed = FALSE]
  /\ UNCHANGED <<queue, flaw, via, tx, request>>

-----------------------------------------------------------------------------
(* The LMTP dialogue, up to DATA.  "listed" is what the listener holds,    *)
(* "accepted" what the client was answered 250 for.                        *)

Try(q, t) == tx' = [tx EXCEPT ![q] = t]
Open(q) == {r \in DOMAIN queue[q] : queue[q][r] = "queued"}

(* One reply line for each recipient, whatever was written before.         *)
ToEach(t, reply) == t.replies \o [i \in DOMAIN t.listed |-> reply]

Started(q) ==
  IF via[q] # "pipe" THEN [tx[q] EXCEPT !.pc = "dialogue", !.tries = @ + 1]
  ELSE [tx[q] EXCEPT !.pc = "send", !.tries = @ + 1,
                     !.listed = Recipients[q], !.accepted = Recipients[q]]

(* The pipe helper reads the whole message first, and refuses one that is  *)
(* too large or empty by itself, for the time being.                       *)
Begin(q) ==
  /\ tx[q].pc = "idle" /\ Open(q) # {} /\ tx[q].tries < MaxTries
  /\ Try(q, IF via[q] = "pipe" /\ flaw[q] \in {"oversize", "empty"}
            THEN [Started(q) EXCEPT !.pc = "done", !.replies = ToEach(Started(q), "4xx")]
            ELSE Started(q))

Mail(q) ==
  /\ tx[q].pc = "dialogue" /\ ~tx[q].mail
  /\ Try(q, [tx[q] EXCEPT !.mail = TRUE])

(* Postfix names the recipients still open in the order of its queue.      *)
Unnamed(q) == {i \in DOMAIN Recipients[q] : Recipients[q][i] \in Open(q) \ Members(tx[q].accepted)}

Rcpt(q) ==
  /\ tx[q].pc = "dialogue" /\ tx[q].mail
  /\ \E i \in Unnamed(q) :
       LET r == Recipients[q][i] IN
       /\ \A j \in Unnamed(q) : i <= j
       /\ Try(q, [tx[q] EXCEPT !.listed = Append(@, r), !.accepted = Append(@, r)])

ResetTransaction(t) == [t EXCEPT !.mail = FALSE, !.listed = << >>]

Rset(q) ==
  /\ tx[q].pc = "dialogue" /\ tx[q].mail
  /\ Try(q, [ResetTransaction(tx[q]) EXCEPT !.accepted = << >>])

Data(q) ==
  /\ tx[q].pc = "dialogue" /\ tx[q].listed # << >>
  /\ Try(q, CASE flaw[q] = "oversize" ->
                   [tx[q] EXCEPT !.pc = "done", !.replies = ToEach(tx[q], "5xx")]
              [] flaw[q] = "empty" ->
                   [tx[q] EXCEPT !.pc = "done", !.replies = ToEach(tx[q], "4xx")]
              [] OTHER -> [tx[q] EXCEPT !.pc = "send"])

-----------------------------------------------------------------------------
(* Requests and replies                                                    *)

Request(q) ==
  IF via[q] = "pipe" THEN [id |-> <<q, 0>>, to |-> tx[q].listed]
  ELSE LET i == Len(tx[q].replies) + 1 IN [id |-> <<q, i>>, to |-> <<tx[q].listed[i]>>]

(* LMTP reply codes and pipe exit codes fall into the same three classes.  *)
ReplyForKept(answer) == IF answer = "internalError" THEN "5xx" ELSE "4xx"  \* variant
ReplyForError(answer) ==
  IF answer \in {"permanentFailure", "permissionDenied", "notFound"} THEN "5xx" ELSE "4xx"
Reply(answer) == IF answer = "success" THEN "2xx" ELSE ReplyForError(answer)

(* After its last reply the transaction is over; the pipe helper has one   *)
(* outcome for all its recipients.                                         *)
Replied(q, reply) ==
  LET replies == IF via[q] = "pipe" THEN ToEach(tx[q], reply) ELSE Append(tx[q].replies, reply) IN
  [tx[q] EXCEPT !.replies = replies, !.conn = Nobody,
                !.pc = IF Len(replies) = Len(tx[q].listed) THEN "done" ELSE "send"]

Send(q, k) ==
  /\ tx[q].pc = "send" /\ Connect(k, q)
  /\ request' = [request EXCEPT ![k] = Request(q)]
  /\ Try(q, [tx[q] EXCEPT !.pc = "wait", !.conn = k])
  /\ UNCHANGED <<queue, flaw, via, store>>

SendFails(q) ==
  /\ tx[q].pc = "send" /\ (path = 0 \/ ~LiveAt(path))
  /\ Try(q, Replied(q, Reply(Nobody)))

(* An answer, or the end of the stream without one.                        *)
Receive(q) ==
  LET k == tx[q].conn IN
  /\ tx[q].pc = "wait"
  /\ conn[k].at \notin Unsent /\ (conn[k].answer # Nobody \/ conn[k].at = "reset")
  /\ Try(q, Replied(q, Reply(conn[k].answer)))
  /\ Disconnect(k)
  /\ UNCHANGED <<path, sockets, daemon, upsets, queue, flaw, via, request, store>>

(* Postfix reads replies until the transaction ends, the helper dies or a  *)
(* timeout runs out; what it has no reply for stays in the queue.          *)
Outcome(reply) == CASE reply = "2xx" -> "sent" [] reply = "5xx" -> "bounced" [] OTHER -> "queued"

Leave(q, n) ==
  /\ tx[q].pc # "idle" /\ n <= Len(tx[q].replies)
  /\ queue' = [queue EXCEPT ![q] = [r \in DOMAIN @ |->
       IF \E i \in 1 .. n : tx[q].accepted[i] = r
       THEN Outcome(tx[q].replies[CHOOSE i \in 1 .. n : tx[q].accepted[i] = r]) ELSE @[r]]]
  /\ Try(q, [Idle EXCEPT !.tries = tx[q].tries])
  /\ conn' = [k \in Connections |-> IF conn[k].client # q THEN conn[k]
                                    ELSE [conn[k] EXCEPT !.client = Nobody]]
  /\ UNCHANGED <<path, sockets, daemon, upsets, flaw, via, request, store>>

-----------------------------------------------------------------------------
HelperStep(q) ==
  \/ (Begin(q) \/ Mail(q) \/ Rcpt(q) \/ Rset(q) \/ Data(q) \/ SendFails(q))
     /\ UNCHANGED <<serverVars, queue, flaw, via, request, store>>
  \/ \E k \in Connections : Send(q, k)
  \/ Receive(q)
  \/ \E n \in 0 .. Len(tx[q].replies) : Leave(q, n)

Next ==
  \/ \E d \in Daemons : StartDaemon(d) \/ (DaemonStep(d) /\ UNCHANGED deliveryVars)
  \/ OperatorRemoves /\ UNCHANGED deliveryVars
  \/ \E k \in Connections : HandleDelivery(k) \/ (SessionStep(k) /\ UNCHANGED deliveryVars)
  \/ \E q \in Entries : HelperStep(q)

Spec == Init /\ [][Next]_vars

-----------------------------------------------------------------------------
(* Properties                                                              *)

RecordsOf(s, q, r) == {rec \in store[s].records : rec.id[1] = q /\ r \in Members(rec.to)}

(* What Postfix was told is delivered is in a journal, for that recipient: *)
(* whichever daemon answered or died, whatever was lost and tried again    *)
(* under an identity that now stands for another recipient.                *)
SentIsRecorded ==
  \A q \in Entries : \A r \in DOMAIN queue[q] :
    queue[q][r] = "sent" => \E s \in Storages : RecordsOf(s, q, r) # {}

(* Postfix returns a message to its sender only if the message is at fault.*)
BouncedIsRefused ==
  \A q \in Entries : \A r \in DOMAIN queue[q] :
    queue[q][r] = "bounced" => flaw[q] \in {"unparsable", "oversize"}

(* The same as long as no append was torn: then the search for an earlier  *)
(* record fails as if the message were invalid, until the daemon restarts. *)
BouncedIsRefusedUnlessTorn == (\E s \in Storages : store[s].everTorn) \/ BouncedIsRefused

=============================================================================
