----------------------- MODULE PostfixDeliveryProofs -----------------------
(***************************************************************************)
(* Proofs about the connection server and what Postfix delivers through it *)
(* for any daemons, connections, queue entries and recipients.  About the  *)
(* server by itself, whoever its clients are: a daemon that serves keeps   *)
(* the file at its path, and a stop that abandons no session has none      *)
(* left.  About deliveries: what Postfix was told is delivered is in a     *)
(* journal, and what it returns to its sender was at fault.                *)
(***************************************************************************)
EXTENDS PostfixDelivery, SequenceTheorems, TLAPS

-----------------------------------------------------------------------------
(* The server: types                                                       *)

Stopping == {"quitting", "stopped", "unbound", "matched", "closed", "draining", "released"}
DaemonState == [pc : Starting \cup Stopping \cup {"down", "serving"}, seen : Nat, created : Nat,
                socket : Nat, accept : {"off", "armed", "retry"}, abandoned : BOOLEAN,
                disturbed : BOOLEAN]
ConnState == [at : Sessions \cup {"none", "queued", "reset"}, daemon : Daemons \cup {Nobody},
              client : {"client", Nobody}, sent : BOOLEAN, shut : BOOLEAN,
              answer : {"answer", Nobody}]

ServerTypeOK ==
  /\ path \in Nat /\ sockets \in Nat /\ upsets \in Nat
  /\ daemon \in [Daemons -> DaemonState]
  /\ conn \in [Connections -> ConnState]

(* Connections that the kernel closes, because their process ends or the   *)
(* listener closes, keep their type.                                       *)
LEMMA DisconnectedTyped ==
  ASSUME conn \in [Connections -> ConnState], NEW ks
  PROVE  Disconnected(ks) \in [Connections -> ConnState]
  <1>1. ASSUME NEW k \in Connections
        PROVE  [conn[k] EXCEPT !.at = "reset", !.daemon = Nobody,
                               !.answer = IF conn[k].at \in Unsent THEN Nobody ELSE @] \in ConnState
    BY DEF ConnState
  <1>2. \A k \in Connections : conn[k] \in ConnState
    OBVIOUS
  <1> QED
    BY <1>1, <1>2 DEF Disconnected

(* A daemon that exits, at a failed start, at the end of a stop or killed, *)
(* leaves well-typed daemons and connections.                              *)
LEMMA ExitsTyped ==
  ASSUME ServerTypeOK, NEW d \in Daemons, Exits(d)
  PROVE  daemon' \in [Daemons -> DaemonState] /\ conn' \in [Connections -> ConnState]
  <1>1. Down \in DaemonState
    BY DEF Down, DaemonState
  <1> QED
    BY <1>1, DisconnectedTyped DEF Exits, ServerTypeOK

(* A daemon that only moves on keeps its type.                             *)
LEMMA GotoTyped ==
  ASSUME ServerTypeOK, NEW d \in Daemons, NEW pc \in Starting \cup Stopping \cup {"down", "serving"},
         Goto(d, pc)
  PROVE  daemon' \in [Daemons -> DaemonState]
  BY DEF Goto, ServerTypeOK, DaemonState

(* Daemons and connections are well typed in every reachable state, for any*)
(* number of both.                                                         *)
LEMMA ServerTyped == ServerSpec => []ServerTypeOK
  <1>1. ServerInit => ServerTypeOK
    BY DEF ServerInit, ServerTypeOK, DaemonState, ConnState, Down, Unused
  <1>2. ASSUME ServerTypeOK, [ServerNext]_serverVars
        PROVE  ServerTypeOK'
    <2>0. ServerTypeOK
      BY <1>2
    <2> USE <2>0 DEF ServerTypeOK
    <2>1. ASSUME NEW d \in Daemons, Start(d) PROVE ServerTypeOK'
      <3> DEFINE others == {e \in Daemons : daemon[e].pc \in Starting}
                 removing == {e \in Daemons : daemon[e].pc \in Removing}
                 crowded == others \cup removing # {}
      <3>1. crowded \in BOOLEAN /\ \A e \in Daemons : (daemon[e].disturbed \/ e \in others) \in BOOLEAN
        OBVIOUS
      <3>2. daemon' = [e \in Daemons |->
              IF e = d THEN [Down EXCEPT !.pc = "lstat", !.disturbed = crowded]
              ELSE [daemon[e] EXCEPT !.disturbed = @ \/ e \in others]]
        BY <2>1 DEF Start
      <3> HIDE DEF crowded, others, removing
      <3>3. [Down EXCEPT !.pc = "lstat", !.disturbed = crowded] \in DaemonState
        BY <3>1 DEF Down, DaemonState, Starting
      <3>4. \A e \in Daemons : [daemon[e] EXCEPT !.disturbed = @ \/ e \in others] \in DaemonState
        BY <3>1 DEF DaemonState
      <3>5. daemon' \in [Daemons -> DaemonState]
        BY <3>2, <3>3, <3>4
      <3> QED
        BY <2>1, <3>5 DEF Start
    <2>2. ASSUME NEW d \in Daemons, StartStep(d) PROVE ServerTypeOK'
      <3>1. CASE Lstat(d)
        BY <3>1 DEF Lstat, DaemonState
      <3>2. CASE Probe(d)
        BY <3>2, ExitsTyped, GotoTyped DEF Probe, Starting
      <3>3. CASE Recheck(d)
        BY <3>3, ExitsTyped, GotoTyped DEF Recheck, Starting
      <3>4. CASE UnlinkStale(d)
        BY <3>4, GotoTyped DEF UnlinkStale, Starting
      <3>5. CASE Bind(d)
        <4>1. CASE path # 0 /\ Exits(d)
          BY <3>5, <4>1, ExitsTyped DEF Bind
        <4>2. CASE path = 0
          BY <3>5, <4>2 DEF Bind, DaemonState, Starting
        <4> QED
          BY <3>5, <4>1, <4>2 DEF Bind
      <3>6. CASE Listen(d)
        BY <3>6, GotoTyped DEF Listen, Starting
      <3>7. CASE StatCreated(d)
        <4>1. CASE path = 0 /\ Exits(d)
          BY <3>7, <4>1, ExitsTyped DEF StatCreated
        <4>2. CASE path # 0
          BY <3>7, <4>2 DEF StatCreated, DaemonState, Starting
        <4> QED
          BY <3>7, <4>1, <4>2 DEF StatCreated
      <3>8. CASE CheckCreated(d)
        <4>1. CASE Exits(d)
          BY <3>8, <4>1, ExitsTyped DEF CheckCreated
        <4>2. CASE ~Exits(d)
          BY <3>8, <4>2 DEF CheckCreated, DaemonState
        <4> QED
          BY <4>1, <4>2
      <3> QED
        BY <2>2, <3>1, <3>2, <3>3, <3>4, <3>5, <3>6, <3>7, <3>8 DEF StartStep
    <2>3. ASSUME NEW d \in Daemons, DaemonStep(d), ~StartStep(d) PROVE ServerTypeOK'
      <3>1. CASE Quit(d)
        BY <3>1, GotoTyped DEF Quit, Stopping
      <3>2. CASE CloseListener(d)
        <4>1. ASSUME NEW e \in Daemons, e # d PROVE daemon'[e] \in DaemonState
          <5> DEFINE hit == daemon[e].disturbed \/ daemon[e].pc \in Starting
          <5>1. hit \in BOOLEAN /\ daemon[e] \in DaemonState
            OBVIOUS
          <5>2. daemon'[e] = [daemon[e] EXCEPT !.disturbed = hit]
            BY <3>2, <4>1 DEF CloseListener
          <5> HIDE DEF hit
          <5> QED
            BY <5>1, <5>2 DEF DaemonState
        <4>2. daemon'[d] \in DaemonState
          <5> DEFINE closed == [daemon[d] EXCEPT !.pc = "unbound", !.accept = "off"]
          <5>1. closed \in DaemonState
            BY DEF DaemonState, Stopping
          <5>2. daemon'[d] = [closed EXCEPT !.socket = 0]
            BY <3>2 DEF CloseListener
          <5> HIDE DEF closed
          <5> QED
            BY <5>1, <5>2 DEF DaemonState
        <4>3. daemon' = [e \in Daemons |-> daemon'[e]]
          BY <3>2 DEF CloseListener
        <4>4. daemon' \in [Daemons -> DaemonState]
          BY <4>1, <4>2, <4>3
        <4> QED
          BY <3>2, <4>4, DisconnectedTyped DEF CloseListener
      <3>10. CASE StopMaterialization(d) \/ MatchCreated(d) \/ UnlinkCreated(d)
        BY <3>10, GotoTyped DEF StopMaterialization, MatchCreated, UnlinkCreated, Stopping
      <3>3. CASE CloseConnections(d)
        <4>1. daemon' \in [Daemons -> DaemonState]
          BY <3>3, GotoTyped DEF CloseConnections, Stopping
        <4>2. conn' \in [Connections -> ConnState]
          <5>1. \A k \in Connections : [conn[k] EXCEPT !.shut = TRUE] \in ConnState
            BY DEF ConnState
          <5> QED
            BY <3>3, <5>1 DEF CloseConnections
        <4> QED
          BY <3>3, <4>1, <4>2 DEF CloseConnections
      <3>4. CASE WaitIdle(d)
        BY <3>4, GotoTyped DEF WaitIdle, Stopping
      <3>5. CASE DrainDeadline(d)
        <4>1. daemon'[d] = [daemon[d] EXCEPT !.pc = "released", !.abandoned = TRUE]
          BY <3>5 DEF DrainDeadline
        <4>2. daemon'[d] \in DaemonState
          BY <4>1 DEF DaemonState, Stopping
        <4> QED
          BY <3>5, <4>2 DEF DrainDeadline
      <3>6. CASE Exit(d)
        BY <3>6, ExitsTyped DEF Exit
      <3>7. CASE AcceptFails(d) \/ RetryAccept(d)
        <4>1. daemon' \in [Daemons -> DaemonState]
          BY <3>7 DEF AcceptFails, RetryAccept, DaemonState
        <4> QED
          BY <3>7, <4>1 DEF AcceptFails, RetryAccept, Upset
      <3>8. CASE Kill(d)
        BY <3>8, ExitsTyped DEF Kill, Upset
      <3>9. CASE \E k \in Connections : Accept(d, k)
        BY <3>9, DisconnectedTyped DEF Accept, ConnState, Sessions
      <3> QED
        BY <2>3, <3>1, <3>2, <3>3, <3>4, <3>5, <3>6, <3>7, <3>8, <3>9, <3>10 DEF DaemonStep, StopStep
    <2>4. CASE OperatorRemoves
      <3>1. ASSUME NEW d \in Daemons PROVE daemon'[d] \in DaemonState
        <4>1. daemon'[d] = [daemon[d] EXCEPT !.disturbed = @ \/ daemon[d].socket = path]
          BY <2>4 DEF OperatorRemoves
        <4>2. (daemon[d].disturbed \/ daemon[d].socket = path) \in BOOLEAN
          OBVIOUS
        <4> QED
          BY <4>1, <4>2 DEF DaemonState
      <3> QED
        BY <2>4, <3>1 DEF OperatorRemoves, Upset
    <2>5. ASSUME NEW k \in Connections, SessionStep(k) \/ ClientStep(k) PROVE ServerTypeOK'
      <3>u. UNCHANGED <<path, sockets, daemon, upsets>>
        BY <2>5 DEF SessionStep, ClientStep, Connect
      <3> USE DEF ConnState, Sessions
      <3>0. conn[k] \in ConnState
        OBVIOUS
      <3>1. CASE RunSession(k)
        BY <3>u, <3>1 DEF RunSession, SessionTo
      <3>2. CASE ReadRequest(k)
        <4>1. conn'[k] = [conn[k] EXCEPT !.at = IF conn[k].sent THEN "waiting" ELSE "closing",
                                         !.sent = FALSE]
          BY <3>2 DEF ReadRequest
        <4>2. conn'[k] \in ConnState
          BY <4>1
        <4> QED
          BY <3>u, <3>2, <4>2 DEF ReadRequest
      <3>3. CASE LockRoute(k, "handling") \/ EndPass(k)
        BY <3>u, <3>3 DEF LockRoute, EndPass, SessionTo
      <3>4. CASE WriteAnswer(k)
        <4>1. conn'[k] = [conn[k] EXCEPT !.at = IF conn[k].shut \/ conn[k].client = Nobody
                                                THEN "closing" ELSE "reading",
                                         !.answer = IF conn[k].shut THEN Nobody ELSE @]
          BY <3>4 DEF WriteAnswer
        <4>2. conn'[k] \in ConnState
          <5> DEFINE at == IF conn[k].shut \/ conn[k].client = Nobody THEN "closing" ELSE "reading"
                     answer == IF conn[k].shut THEN Nobody ELSE conn[k].answer
          <5>1. at \in Sessions /\ answer \in {"answer", Nobody}
            BY <3>0
          <5>2. conn'[k] = [conn[k] EXCEPT !.at = at, !.answer = answer]
            BY <4>1
          <5> HIDE DEF at, answer
          <5> QED
            BY <3>0, <5>1, <5>2
        <4> QED
          BY <3>u, <3>4, <4>2 DEF WriteAnswer
      <3>5. CASE CloseSession(k)
        <4>1. conn'[k] = [conn[k] EXCEPT !.at = "reset", !.daemon = Nobody]
          BY <3>5 DEF CloseSession
        <4>2. conn'[k] \in ConnState
          BY <3>0, <4>1
        <4> HIDE DEF ConnState
        <4> QED
          BY <3>u, <3>5, <4>2 DEF CloseSession
      <3>6. CASE Forget(k)
        BY <3>u, <3>6 DEF Forget, Unused
      <3>7. CASE Connect(k, "client")
        <4>1. PICK d \in Daemons :
                conn' = [conn EXCEPT ![k] = [Unused EXCEPT !.at = "queued", !.daemon = d,
                                                           !.client = "client", !.sent = TRUE]]
          BY <3>7 DEF Connect
        <4>2. conn'[k] \in ConnState
          BY <4>1 DEF Unused
        <4> QED
          BY <3>u, <4>1, <4>2
      <3>8. CASE Disconnect(k)
        <4>1. conn'[k] = [conn[k] EXCEPT !.client = Nobody, !.answer = Nobody]
          BY <3>8 DEF Disconnect
        <4>2. conn'[k] \in ConnState
          BY <3>0, <4>1
        <4> HIDE DEF ConnState
        <4> QED
          BY <3>u, <3>8, <4>2 DEF Disconnect
      <3> QED
        BY <2>5, <3>1, <3>2, <3>3, <3>4, <3>5, <3>6, <3>7, <3>8 DEF SessionStep, ClientStep
    <2>6. ASSUME NEW k \in Connections, NEW a \in {"answer", Nobody}, NEW at \in Sessions,
                 conn' = [conn EXCEPT ![k].at = at, ![k].answer = a],
                 UNCHANGED <<path, sockets, daemon, upsets>>
          PROVE  ServerTypeOK'
      <3>1. conn'[k] = [conn[k] EXCEPT !.at = at, !.answer = a] /\ conn[k] \in ConnState
        BY <2>6
      <3>2. conn'[k] \in ConnState
        BY <3>1 DEF ConnState
      <3> QED
        BY <2>6, <3>2
    <2>8. ASSUME NEW k \in Connections,
                 \/ \E a \in {"answer", Nobody} : Answered(k, a)
                 \/ AnsweredBehindPass(k, "answer")
          PROVE  ServerTypeOK'
      <3>1. CASE AnsweredBehindPass(k, "answer")
        BY <2>6, <3>1 DEF AnsweredBehindPass, Sessions
      <3>2. ASSUME NEW a \in {"answer", Nobody}, Answered(k, a) PROVE ServerTypeOK'
        <4> DEFINE at == IF a = Nobody THEN "closing" ELSE "writing"
        <4>1. at \in Sessions /\ conn' = [conn EXCEPT ![k].at = at, ![k].answer = a]
          BY <3>2 DEF Answered, Sessions
        <4> HIDE DEF at
        <4> QED
          BY <2>6, <3>2, <4>1 DEF Answered
      <3> QED
        BY <2>8, <3>1, <3>2
    <2>9. ASSUME NEW k \in Connections, LockRoute(k, "materializing"),
                 UNCHANGED <<path, sockets, daemon, upsets>>
          PROVE  ServerTypeOK'
      BY <2>9 DEF LockRoute, SessionTo, ConnState, Sessions
    <2>7. CASE UNCHANGED serverVars
      BY <2>7 DEF serverVars
    <2> QED
      BY <1>2, <2>1, <2>2, <2>3, <2>4, <2>5, <2>7, <2>8, <2>9 DEF ServerNext
  <1> QED
    BY <1>1, <1>2, PTL DEF ServerSpec

-----------------------------------------------------------------------------
(* The file at the path                                                    *)

Bound == {"listen", "stat", "check", "serving", "quitting", "stopped"}
Own == {"serving", "quitting", "stopped"}

(* Sockets are never made twice, and a daemon that took another's for its  *)
(* own did so while both were starting.                                    *)
SocketsDiffer ==
  /\ path <= sockets
  /\ \A d \in Daemons : /\ daemon[d].socket <= sockets /\ daemon[d].created <= sockets
                        /\ daemon[d].pc \in Bound => daemon[d].socket # 0
                        /\ daemon[d].pc \notin Bound => daemon[d].socket = 0
  /\ \A d, e \in Daemons : d # e /\ daemon[d].socket # 0 =>
       /\ daemon[d].socket # daemon[e].socket
       /\ daemon[e].created = daemon[d].socket => daemon[d].disturbed

(* A daemon that starts while another does, or while another removes its   *)
(* file, knows it; one that starts while another serves does not get beyond*)
(* the probe; and who is about to remove a file found its own there.       *)
StartsAlone ==
  \A d, e \in Daemons : d # e /\ ~daemon[d].disturbed =>
    /\ daemon[d].pc \in Starting => daemon[e].pc \notin Starting \cup Removing
    /\ daemon[d].pc \in Own => daemon[e].pc \notin (Starting \ {"lstat", "probe"}) \cup {"matched"}

PathIsOwn ==
  \A d \in Daemons : daemon[d].pc \in Bound /\ ~daemon[d].disturbed => path = daemon[d].socket

PathInv == SocketsDiffer /\ StartsAlone /\ PathIsOwn

(* A daemon that moves on with the socket and the file it has, or gives    *)
(* them up, makes no two sockets alike.                                    *)
LEMMA SameSockets ==
  ASSUME ServerTypeOK, SocketsDiffer, NEW d \in Daemons,
         sockets' = sockets, path' = path \/ path' = 0,
         \A e \in Daemons : e # d => daemon'[e] = daemon[e],
         daemon'[d].socket = daemon[d].socket \/ daemon'[d].socket = 0,
         daemon'[d].created = daemon[d].created \/ daemon'[d].created = 0,
         daemon'[d].disturbed = daemon[d].disturbed,
         daemon'[d].pc \in Bound <=> daemon'[d].socket # 0
  PROVE  SocketsDiffer'
  <1>1. path' <= sockets'
    BY DEF SocketsDiffer, ServerTypeOK
  <1>2. ASSUME NEW e \in Daemons
        PROVE  /\ daemon'[e].socket <= sockets' /\ daemon'[e].created <= sockets'
               /\ daemon'[e].pc \in Bound => daemon'[e].socket # 0
               /\ daemon'[e].pc \notin Bound => daemon'[e].socket = 0
    <2>1. CASE e = d
      BY <2>1 DEF SocketsDiffer, ServerTypeOK
    <2>2. CASE e # d
      BY <2>2 DEF SocketsDiffer
    <2> QED
      BY <2>1, <2>2
  <1>3. ASSUME NEW e \in Daemons, NEW f \in Daemons, e # f, daemon'[e].socket # 0
        PROVE  /\ daemon'[e].socket # daemon'[f].socket
               /\ daemon'[f].created = daemon'[e].socket => daemon'[e].disturbed
    BY <1>3 DEF SocketsDiffer
  <1> QED
    BY <1>1, <1>2, <1>3 DEF SocketsDiffer

(* A daemon that exits leaves the file at the path, if it is its own, to   *)
(* nobody.                                                                 *)
LEMMA ExitKeepsPath ==
  ASSUME ServerTypeOK, PathInv, NEW d \in Daemons, Exits(d), UNCHANGED <<path, sockets>>
  PROVE  PathInv'
  <1> USE DEF PathInv, Starting, Bound, Own, Removing
  <1>1. path \in Nat /\ sockets \in Nat /\ \A e \in Daemons : daemon[e] \in DaemonState
    BY DEF ServerTypeOK
  <1>2. /\ path' = path /\ sockets' = sockets
        /\ \A e \in Daemons : e # d => daemon'[e] = daemon[e]
        /\ daemon'[d].pc = "down" /\ daemon'[d].socket = 0 /\ daemon'[d].created = 0
        /\ ~daemon'[d].disturbed
    BY DEF Exits, Down, ServerTypeOK
  <1>3. SocketsDiffer'
    <2>1. \A e \in Daemons : /\ daemon'[e].socket <= sockets /\ daemon'[e].created <= sockets
                             /\ daemon'[e].pc \in Bound => daemon'[e].socket # 0
                             /\ daemon'[e].pc \notin Bound => daemon'[e].socket = 0
      BY <1>1, <1>2 DEF SocketsDiffer
    <2>2. ASSUME NEW e \in Daemons, NEW f \in Daemons, e # f, daemon'[e].socket # 0
          PROVE  /\ daemon'[e].socket # daemon'[f].socket
                 /\ daemon'[f].created = daemon'[e].socket => daemon'[e].disturbed
      BY <1>2, <2>2 DEF SocketsDiffer
    <2> QED
      BY <1>2, <2>1, <2>2 DEF SocketsDiffer
  <1>4. StartsAlone'
    BY <1>2 DEF StartsAlone
  <1>5. PathIsOwn'
    BY <1>2 DEF PathIsOwn
  <1> QED
    BY <1>3, <1>4, <1>5

(* Every step of starting and stopping daemons keeps what relates the      *)
(* socket file at the path to the daemons: the probe, the bind that fails  *)
(* on an existing file, and the removal of nothing but the own file.       *)
LEMMA PathInvKept ==
  ASSUME ServerTypeOK, ServerTypeOK', PathInv, [ServerNext]_serverVars
  PROVE  PathInv'
  <1> USE DEF ServerTypeOK, PathInv, SocketsDiffer, StartsAlone, PathIsOwn, DaemonState, Starting, Bound, Own, Removing
  <1>1. ASSUME NEW d \in Daemons, Start(d) PROVE PathInv'
    <2> DEFINE others == {e \in Daemons : daemon[e].pc \in Starting}
               removing == {e \in Daemons : daemon[e].pc \in Removing}
    <2>1. /\ path' = path /\ sockets' = sockets /\ daemon[d].pc = "down"
          /\ daemon'[d].pc = "lstat" /\ daemon'[d].socket = 0 /\ daemon'[d].created = 0
          /\ daemon'[d].disturbed = (others \cup removing # {})
      BY <1>1 DEF Start, Down
    <2>2. ASSUME NEW e \in Daemons, e # d
          PROVE  /\ daemon'[e].pc = daemon[e].pc /\ daemon'[e].socket = daemon[e].socket
                 /\ daemon'[e].created = daemon[e].created
                 /\ ~daemon'[e].disturbed => ~daemon[e].disturbed /\ daemon[e].pc \notin Starting
                 /\ daemon[e].disturbed => daemon'[e].disturbed
      <3>1. daemon'[e] = [daemon[e] EXCEPT !.disturbed = @ \/ e \in others]
        BY <1>1, <2>2 DEF Start
      <3> QED
        BY <3>1
    <2>3. ~daemon'[d].disturbed => \A e \in Daemons : daemon[e].pc \notin Starting \cup Removing
      BY <2>1
    <2>4. SocketsDiffer'
      BY <2>1, <2>2
    <2>5. StartsAlone'
      BY <2>1, <2>2, <2>3
    <2>6. PathIsOwn'
      BY <2>1, <2>2
    <2> QED
      BY <2>4, <2>5, <2>6
  <1>2. ASSUME NEW d \in Daemons, Lstat(d) PROVE PathInv'
    BY <1>2 DEF Lstat
  <1>3. ASSUME NEW d \in Daemons, Probe(d) PROVE PathInv'
    <2>1. CASE Exits(d)
      BY <1>3, <2>1, ExitKeepsPath DEF Probe
    <2>2. CASE ~Exits(d)
      <3>1. /\ daemon[d].pc = "probe" /\ path' = path /\ sockets' = sockets
            /\ daemon'[d].pc = "recheck" /\ daemon'[d].created = daemon[d].created
            /\ daemon'[d].socket = daemon[d].socket /\ daemon'[d].disturbed = daemon[d].disturbed
            /\ \A e \in Daemons : e # d => daemon'[e] = daemon[e]
        BY <1>3, <2>2 DEF Probe, Goto
      <3>2. ASSUME NEW e \in Daemons, daemon[e].pc \in Own PROVE daemon[e].disturbed
        BY <1>3, <2>2, <3>2 DEF Probe, Served, LiveAt, Listening
      <3>3. SocketsDiffer'
        BY <3>1, SameSockets
      <3>4. StartsAlone'
        BY <3>1, <3>2
      <3>5. PathIsOwn'
        BY <3>1
      <3> QED
        BY <3>3, <3>4, <3>5
    <2> QED
      BY <2>1, <2>2
  <1>4. ASSUME NEW d \in Daemons, Recheck(d) PROVE PathInv'
    <2>1. CASE Exits(d)
      BY <1>4, <2>1, ExitKeepsPath DEF Recheck
    <2>2. CASE ~Exits(d)
      <3>1. PICK pc \in {"bind", "unlink"} :
              /\ daemon[d].pc = "recheck" /\ path' = path /\ sockets' = sockets
              /\ daemon'[d].pc = pc /\ daemon'[d].created = daemon[d].created
              /\ daemon'[d].socket = daemon[d].socket
              /\ daemon'[d].disturbed = daemon[d].disturbed
              /\ \A e \in Daemons : e # d => daemon'[e] = daemon[e]
        BY <1>4, <2>2 DEF Recheck, Goto
      <3>2. SocketsDiffer'
        BY <3>1, SameSockets
      <3>3. StartsAlone'
        BY <3>1
      <3>4. PathIsOwn'
        BY <3>1
      <3> QED
        BY <3>2, <3>3, <3>4
    <2> QED
      BY <2>1, <2>2
  <1>5. ASSUME NEW d \in Daemons, UnlinkStale(d) PROVE PathInv'
    BY <1>5 DEF UnlinkStale, Goto
  <1>6. ASSUME NEW d \in Daemons, Bind(d) PROVE PathInv'
    <2>1. CASE Exits(d) /\ UNCHANGED <<path, sockets>>
      BY <2>1, ExitKeepsPath
    <2>2. CASE path = 0 /\ ~Exits(d)
      <3>1. /\ path' = sockets + 1 /\ sockets' = sockets + 1
            /\ \A e \in Daemons : e # d => daemon'[e] = daemon[e]
            /\ daemon'[d].pc = "listen" /\ daemon'[d].socket = sockets + 1
            /\ daemon'[d].created = daemon[d].created /\ daemon'[d].disturbed = daemon[d].disturbed
        BY <1>6, <2>2 DEF Bind
      <3>2. daemon[d].pc = "bind"
        BY <1>6 DEF Bind
      <3>3. SocketsDiffer'
        <4>1. path' <= sockets'
          BY <3>1
        <4>2. \A e \in Daemons : /\ daemon'[e].socket <= sockets' /\ daemon'[e].created <= sockets'
                                 /\ daemon'[e].pc \in Bound => daemon'[e].socket # 0
                                 /\ daemon'[e].pc \notin Bound => daemon'[e].socket = 0
          BY <3>1, <3>2
        <4>3. \A e \in Daemons : daemon[e].socket < sockets + 1 /\ daemon[e].created < sockets + 1
          OBVIOUS
        <4>4. ASSUME NEW e \in Daemons, NEW f \in Daemons, e # f, daemon'[e].socket # 0
              PROVE  /\ daemon'[e].socket # daemon'[f].socket
                     /\ daemon'[f].created = daemon'[e].socket => daemon'[e].disturbed
          BY <3>1, <4>3, <4>4
        <4> QED
          BY <4>1, <4>2, <4>4
      <3>4. StartsAlone'
        BY <3>1, <3>2
      <3>5. PathIsOwn'
        BY <2>2, <3>1, <3>2
      <3> QED
        BY <3>3, <3>4, <3>5
    <2> QED
      BY <1>6, <2>1, <2>2 DEF Bind
  <1>7. ASSUME NEW d \in Daemons, Listen(d) PROVE PathInv'
    BY <1>7 DEF Listen, Goto
  <1>8. ASSUME NEW d \in Daemons, StatCreated(d) PROVE PathInv'
    <2>1. CASE Exits(d)
      BY <1>8, <2>1, ExitKeepsPath DEF StatCreated
    <2>2. CASE ~Exits(d)
      <3>1. /\ daemon[d].pc = "stat" /\ path' = path /\ sockets' = sockets /\ path # 0
            /\ daemon'[d].pc = "check" /\ daemon'[d].created = path
            /\ daemon'[d].socket = daemon[d].socket /\ daemon'[d].disturbed = daemon[d].disturbed
            /\ \A e \in Daemons : e # d => daemon'[e] = daemon[e]
        BY <1>8, <2>2 DEF StatCreated
      <3>2. SocketsDiffer'
        BY <3>1
      <3>3. StartsAlone'
        BY <3>1
      <3>4. PathIsOwn'
        BY <3>1
      <3> QED
        BY <3>2, <3>3, <3>4
    <2> QED
      BY <2>1, <2>2
  <1>9. ASSUME NEW d \in Daemons, CheckCreated(d) PROVE PathInv'
    <2>1. CASE Exits(d)
      BY <1>9, <2>1, ExitKeepsPath DEF CheckCreated
    <2>2. CASE ~Exits(d)
      <3>1. /\ daemon[d].pc = "check" /\ path' = path /\ sockets' = sockets
            /\ daemon'[d].pc = "serving" /\ daemon'[d].created = daemon[d].created
            /\ daemon'[d].socket = daemon[d].socket /\ daemon'[d].disturbed = daemon[d].disturbed
            /\ \A e \in Daemons : e # d => daemon'[e] = daemon[e]
        BY <1>9, <2>2 DEF CheckCreated
      <3>2. SocketsDiffer'
        BY <3>1, SameSockets
      <3>3. StartsAlone'
        BY <3>1
      <3>4. PathIsOwn'
        BY <3>1
      <3> QED
        BY <3>2, <3>3, <3>4
    <2> QED
      BY <2>1, <2>2
  <1>10. ASSUME NEW d \in Daemons, Quit(d) PROVE PathInv'
    BY <1>10 DEF Quit, Goto
  <1>11. ASSUME NEW d \in Daemons, CloseListener(d) PROVE PathInv'
    <2>1. /\ path' = path /\ sockets' = sockets /\ daemon[d].pc = "stopped"
          /\ daemon'[d].pc = "unbound" /\ daemon'[d].socket = 0
          /\ daemon'[d].created = daemon[d].created /\ daemon'[d].disturbed = daemon[d].disturbed
      <3>1. daemon'[d] = [daemon[d] EXCEPT !.pc = "unbound", !.accept = "off", !.socket = 0]
        BY <1>11 DEF CloseListener
      <3>2. daemon[d] \in DaemonState
        OBVIOUS
      <3>3. UNCHANGED <<path, sockets>> /\ daemon[d].pc = "stopped"
        BY <1>11 DEF CloseListener
      <3> HIDE DEF ServerTypeOK, PathInv
      <3> QED
        BY <3>1, <3>2, <3>3
    <2>2. ASSUME NEW e \in Daemons, e # d
          PROVE  /\ daemon'[e].pc = daemon[e].pc /\ daemon'[e].socket = daemon[e].socket
                 /\ daemon'[e].created = daemon[e].created
                 /\ daemon'[e].disturbed = (daemon[e].disturbed \/ daemon[e].pc \in Starting)
      <3>1. daemon'[e] = [daemon[e] EXCEPT !.disturbed = @ \/ daemon[e].pc \in Starting]
        BY <1>11, <2>2 DEF CloseListener
      <3> QED
        BY <3>1
    <2>3. SocketsDiffer'
      BY <2>1, <2>2
    <2>4. StartsAlone'
      BY <2>1, <2>2
    <2>5. PathIsOwn'
      BY <2>1, <2>2
    <2> QED
      BY <2>3, <2>4, <2>5
  <1>21. ASSUME NEW d \in Daemons, StopMaterialization(d) PROVE PathInv'
    BY <1>21 DEF StopMaterialization, Goto
  <1>22. ASSUME NEW d \in Daemons, MatchCreated(d) PROVE PathInv'
    <2>1. PICK pc \in {"matched", "closed"} :
            /\ path' = path /\ sockets' = sockets /\ daemon[d].pc = "unbound"
            /\ pc = "matched" => path = daemon[d].created
            /\ daemon'[d].pc = pc /\ daemon'[d].socket = daemon[d].socket
            /\ daemon'[d].created = daemon[d].created /\ daemon'[d].disturbed = daemon[d].disturbed
            /\ \A e \in Daemons : e # d => daemon'[e] = daemon[e]
      BY <1>22 DEF MatchCreated, Goto
    <2>2. SocketsDiffer'
      BY <2>1, SameSockets
    <2>3. ASSUME NEW e \in Daemons, e # d, daemon[e].pc \in Own, ~daemon[e].disturbed
          PROVE  pc # "matched"
      <3>1. path = daemon[e].socket /\ daemon[e].socket # 0
        BY <2>3
      <3>2. daemon[d].created # daemon[e].socket
        BY <2>3, <3>1
      <3> QED
        BY <2>1, <3>1, <3>2
    <2>4. StartsAlone'
      BY <2>1, <2>3
    <2>5. PathIsOwn'
      BY <2>1
    <2> QED
      BY <2>2, <2>4, <2>5
  <1>23. ASSUME NEW d \in Daemons, UnlinkCreated(d) PROVE PathInv'
    <2>1. /\ path' = 0 /\ sockets' = sockets /\ daemon[d].pc = "matched"
          /\ daemon'[d].pc = "closed" /\ daemon'[d].socket = daemon[d].socket
          /\ daemon'[d].created = daemon[d].created /\ daemon'[d].disturbed = daemon[d].disturbed
          /\ \A e \in Daemons : e # d => daemon'[e] = daemon[e]
      BY <1>23 DEF UnlinkCreated, Goto
    <2>2. SocketsDiffer'
      BY <2>1, SameSockets
    <2>3. StartsAlone'
      BY <2>1
    <2>4. ASSUME NEW e \in Daemons, e # d, daemon[e].pc \in Bound PROVE daemon[e].disturbed
      BY <2>1, <2>4
    <2>5. PathIsOwn'
      BY <2>1, <2>4
    <2> QED
      BY <2>2, <2>3, <2>5
  <1>12. ASSUME NEW d \in Daemons, Exit(d) \/ Kill(d) PROVE PathInv'
    BY <1>12, ExitKeepsPath DEF Exit, Kill
  <1>13. CASE OperatorRemoves
    BY <1>13 DEF OperatorRemoves
  <1>14. ASSUME NEW d \in Daemons, CloseConnections(d) \/ WaitIdle(d) \/ DrainDeadline(d) PROVE PathInv'
    BY <1>14 DEF CloseConnections, WaitIdle, DrainDeadline, Goto
  <1>15. ASSUME NEW d \in Daemons, AcceptFails(d) \/ RetryAccept(d) PROVE PathInv'
    <2>1. /\ path' = path /\ sockets' = sockets
          /\ \A e \in Daemons : /\ daemon'[e].pc = daemon[e].pc /\ daemon'[e].socket = daemon[e].socket
                                /\ daemon'[e].created = daemon[e].created
                                /\ daemon'[e].disturbed = daemon[e].disturbed
      BY <1>15 DEF AcceptFails, RetryAccept
    <2> QED
      BY <2>1
  <1>16. CASE UNCHANGED <<path, sockets, daemon>>
    BY <1>16
  <1>17. ASSUME NEW d \in Daemons, \E k \in Connections : Accept(d, k) PROVE PathInv'
    BY <1>16, <1>17 DEF Accept
  <1>18. ASSUME NEW k \in Connections,
                \/ SessionStep(k) \/ ClientStep(k)
                \/ \E a \in {"answer", Nobody} : Answered(k, a)
                \/ AnsweredBehindPass(k, "answer")
                \/ LockRoute(k, "materializing") /\ UNCHANGED <<path, sockets, daemon, upsets>>
         PROVE  PathInv'
    BY <1>16, <1>18 DEF SessionStep, ClientStep, Connect, Answered, AnsweredBehindPass
  <1>19. CASE UNCHANGED serverVars
    BY <1>16, <1>19 DEF serverVars
  <1> HIDE DEF ServerTypeOK, PathInv, SocketsDiffer, StartsAlone, PathIsOwn, DaemonState, Starting, Bound, Own, Removing
  <1>20. ASSUME NEW d \in Daemons, DaemonStep(d) PROVE PathInv'
    BY <1>2, <1>3, <1>4, <1>5, <1>6, <1>7, <1>8, <1>9, <1>10, <1>11, <1>12, <1>14, <1>15, <1>17, <1>20, <1>21, <1>22, <1>23
    DEF DaemonStep, StartStep, StopStep
  <1> QED
    BY <1>1, <1>13, <1>18, <1>19, <1>20 DEF ServerNext

(* A daemon that serves is reachable, whatever other daemons do one after  *)
(* the other: stale socket recovery, the checks behind bind and the removal*)
(* at stop never cost it its file, unless it started while another did or  *)
(* while another removed its own.                                          *)
THEOREM ServesItsPathCorrect == ServerSpec => []ServesItsPath
  <1>1. ServerInit => PathInv
    BY DEF ServerInit, Down, PathInv, SocketsDiffer, StartsAlone, PathIsOwn, Starting, Bound, Own
  <1>2. ServerTypeOK /\ ServerTypeOK' /\ PathInv /\ [ServerNext]_serverVars => PathInv'
    BY PathInvKept
  <1>3. PathInv => ServesItsPath
    BY DEF PathInv, PathIsOwn, Bound, ServesItsPath
  <1> QED
    BY <1>1, <1>2, <1>3, ServerTyped, PTL DEF ServerSpec

-----------------------------------------------------------------------------
(* The sessions behind a stop                                              *)

(* What keeps the sessions of released daemons away: no daemon becomes     *)
(* released, and no session appears, but where the action says so.         *)
LEMMA QuietKept ==
  ASSUME ServerTypeOK, ReleasedIsQuiet,
         \A d \in Daemons : daemon'[d].pc = "released" /\ ~daemon'[d].abandoned =>
                             daemon[d].pc = "released" /\ ~daemon[d].abandoned,
         \A k \in Connections : conn'[k].at \in Sessions /\ conn'[k].daemon \in Daemons =>
                                conn[k].at \in Sessions /\ conn[k].daemon = conn'[k].daemon
  PROVE  ReleasedIsQuiet'
  BY DEF ReleasedIsQuiet, Of

(* Connections that the kernel closes are no longer in a session.          *)
LEMMA DisconnectedEnds ==
  ASSUME NEW ks, conn' = Disconnected(ks)
  PROVE  \A k \in Connections : conn'[k].at \in Sessions => conn'[k] = conn[k]
  <1> SUFFICES ASSUME NEW k \in Connections, conn'[k].at \in Sessions PROVE conn'[k] = conn[k]
    OBVIOUS
  <1>1. CASE k \in ks
    <2>1. conn'[k] = [conn[k] EXCEPT !.at = "reset", !.daemon = Nobody,
                                     !.answer = IF conn[k].at \in Unsent THEN Nobody ELSE @]
      BY <1>1 DEF Disconnected
    <2> QED
      BY <2>1 DEF Sessions
  <1>2. CASE k \notin ks
    BY <1>2 DEF Disconnected
  <1> QED
    BY <1>1, <1>2

(* No step starts a session of a daemon that has released what sessions    *)
(* use: only serving daemons accept, and a stop waits until no session is  *)
(* counted.                                                                *)
LEMMA ReleasedKept ==
  ASSUME ServerTypeOK, ReleasedIsQuiet, [ServerNext]_serverVars
  PROVE  ReleasedIsQuiet'
  <1> USE DEF ServerTypeOK
  <1>1. ASSUME NEW d \in Daemons, Start(d) PROVE ReleasedIsQuiet'
    <2>1. ASSUME NEW e \in Daemons, daemon'[e].pc = "released", ~daemon'[e].abandoned
          PROVE  daemon[e].pc = "released" /\ ~daemon[e].abandoned
      BY <1>1, <2>1 DEF Start, Down, DaemonState
    <2> QED
      BY <1>1, <2>1, QuietKept DEF Start
  <1>2. ASSUME NEW d \in Daemons, Exits(d) PROVE ReleasedIsQuiet'
    BY <1>2, QuietKept, DisconnectedEnds DEF Exits, Down
  <1>3. ASSUME NEW d \in Daemons, NEW pc, Goto(d, pc), pc # "released", UNCHANGED conn
        PROVE  ReleasedIsQuiet'
    BY <1>3, QuietKept DEF Goto, DaemonState
  <1>4. ASSUME NEW d \in Daemons, StartStep(d) PROVE ReleasedIsQuiet'
    <2>1. CASE Lstat(d)
      BY <2>1, QuietKept DEF Lstat, DaemonState
    <2>2. CASE Bind(d) /\ ~Exits(d)
      BY <2>2, QuietKept DEF Bind, DaemonState
    <2>3. CASE StatCreated(d) /\ ~Exits(d)
      BY <2>3, QuietKept DEF StatCreated, DaemonState
    <2>4. CASE CheckCreated(d) /\ ~Exits(d)
      BY <2>4, QuietKept DEF CheckCreated, DaemonState
    <2> QED
      BY <1>2, <1>3, <1>4, <2>1, <2>2, <2>3, <2>4
      DEF StartStep, Probe, Recheck, UnlinkStale, Listen
  <1>5. ASSUME NEW d \in Daemons, CloseListener(d) PROVE ReleasedIsQuiet'
    <2>1. ASSUME NEW e \in Daemons, daemon'[e].pc = "released"
          PROVE  daemon[e].pc = "released" /\ daemon'[e].abandoned = daemon[e].abandoned
      <3>1. daemon'[e] = IF e = d THEN [daemon[d] EXCEPT !.pc = "unbound", !.accept = "off", !.socket = 0]
                         ELSE [daemon[e] EXCEPT !.disturbed = @ \/ daemon[e].pc \in Starting]
        BY <1>5 DEF CloseListener
      <3> QED
        BY <2>1, <3>1 DEF DaemonState
    <2> QED
      BY <1>5, <2>1, QuietKept, DisconnectedEnds DEF CloseListener
  <1>18. ASSUME NEW d \in Daemons, StopMaterialization(d) \/ MatchCreated(d) \/ UnlinkCreated(d)
         PROVE  ReleasedIsQuiet'
    BY <1>3, <1>18 DEF StopMaterialization, MatchCreated, UnlinkCreated
  <1>6. ASSUME NEW d \in Daemons, CloseConnections(d) PROVE ReleasedIsQuiet'
    BY <1>6, QuietKept DEF CloseConnections, Goto, DaemonState, ConnState
  <1>7. ASSUME NEW d \in Daemons, WaitIdle(d) PROVE ReleasedIsQuiet'
    BY <1>7 DEF WaitIdle, InFlight, Counted, Goto, Of, ReleasedIsQuiet, DaemonState
  <1>8. ASSUME NEW d \in Daemons, DrainDeadline(d) PROVE ReleasedIsQuiet'
    BY <1>8, QuietKept DEF DrainDeadline, DaemonState
  <1>9. ASSUME NEW d \in Daemons, AcceptFails(d) \/ RetryAccept(d) PROVE ReleasedIsQuiet'
    <2>1. ASSUME NEW e \in Daemons
          PROVE  daemon'[e].pc = daemon[e].pc /\ daemon'[e].abandoned = daemon[e].abandoned
      BY <1>9 DEF AcceptFails, RetryAccept, DaemonState
    <2> QED
      BY <1>9, <2>1, QuietKept DEF AcceptFails, RetryAccept
  <1>10. ASSUME NEW d \in Daemons, NEW k \in Connections, Accept(d, k) PROVE ReleasedIsQuiet'
    <2>1. CASE conn' = Disconnected({k})
      BY <1>10, <2>1, QuietKept, DisconnectedEnds DEF Accept
    <2>2. CASE conn' = [conn EXCEPT ![k].at = "accepted"]
      BY <1>10, <2>2 DEF Accept, Of, ReleasedIsQuiet, ConnState
    <2> QED
      BY <1>10, <2>1, <2>2 DEF Accept
  <1>11. ASSUME OperatorRemoves PROVE ReleasedIsQuiet'
    BY <1>11, QuietKept DEF OperatorRemoves, DaemonState
  <1>12. ASSUME NEW k \in Connections, conn[k].at \in Sessions,
                \A j \in Connections : j # k => conn'[j] = conn[j],
                conn'[k].daemon = conn[k].daemon \/ conn'[k].at \notin Sessions,
                UNCHANGED daemon
         PROVE  ReleasedIsQuiet'
    BY <1>12, QuietKept
  <1>13. ASSUME NEW k \in Connections, SessionStep(k) PROVE ReleasedIsQuiet'
    <2>1. CASE RunSession(k) \/ ReadRequest(k) \/ LockRoute(k, "handling") \/ EndPass(k)
      <3>1. conn[k].at \in Sessions /\ conn'[k].daemon = conn[k].daemon
        BY <2>1 DEF RunSession, ReadRequest, LockRoute, EndPass, SessionTo, Sessions, ConnState
      <3> QED
        BY <1>12, <1>13, <2>1, <3>1
        DEF RunSession, ReadRequest, LockRoute, EndPass, SessionTo, SessionStep
    <2>2. CASE WriteAnswer(k) \/ CloseSession(k)
      <3>1. conn[k].at \in Sessions /\ (conn'[k].daemon = conn[k].daemon \/ conn'[k].at \notin Sessions)
        BY <2>2 DEF WriteAnswer, CloseSession, Sessions, ConnState
      <3> QED
        BY <1>12, <1>13, <2>2, <3>1 DEF WriteAnswer, CloseSession, SessionStep
    <2>3. CASE Forget(k)
      BY <1>13, <2>3, QuietKept DEF Forget, SessionStep, Unused, Sessions
    <2> QED
      BY <1>13, <2>1, <2>2, <2>3 DEF SessionStep
  <1>14. ASSUME NEW k \in Connections, ClientStep(k) PROVE ReleasedIsQuiet'
    <2>1. CASE Connect(k, "client")
      BY <2>1, QuietKept DEF Connect, Unused, Sessions
    <2>2. CASE Disconnect(k) /\ UNCHANGED daemon
      BY <2>2, QuietKept DEF Disconnect, ConnState
    <2> QED
      BY <1>14, <2>1, <2>2 DEF ClientStep
  <1>15. ASSUME NEW k \in Connections, NEW a, Answered(k, a) PROVE ReleasedIsQuiet'
    <2>1. conn[k].at \in Sessions /\ conn'[k].daemon = conn[k].daemon
      BY <1>15 DEF Answered, Sessions, ConnState
    <2> QED
      BY <1>12, <1>15, <2>1 DEF Answered
  <1>19. ASSUME NEW k \in Connections, NEW a, AnsweredBehindPass(k, a) PROVE ReleasedIsQuiet'
    <2>1. conn[k].at \in Sessions /\ conn'[k].daemon = conn[k].daemon
      BY <1>19 DEF AnsweredBehindPass, Sessions, ConnState
    <2> QED
      BY <1>12, <1>19, <2>1 DEF AnsweredBehindPass
  <1>20. ASSUME NEW k \in Connections, LockRoute(k, "materializing"), UNCHANGED daemon
         PROVE  ReleasedIsQuiet'
    <2>1. conn[k].at \in Sessions /\ conn'[k].daemon = conn[k].daemon
      BY <1>20 DEF LockRoute, SessionTo, Sessions, ConnState
    <2> QED
      BY <1>12, <1>20, <2>1 DEF LockRoute, SessionTo
  <1>16. CASE UNCHANGED serverVars
    BY <1>16, QuietKept DEF serverVars
  <1>17. ASSUME NEW d \in Daemons, DaemonStep(d) PROVE ReleasedIsQuiet'
    BY <1>2, <1>3, <1>4, <1>5, <1>6, <1>7, <1>8, <1>9, <1>10, <1>17, <1>18
    DEF DaemonStep, StopStep, Quit, Exit, Kill
  <1> QED
    BY <1>1, <1>11, <1>13, <1>14, <1>15, <1>16, <1>17, <1>19, <1>20 DEF ServerNext

(* A stop that abandons no session has none left, and none appears while   *)
(* its caller releases what sessions use.                                  *)
THEOREM ReleasedIsQuietCorrect == ServerSpec => []ReleasedIsQuiet
  <1>1. ServerInit => ReleasedIsQuiet
    BY DEF ServerInit, Down, ReleasedIsQuiet
  <1>2. ServerTypeOK /\ ReleasedIsQuiet /\ [ServerNext]_serverVars => ReleasedIsQuiet'
    BY ReleasedKept
  <1> QED
    BY <1>1, <1>2, ServerTyped, PTL DEF ServerSpec

-----------------------------------------------------------------------------
(* Deliveries: the inductive invariant                                     *)

To(q) == Members(Recipients[q])
AllTo == UNION {To(q) : q \in Entries}
Requests == [id : Entries \X Nat, to : Seq(AllTo)]
Replies == {"2xx", "4xx", "5xx"}
Attempts(q) == [pc : {"idle", "dialogue", "send", "wait", "done"}, mail : BOOLEAN,
                listed : Seq(To(q)), accepted : Seq(To(q)), replies : Seq(Replies),
                conn : Connections \cup {Nobody}, tries : Nat]
DeliveryConn == [at : Sessions \cup {"none", "queued", "reset"}, daemon : Daemons \cup {Nobody},
                 client : Entries \cup {Nobody}, sent : BOOLEAN, shut : BOOLEAN,
                 answer : Answers \cup {Nobody}]
Carrying == Sessions \cup {"queued"}
Store == [records : SUBSET Requests, torn : BOOLEAN, failed : BOOLEAN, everTorn : BOOLEAN]

QueueTyped ==
  /\ DOMAIN queue = Entries
  /\ \A q \in Entries : queue[q] \in [To(q) -> {"queued", "sent", "bounced"}]
TxTyped ==
  /\ DOMAIN tx = Entries
  /\ \A q \in Entries : tx[q] \in Attempts(q)
ConnTyped ==
  /\ conn \in [Connections -> DeliveryConn]
  /\ \A k \in Connections : conn[k].at \in Carrying => conn[k].daemon \in Daemons
StoreTyped ==
  /\ store \in [Storages -> Store]
  /\ DOMAIN request = Connections
  /\ \A k \in Connections : conn[k].at \in Carrying => request[k] \in Requests

(* What a client was answered 250 for is what the listener holds, and a    *)
(* request is only sent while a reply is owed; the pipe helper has all its *)
(* replies at once.                                                        *)
InOrder(q, t) ==
  /\ t.accepted = t.listed
  /\ t.pc \in {"idle", "dialogue"} => t.replies = << >>
  /\ t.pc \in {"send", "wait"} =>
       /\ Len(t.replies) < Len(t.listed)
       /\ via[q] = "pipe" => t.replies = << >>
AttemptInv == \A q \in Entries : InOrder(q, tx[q])

(* Who waits, waits on a connection of its own that carries its request.   *)
WaitInv ==
  \A q \in Entries :
    tx[q].pc = "wait" =>
      /\ tx[q].conn \in Connections
      /\ conn[tx[q].conn].client = q
      /\ request[tx[q].conn] = Request(q)

Torn == \E s \in Storages : store[s].everTorn
TornInv == \A s \in Storages : store[s].torn => store[s].everTorn

Refused == {"permanentFailure", "permissionDenied", "notFound"}

(* An answer that was given is true of the request it answers.             *)
AnswerInv ==
  \A k \in Connections :
    /\ conn[k].answer = "success" => \E s \in Storages : Recorded(s, request[k])
    /\ conn[k].answer \in Refused => flaw[request[k].id[1]] = "unparsable" \/ Torn

(* A reply that was written is true of the recipient it is written for.    *)
AtFault(q) == flaw[q] \in {"unparsable", "oversize"}
HasRecord(q, r) == \E s \in Storages : RecordsOf(s, q, r) # {}
Truthful(q, t) ==
  \A i \in DOMAIN t.replies :
    /\ t.replies[i] = "2xx" => HasRecord(q, t.accepted[i])
    /\ t.replies[i] = "5xx" => AtFault(q) \/ Torn
ReplyInv == \A q \in Entries : Truthful(q, tx[q])

IInv ==
  /\ QueueTyped /\ TxTyped /\ ConnTyped /\ StoreTyped
  /\ AttemptInv /\ WaitInv /\ TornInv /\ AnswerInv /\ ReplyInv
  /\ SentIsRecorded /\ BouncedIsRefusedUnlessTorn

-----------------------------------------------------------------------------
(* What the server does to connections by itself                           *)

(* A client stays where it is, an answer stays or is lost, and a connection*)
(* that may still bring its request to a handler stays with its daemon.    *)
ServerKeeps ==
  /\ conn' \in [Connections -> DeliveryConn]
  /\ \A k \in Connections :
       /\ conn'[k].client = conn[k].client
       /\ conn'[k].answer \in {conn[k].answer, Nobody}
       /\ conn'[k].at \in Carrying => conn[k].at \in Carrying /\ conn'[k].daemon = conn[k].daemon

LEMMA UnchangedKeeps ==
  ASSUME ConnTyped, conn' = conn
  PROVE  ServerKeeps
  BY DEF ConnTyped, ServerKeeps

LEMMA DisconnectedKeeps ==
  ASSUME ConnTyped, NEW ks, conn' = Disconnected(ks)
  PROVE  ServerKeeps
<1>1. ASSUME NEW k \in Connections, conn'[k] = [conn[k] EXCEPT !.at = "reset", !.daemon = Nobody,
                         !.answer = IF conn[k].at \in Unsent THEN Nobody ELSE @]
      PROVE  /\ conn'[k] \in DeliveryConn
             /\ conn'[k].client = conn[k].client
             /\ conn'[k].answer \in {conn[k].answer, Nobody}
             /\ conn'[k].at \notin Carrying
  <2>1. conn[k] \in DeliveryConn
    BY DEF ConnTyped
  <2>2. conn'[k].at = "reset" /\ conn'[k].client = conn[k].client
        /\ conn'[k].answer \in {conn[k].answer, Nobody}
    BY <1>1, <2>1 DEF DeliveryConn
  <2>3. conn'[k] \in DeliveryConn
    BY <1>1, <2>1 DEF DeliveryConn
  <2> QED
    BY <2>2, <2>3 DEF Carrying, Sessions
<1>2. ASSUME NEW k \in Connections, k \notin ks
      PROVE  conn'[k] = conn[k] /\ conn[k] \in DeliveryConn
  BY <1>2 DEF Disconnected, ConnTyped
<1>3. ASSUME NEW k \in Connections, k \in ks
      PROVE  conn'[k] = [conn[k] EXCEPT !.at = "reset", !.daemon = Nobody,
                         !.answer = IF conn[k].at \in Unsent THEN Nobody ELSE @]
  BY <1>3 DEF Disconnected
<1>4. conn' = [k \in Connections |-> conn'[k]]
  BY DEF Disconnected
<1> QED
  BY <1>1, <1>2, <1>3, <1>4 DEF ServerKeeps

LEMMA DaemonStepKeeps ==
  ASSUME ConnTyped, NEW d \in Daemons, DaemonStep(d)
  PROVE  ServerKeeps
<1>1. ASSUME Exits(d) PROVE ServerKeeps
  BY <1>1, DisconnectedKeeps DEF Exits
<1>2. CASE StartStep(d)
  BY <1>1, <1>2, UnchangedKeeps
     DEF StartStep, Lstat, Probe, Recheck, UnlinkStale, Bind, Listen, StatCreated, CheckCreated
<1>3. CASE Quit(d) \/ AcceptFails(d) \/ RetryAccept(d) \/ WaitIdle(d) \/ DrainDeadline(d)
  BY <1>3, UnchangedKeeps DEF Quit, AcceptFails, RetryAccept, WaitIdle, DrainDeadline
<1>4. CASE Exit(d) \/ Kill(d)
  BY <1>1, <1>4 DEF Exit, Kill
<1>5. CASE CloseListener(d)
  BY <1>5, DisconnectedKeeps DEF CloseListener
<1>8. CASE StopMaterialization(d) \/ MatchCreated(d) \/ UnlinkCreated(d)
  BY <1>8, UnchangedKeeps DEF StopMaterialization, MatchCreated, UnlinkCreated
<1>6. CASE CloseConnections(d)
  <2>1. conn' = [k \in Connections |-> IF k \in Of(d) THEN [conn[k] EXCEPT !.shut = TRUE] ELSE conn[k]]
    BY <1>6 DEF CloseConnections
  <2>2. \A k \in Connections : conn[k] \in DeliveryConn
    BY DEF ConnTyped
  <2>3. \A k \in Connections :
          /\ conn'[k] \in DeliveryConn /\ conn'[k].client = conn[k].client
          /\ conn'[k].answer = conn[k].answer /\ conn'[k].at = conn[k].at
          /\ conn'[k].daemon = conn[k].daemon
    BY <2>1, <2>2 DEF DeliveryConn
  <2> QED
    BY <2>1, <2>3 DEF ServerKeeps
<1>7. ASSUME NEW k \in Connections, Accept(d, k) PROVE ServerKeeps
  <2>1. CASE conn' = [conn EXCEPT ![k].at = "accepted"]
    <3>1. \A j \in Connections : conn[j] \in DeliveryConn
      BY DEF ConnTyped
    <3>2. [conn[k] EXCEPT !.at = "accepted"] \in DeliveryConn
      BY <3>1 DEF DeliveryConn, Sessions
    <3>3. conn'[k] = [conn[k] EXCEPT !.at = "accepted"]
          /\ \A j \in Connections \ {k} : conn'[j] = conn[j]
      BY <2>1 DEF ConnTyped
    <3>4. conn'[k].client = conn[k].client /\ conn'[k].answer = conn[k].answer
          /\ conn'[k].daemon = conn[k].daemon
      BY <3>1, <3>3 DEF DeliveryConn
    <3>5. conn[k].at = "queued"
      BY <1>7 DEF Accept
    <3>6. conn' \in [Connections -> DeliveryConn]
      BY <2>1, <3>2 DEF ConnTyped
    <3> QED
      BY <3>3, <3>4, <3>5, <3>6 DEF ServerKeeps, Carrying
  <2>2. CASE conn' = Disconnected({k})
    BY <2>2, DisconnectedKeeps
  <2> QED
    BY <1>7, <2>1, <2>2 DEF Accept
<1> QED
  BY <1>2, <1>3, <1>4, <1>5, <1>6, <1>7, <1>8 DEF DaemonStep, StopStep

(* A session that does not run a handler; a connection is only forgotten   *)
(* when nobody has it open.                                                *)
LEMMA SessionStepKeeps ==
  ASSUME ConnTyped, NEW k \in Connections, SessionStep(k)
  PROVE  ServerKeeps
<1>1. \A j \in Connections : conn[j] \in DeliveryConn
  BY DEF ConnTyped
<1>2. ASSUME NEW c \in DeliveryConn, conn' = [conn EXCEPT ![k] = c], c.client = conn[k].client,
             c.answer \in {conn[k].answer, Nobody},
             c.at \in Carrying => conn[k].at \in Carrying /\ c.daemon = conn[k].daemon
      PROVE  ServerKeeps
  <2>1. conn'[k] = c /\ \A j \in Connections \ {k} : conn'[j] = conn[j]
    BY <1>2 DEF ConnTyped
  <2>2. conn' \in [Connections -> DeliveryConn]
    BY <1>2 DEF ConnTyped
  <2> QED
    BY <1>2, <2>1, <2>2 DEF ServerKeeps
<1>3. ASSUME NEW at \in Sessions, conn[k].at \in Carrying, SessionTo(k, at)
      PROVE  ServerKeeps
  <2> DEFINE c == [conn[k] EXCEPT !.at = at]
  <2>1. c \in DeliveryConn
    BY <1>1 DEF DeliveryConn
  <2>2. c.client = conn[k].client /\ c.answer = conn[k].answer /\ c.daemon = conn[k].daemon
    BY <1>1 DEF DeliveryConn
  <2>3. conn' = [conn EXCEPT ![k] = c]
    BY <1>3 DEF SessionTo
  <2> HIDE DEF c
  <2> QED
    BY <1>2, <1>3, <2>1, <2>2, <2>3
<1>4. CASE RunSession(k) \/ LockRoute(k, "handling") \/ EndPass(k)
  BY <1>3, <1>4 DEF RunSession, LockRoute, EndPass, Carrying, Sessions
<1>5. CASE ReadRequest(k)
  <2> DEFINE c == [conn[k] EXCEPT !.at = IF conn[k].sent THEN "waiting" ELSE "closing", !.sent = FALSE]
  <2>1. c \in DeliveryConn
    BY <1>1 DEF DeliveryConn, Sessions
  <2>2. c.client = conn[k].client /\ c.answer = conn[k].answer /\ c.daemon = conn[k].daemon
    BY <1>1 DEF DeliveryConn
  <2>3. conn' = [conn EXCEPT ![k] = c] /\ conn[k].at \in Carrying
    BY <1>5 DEF ReadRequest, Carrying, Sessions
  <2> HIDE DEF c
  <2> QED
    BY <1>2, <2>1, <2>2, <2>3
<1>6. CASE WriteAnswer(k)
  <2> DEFINE c == [conn[k] EXCEPT !.at = IF conn[k].shut \/ conn[k].client = Nobody
                                         THEN "closing" ELSE "reading",
                                  !.answer = IF conn[k].shut THEN Nobody ELSE @]
  <2>1. c \in DeliveryConn
    BY <1>1 DEF DeliveryConn, Sessions
  <2>2. /\ c.client = conn[k].client /\ c.answer \in {conn[k].answer, Nobody}
        /\ c.daemon = conn[k].daemon
    BY <1>1 DEF DeliveryConn
  <2>3. conn' = [conn EXCEPT ![k] = c] /\ conn[k].at \in Carrying
    BY <1>6 DEF WriteAnswer, Carrying, Sessions
  <2> HIDE DEF c
  <2> QED
    BY <1>2, <2>1, <2>2, <2>3
<1>7. CASE CloseSession(k)
  <2> DEFINE c == [conn[k] EXCEPT !.at = "reset", !.daemon = Nobody]
  <2>1. c \in DeliveryConn
    BY <1>1 DEF DeliveryConn
  <2>2. c.client = conn[k].client /\ c.answer = conn[k].answer /\ c.at \notin Carrying
    BY <1>1 DEF DeliveryConn, Carrying, Sessions
  <2>3. conn' = [conn EXCEPT ![k] = c]
    BY <1>7 DEF CloseSession
  <2> HIDE DEF c
  <2> QED
    BY <1>2, <2>1, <2>2, <2>3
<1>8. CASE Forget(k)
  <2>1. Unused \in DeliveryConn /\ Unused.client = Nobody /\ Unused.answer = Nobody
        /\ Unused.at \notin Carrying
    BY DEF Unused, DeliveryConn, Carrying, Sessions
  <2>2. conn' = [conn EXCEPT ![k] = Unused] /\ conn[k].client = Nobody
    BY <1>8 DEF Forget
  <2> QED
    BY <1>2, <2>1, <2>2
<1> QED
  BY <1>4, <1>5, <1>6, <1>7, <1>8 DEF SessionStep

-----------------------------------------------------------------------------
(* Journals keep what they have: what was recorded stays recorded          *)

StoreGrows ==
  \A s \in Storages :
    /\ store[s].records \subseteq store'[s].records
    /\ store[s].everTorn => store'[s].everTorn

LEMMA GrowthKeeps ==
  ASSUME StoreGrows
  PROVE  /\ \A q, r : HasRecord(q, r) => HasRecord(q, r)'
         /\ \A rq : (\E s \in Storages : Recorded(s, rq)) => (\E s \in Storages : Recorded(s, rq))'
         /\ Torn => Torn'
<1>1. ASSUME NEW q, NEW r, HasRecord(q, r) PROVE HasRecord(q, r)'
  <2>1. PICK s \in Storages : \E rec \in store[s].records : rec.id[1] = q /\ r \in Members(rec.to)
    BY <1>1 DEF HasRecord, RecordsOf
  <2>2. \E rec \in store'[s].records : rec.id[1] = q /\ r \in Members(rec.to)
    BY <2>1 DEF StoreGrows
  <2> QED
    BY <2>2 DEF HasRecord, RecordsOf
<1>2. ASSUME NEW rq, \E s \in Storages : Recorded(s, rq)
      PROVE  (\E s \in Storages : Recorded(s, rq))'
  BY <1>2 DEF StoreGrows, Recorded, SameDelivery
<1>3. Torn => Torn'
  BY DEF StoreGrows, Torn
<1> QED
  BY <1>1, <1>2, <1>3

(* While entries and attempts stay, nothing is taken back, whether a       *)
(* journal grows or is opened again.                                       *)
LEMMA AttemptsStay ==
  ASSUME IInv, StoreGrows, store' \in [Storages -> Store], TornInv', ConnTyped', AnswerInv',
         \A k \in Connections :
           /\ conn'[k].client = conn[k].client
           /\ conn'[k].at \in Carrying => conn[k].at \in Carrying,
         UNCHANGED <<queue, flaw, via, tx, request>>
  PROVE  IInv'
<1> USE DEF IInv
<1>1. QueueTyped' /\ TxTyped' /\ AttemptInv'
  BY DEF QueueTyped, TxTyped, AttemptInv, InOrder
<1>2. StoreTyped'
  BY DEF StoreTyped
<1>3. WaitInv'
  BY DEF WaitInv, Request
<1>4. ReplyInv'
  <2>1. \A q \in Entries : \A i \in DOMAIN tx[q].replies :
          /\ tx[q].replies[i] = "2xx" => HasRecord(q, tx[q].accepted[i])
          /\ tx[q].replies[i] = "5xx" => AtFault(q) \/ Torn
    BY DEF ReplyInv, Truthful
  <2> QED
    BY <2>1, GrowthKeeps DEF ReplyInv, Truthful, AtFault
<1>5. SentIsRecorded'
  BY GrowthKeeps DEF SentIsRecorded, HasRecord
<1>6. BouncedIsRefusedUnlessTorn'
  BY GrowthKeeps DEF BouncedIsRefusedUnlessTorn, BouncedIsRefused, Torn
<1> QED
  BY <1>1, <1>2, <1>3, <1>4, <1>5, <1>6

LEMMA ServerPart ==
  ASSUME IInv, ServerKeeps, StoreGrows, store' \in [Storages -> Store], TornInv',
         UNCHANGED <<queue, flaw, via, tx, request>>
  PROVE  IInv'
<1>1. ConnTyped'
  BY DEF IInv, ServerKeeps, ConnTyped
<1>2. AnswerInv'
  <2>1. \A k \in Connections :
          /\ conn'[k].answer = "success" => conn[k].answer = "success"
          /\ conn'[k].answer \in Refused => conn[k].answer \in Refused
    BY DeliveryAssumption DEF ServerKeeps, Refused, Answers
  <2> QED
    BY <2>1, GrowthKeeps DEF IInv, AnswerInv
<1> QED
  BY <1>1, <1>2, AttemptsStay DEF ServerKeeps

(* Opening the journal truncates what was torn and keeps every record.     *)
LEMMA StartDaemonStep ==
  ASSUME IInv, NEW d \in Daemons, StartDaemon(d)
  PROVE  IInv'
<1> DEFINE t == StorageOf[d]
<1>1. t \in Storages
  BY DEF Storages
<1>2. store \in [Storages -> Store] /\ TornInv
  BY DEF IInv, StoreTyped
<1> DEFINE opened == [store[t] EXCEPT !.torn = FALSE, !.failed = FALSE]
<1>3. store' = [store EXCEPT ![t] = opened]
  BY <1>1, <1>2 DEF StartDaemon
<1>4. store[t] \in Store
  BY <1>1, <1>2
<1>5. opened \in Store /\ opened.records = store[t].records
      /\ opened.torn = FALSE /\ opened.everTorn = store[t].everTorn
  BY <1>4 DEF Store
<1> HIDE DEF t, opened
<1>6. store' \in [Storages -> Store]
      /\ store'[t] = opened /\ \A s \in Storages \ {t} : store'[s] = store[s]
  BY <1>1, <1>2, <1>3, <1>5
<1>7. StoreGrows /\ TornInv'
  BY <1>2, <1>5, <1>6 DEF StoreGrows, TornInv
<1>8. ServerKeeps
  BY UnchangedKeeps DEF StartDaemon, Start, IInv
<1> QED
  BY <1>6, <1>7, <1>8, ServerPart DEF StartDaemon

-----------------------------------------------------------------------------
(* The daemon's answer to a delivery                                       *)

(* An answer is given of the request its connection carries.               *)
LEMMA AnsweredStep ==
  ASSUME IInv, NEW k \in Connections, NEW answer \in Answers,
         Answered(k, answer) \/ AnsweredBehindPass(k, answer),
         StoreGrows, store' \in [Storages -> Store], TornInv',
         answer = "success" => (\E s \in Storages : Recorded(s, request[k]))',
         answer \in Refused => flaw[request[k].id[1]] = "unparsable" \/ Torn',
         UNCHANGED <<queue, flaw, via, tx, request>>
  PROVE  IInv'
<1>1. answer # Nobody
  BY DeliveryAssumption
<1>11. PICK at \in Unsent :
         conn' = [conn EXCEPT ![k].at = at, ![k].answer = answer] /\ conn[k].at = "handling"
  BY <1>1 DEF Answered, AnsweredBehindPass, Unsent
<1> DEFINE c == [conn[k] EXCEPT !.at = at, !.answer = answer]
<1>2. conn' = [conn EXCEPT ![k] = c] /\ conn[k].at = "handling"
  BY <1>11
<1>3. ConnTyped
  BY DEF IInv
<1>4. conn[k] \in DeliveryConn /\ conn[k].daemon \in Daemons
  BY <1>2, <1>3 DEF ConnTyped, Carrying, Sessions
<1>5. c \in DeliveryConn
  BY <1>4 DEF DeliveryConn, Sessions, Unsent
<1>6. c.client = conn[k].client /\ c.daemon = conn[k].daemon /\ c.answer = answer
  BY <1>4 DEF DeliveryConn
<1> HIDE DEF c
<1>7. conn' \in [Connections -> DeliveryConn]
      /\ conn'[k] = c /\ \A j \in Connections \ {k} : conn'[j] = conn[j]
  BY <1>2, <1>3, <1>5 DEF ConnTyped
<1>8. ConnTyped'
  BY <1>3, <1>4, <1>6, <1>7 DEF ConnTyped
<1>9. AnswerInv'
  BY <1>6, <1>7, GrowthKeeps DEF IInv, AnswerInv
<1>10. \A j \in Connections :
         /\ conn'[j].client = conn[j].client
         /\ conn'[j].at \in Carrying => conn[j].at \in Carrying
  BY <1>2, <1>6, <1>7 DEF Carrying, Sessions
<1> QED
  BY <1>8, <1>9, <1>10, AttemptsStay

(* What an append does to a journal, or a failed one.                      *)
LEMMA AppendGrows ==
  ASSUME IInv, NEW s \in Storages, NEW rq \in Requests,
         store' \in {Appended(s, rq)} \cup AppendFailed(s, rq)
  PROVE  /\ StoreGrows /\ store' \in [Storages -> Store] /\ TornInv'
         /\ store' = Appended(s, rq) => Recorded(s, rq)'
<1>1. store \in [Storages -> Store] /\ TornInv /\ store[s] \in Store
  BY DEF IInv, StoreTyped
<1>2. ASSUME NEW now \in Store, store' = [store EXCEPT ![s] = now],
             store[s].records \subseteq now.records, store[s].everTorn => now.everTorn,
             now.torn => now.everTorn
      PROVE  StoreGrows /\ store' \in [Storages -> Store] /\ TornInv' /\ store'[s] = now
  <2>1. store' \in [Storages -> Store]
        /\ store'[s] = now /\ \A t \in Storages \ {s} : store'[t] = store[t]
    BY <1>1, <1>2
  <2> QED
    BY <1>1, <1>2, <2>1 DEF StoreGrows, TornInv
<1> DEFINE added == [store[s] EXCEPT !.records = @ \cup {rq}]
           lost == [store[s] EXCEPT !.failed = TRUE]
           part == [store[s] EXCEPT !.failed = TRUE, !.torn = TRUE, !.everTorn = TRUE]
           kept == [store[s] EXCEPT !.failed = TRUE, !.records = @ \cup {rq}]
<1>3. CASE store' = Appended(s, rq)
  <2>1. added \in Store
    BY <1>1 DEF Store
  <2>2. added.records = store[s].records \cup {rq} /\ added.torn = store[s].torn
        /\ added.everTorn = store[s].everTorn
    BY <1>1 DEF Store
  <2>3. store' = [store EXCEPT ![s] = added]
    BY <1>3 DEF Appended
  <2>4. StoreGrows /\ store' \in [Storages -> Store] /\ TornInv' /\ store'[s] = added
    <3> HIDE DEF added
    <3> QED
      BY <1>1, <1>2, <2>1, <2>2, <2>3 DEF TornInv
  <2>5. Recorded(s, rq)'
    BY <2>2, <2>4 DEF Recorded, SameDelivery
  <2> QED
    BY <2>4, <2>5
<1>4. CASE store' \in AppendFailed(s, rq) /\ store' # Appended(s, rq)
  <2>1. lost \in Store /\ part \in Store /\ kept \in Store
    BY <1>1 DEF Store
  <2>2. /\ lost.records = store[s].records /\ lost.torn = store[s].torn
        /\ lost.everTorn = store[s].everTorn
    BY <1>1 DEF Store
  <2>3. part.records = store[s].records /\ part.torn = TRUE /\ part.everTorn = TRUE
    BY <1>1 DEF Store
  <2>4. /\ kept.records = store[s].records \cup {rq} /\ kept.torn = store[s].torn
        /\ kept.everTorn = store[s].everTorn
    BY <1>1 DEF Store
  <2>5. \/ store' = [store EXCEPT ![s] = lost]
        \/ store' = [store EXCEPT ![s] = part]
        \/ store' = [store EXCEPT ![s] = kept]
    BY <1>1, <1>4 DEF AppendFailed
  <2> HIDE DEF lost, part, kept
  <2> QED
    BY <1>1, <1>2, <1>4, <2>1, <2>2, <2>3, <2>4, <2>5 DEF TornInv
<1> QED
  BY <1>3, <1>4

LEMMA HandleDeliveryStep ==
  ASSUME IInv, NEW k \in Connections, HandleDelivery(k)
  PROVE  IInv'
<1>1. conn[k].at = "handling"
  BY DEF HandleDelivery
<1>2. PICK s \in Storages, rq \in Requests : s = StorageOf[conn[k].daemon] /\ rq = request[k]
  <2>1. conn[k].daemon \in Daemons /\ request[k] \in Requests
    BY <1>1 DEF IInv, ConnTyped, StoreTyped, Carrying, Sessions
  <2> QED
    BY <2>1 DEF Storages
<1>3. store \in [Storages -> Store] /\ TornInv
  BY DEF IInv, StoreTyped
<1>4. UNCHANGED <<queue, flaw, via, tx, request>>
  BY DEF HandleDelivery
<1>5. store' = store => StoreGrows /\ store' \in [Storages -> Store] /\ TornInv'
  BY <1>3 DEF StoreGrows, TornInv
<1>6. CASE Refusal(s, rq) # "none" /\ Answered(k, Refusal(s, rq)) /\ UNCHANGED store
  <2>1. Refusal(s, rq) \in Answers \ {"success"}
    BY <1>6 DEF Refusal, ErrorClass, Answers
  <2>2. Refusal(s, rq) \in Refused => flaw[rq.id[1]] = "unparsable" \/ store[s].torn
    BY DEF Refusal, ErrorClass, Refused
  <2>3. store[s].torn => Torn'
    BY <1>2, <1>3, <1>6 DEF TornInv, Torn
  <2> DEFINE answer == Refusal(s, rq)
  <2>4. answer \in Answers \ {"success"} /\ Answered(k, answer)
    BY <1>6, <2>1
  <2>5. answer \in Refused => flaw[request[k].id[1]] = "unparsable" \/ Torn'
    BY <1>2, <2>2, <2>3
  <2> HIDE DEF answer
  <2> QED
    BY <1>4, <1>5, <1>6, <2>4, <2>5, AnsweredStep
<1>7. CASE Recorded(s, rq) /\ AnsweredBehindPass(k, "success") /\ UNCHANGED store
  <2>1. (\E t \in Storages : Recorded(t, request[k]))'
    BY <1>2, <1>4, <1>7 DEF Recorded, SameDelivery
  <2> QED
    BY <1>4, <1>5, <1>7, <2>1, AnsweredStep DEF Answers, Refused
<1>8. CASE AnsweredBehindPass(k, "success") /\ store' = Appended(s, rq)
  <2>1. StoreGrows /\ store' \in [Storages -> Store] /\ TornInv' /\ Recorded(s, rq)'
    BY <1>8, AppendGrows
  <2>2. (\E t \in Storages : Recorded(t, request[k]))'
    BY <1>2, <1>4, <2>1
  <2> QED
    BY <1>4, <1>8, <2>1, <2>2, AnsweredStep DEF Answers, Refused
<1>9. CASE Answered(k, ErrorClass("noSpace")) /\ store' \in AppendFailed(s, rq)
  <2>1. StoreGrows /\ store' \in [Storages -> Store] /\ TornInv'
    BY <1>9, AppendGrows
  <2>2. ErrorClass("noSpace") \in Answers \ (Refused \cup {"success"})
    BY DEF ErrorClass, Answers, Refused
  <2> QED
    BY <1>4, <1>9, <2>1, <2>2, AnsweredStep
<1> QED
  BY <1>2, <1>6, <1>7, <1>8, <1>9 DEF HandleDelivery

-----------------------------------------------------------------------------
(* An attempt                                                              *)

LEMMA AttemptMoves ==
  ASSUME IInv, NEW q \in Entries, NEW t \in Attempts(q), Try(q, t), InOrder(q, t), Truthful(q, t),
         UNCHANGED <<flaw, via, store>>
  PROVE  /\ TxTyped' /\ AttemptInv' /\ ReplyInv' /\ TornInv'
         /\ tx'[q] = t /\ \A p \in Entries \ {q} : tx'[p] = tx[p]
<1>1. DOMAIN tx' = Entries /\ tx'[q] = t /\ \A p \in Entries \ {q} : tx'[p] = tx[p]
  BY DEF Try, IInv, TxTyped
<1>2. TxTyped'
  BY <1>1 DEF IInv, TxTyped
<1>3. AttemptInv'
  BY <1>1 DEF IInv, AttemptInv, InOrder
<1>4. ReplyInv'
  <2>1. \A p \in Entries : Truthful(p, tx'[p])
    BY <1>1 DEF IInv, ReplyInv
  <2>2. \A p, x : HasRecord(p, x)' <=> HasRecord(p, x)
    BY DEF HasRecord, RecordsOf
  <2>3. Torn' <=> Torn
    BY DEF Torn
  <2> QED
    BY <2>1, <2>2, <2>3 DEF ReplyInv, Truthful, AtFault
<1> QED
  BY <1>1, <1>2, <1>3, <1>4 DEF IInv, TornInv

LEMMA LocalStep ==
  ASSUME IInv, NEW q \in Entries, NEW t \in Attempts(q), Try(q, t), InOrder(q, t), Truthful(q, t),
         t.pc # "wait", UNCHANGED <<serverVars, queue, flaw, via, request, store>>
  PROVE  IInv'
<1>1. /\ TxTyped' /\ AttemptInv' /\ ReplyInv' /\ TornInv'
      /\ tx'[q] = t /\ \A p \in Entries \ {q} : tx'[p] = tx[p]
  BY AttemptMoves
<1>2. conn' = conn
  BY DEF serverVars
<1>3. QueueTyped' /\ ConnTyped' /\ StoreTyped'
  BY <1>2 DEF IInv, QueueTyped, ConnTyped, StoreTyped
<1>4. WaitInv'
  BY <1>1, <1>2 DEF IInv, WaitInv, Request
<1>5. AnswerInv'
  BY <1>2 DEF IInv, AnswerInv, Recorded, SameDelivery, Torn
<1>6. SentIsRecorded' /\ BouncedIsRefusedUnlessTorn'
  BY DEF IInv, SentIsRecorded, RecordsOf, BouncedIsRefusedUnlessTorn, BouncedIsRefused
<1> QED
  BY <1>1, <1>3, <1>4, <1>5, <1>6 DEF IInv

(* One reply for each recipient that is listed. *)
LEMMA ToEachTyped ==
  ASSUME NEW q, NEW t \in Attempts(q), t.replies = << >>, NEW reply \in Replies
  PROVE  /\ ToEach(t, reply) \in Seq(Replies) /\ Len(ToEach(t, reply)) = Len(t.listed)
         /\ \A i \in DOMAIN ToEach(t, reply) : ToEach(t, reply)[i] = reply
<1>1. t.listed \in Seq(To(q)) /\ Len(t.listed) \in Nat /\ DOMAIN t.listed = 1 .. Len(t.listed)
  BY DEF Attempts
<1> DEFINE each == [i \in DOMAIN t.listed |-> reply]
<1>2. each \in Seq(Replies) /\ Len(each) = Len(t.listed)
  <2>1. each \in [1 .. Len(t.listed) -> Replies]
    BY <1>1
  <2>2. DOMAIN each = 1 .. Len(t.listed)
    BY <1>1
  <2> QED
    BY <1>1, <2>1, <2>2, SeqDef, SMT
<1>3. \A i \in DOMAIN each : each[i] = reply
  OBVIOUS
<1> HIDE DEF each
<1>4. << >> \o each = each
  BY <1>2
<1>5. ToEach(t, reply) = each
  BY <1>4 DEF ToEach, each
<1> QED
  BY <1>2, <1>3, <1>5

(* A message that the pipe helper refuses by itself is put off for all its *)
(* recipients.                                                             *)
LEMMA BeginStep ==
  ASSUME IInv, NEW q \in Entries, Begin(q),
         UNCHANGED <<serverVars, queue, flaw, via, request, store>>
  PROVE  IInv'
<1>1. tx[q] \in Attempts(q) /\ tx[q].replies = << >> /\ tx[q].accepted = tx[q].listed
  BY DEF Begin, IInv, TxTyped, AttemptInv, InOrder
<1>2. Recipients[q] \in Seq(To(q))
  BY DeliveryAssumption DEF To
<1>3. Len(Recipients[q]) > 0
  <2>1. PICK r \in DOMAIN queue[q] : TRUE
    BY DEF Begin, Open
  <2>2. r \in To(q)
    BY <2>1 DEF IInv, QueueTyped
  <2>3. PICK i \in DOMAIN Recipients[q] : TRUE
    BY <2>2 DEF To, Members
  <2> QED
    BY <1>2, <2>3
<1> DEFINE t == Started(q)
<1>4. /\ t \in Attempts(q) /\ t.replies = << >> /\ t.accepted = t.listed
      /\ t.pc = (IF via[q] # "pipe" THEN "dialogue" ELSE "send")
      /\ via[q] = "pipe" => t.listed = Recipients[q]
  <2> DEFINE count == tx[q].tries + 1
  <2>1. count \in Nat
    BY <1>1 DEF Attempts
  <2>2. t = IF via[q] # "pipe" THEN [tx[q] EXCEPT !.pc = "dialogue", !.tries = count]
            ELSE [tx[q] EXCEPT !.pc = "send", !.tries = count,
                               !.listed = Recipients[q], !.accepted = Recipients[q]]
    BY DEF Started
  <2> HIDE DEF t, count
  <2> QED
    BY <1>1, <1>2, <2>1, <2>2 DEF Attempts
<1> HIDE DEF t
<1>5. CASE Try(q, t) /\ t.pc = "dialogue"
  <2>1. InOrder(q, t) /\ Truthful(q, t)
    BY <1>4, <1>5 DEF InOrder, Truthful
  <2> QED
    BY <1>4, <1>5, <2>1, LocalStep
<1>6. CASE Try(q, t) /\ t.pc = "send"
  <2>1. InOrder(q, t) /\ Truthful(q, t)
    BY <1>2, <1>3, <1>4, <1>6 DEF InOrder, Truthful
  <2> QED
    BY <1>4, <1>6, <2>1, LocalStep
<1>7. CASE Try(q, [t EXCEPT !.pc = "done", !.replies = ToEach(t, "4xx")])
  <2> DEFINE each == ToEach(t, "4xx")
             u == [t EXCEPT !.pc = "done", !.replies = each]
  <2>1. each \in Seq(Replies) /\ \A i \in DOMAIN each : each[i] = "4xx"
    BY <1>4, ToEachTyped DEF Replies
  <2>2. Try(q, u)
    BY <1>7
  <2> HIDE DEF each
  <2>3. u \in Attempts(q)
    BY <1>4, <2>1 DEF Attempts
  <2>4. u.pc = "done" /\ u.replies = each /\ u.accepted = u.listed
    BY <1>4 DEF Attempts
  <2> HIDE DEF u
  <2>5. InOrder(q, u) /\ Truthful(q, u)
    BY <2>1, <2>4 DEF InOrder, Truthful
  <2> QED
    BY <2>2, <2>3, <2>4, <2>5, LocalStep
<1> QED
  BY <1>4, <1>5, <1>6, <1>7 DEF Begin, t

LEMMA DialogueStep ==
  ASSUME IInv, NEW q \in Entries, Mail(q) \/ Rcpt(q) \/ Rset(q),
         UNCHANGED <<serverVars, queue, flaw, via, request, store>>
  PROVE  IInv'
<1>1. /\ tx[q] \in Attempts(q) /\ tx[q].replies = << >> /\ tx[q].accepted = tx[q].listed
      /\ tx[q].pc = "dialogue"
  BY DEF Mail, Rcpt, Rset, IInv, TxTyped, AttemptInv, InOrder
<1>2. ASSUME NEW t \in Attempts(q), Try(q, t), t.pc = "dialogue", t.replies = << >>,
             t.accepted = t.listed
      PROVE  IInv'
  <2>1. InOrder(q, t) /\ Truthful(q, t) /\ t.pc # "wait"
    BY <1>2 DEF InOrder, Truthful
  <2> QED
    BY <1>2, <2>1, LocalStep
<1>3. CASE Mail(q)
  <2> DEFINE t == [tx[q] EXCEPT !.mail = TRUE]
  <2>1. t \in Attempts(q)
    BY <1>1 DEF Attempts
  <2>2. t.pc = "dialogue" /\ t.replies = << >> /\ t.accepted = t.listed
    BY <1>1 DEF Attempts
  <2>3. Try(q, t)
    BY <1>3 DEF Mail
  <2> HIDE DEF t
  <2> QED
    BY <1>2, <2>1, <2>2, <2>3
<1>4. CASE Rcpt(q)
  <2>1. PICK i \in Unnamed(q) :
          Try(q, [tx[q] EXCEPT !.listed = Append(@, Recipients[q][i]),
                               !.accepted = Append(@, Recipients[q][i])])
    BY <1>4 DEF Rcpt
  <2>2. PICK r \in To(q) : r = Recipients[q][i]
    BY <2>1 DEF Unnamed, To, Members
  <2> DEFINE t == [tx[q] EXCEPT !.listed = Append(@, r), !.accepted = Append(@, r)]
  <2>3. t \in Attempts(q)
    <3>1. tx[q].listed \in Seq(To(q))
      BY <1>1 DEF Attempts
    <3>2. Append(tx[q].listed, r) \in Seq(To(q))
      BY <3>1
    <3> DEFINE named == Append(tx[q].listed, r)
    <3>3. t = [tx[q] EXCEPT !.listed = named, !.accepted = named]
      BY <1>1
    <3> HIDE DEF named
    <3> QED
      BY <1>1, <3>2, <3>3 DEF Attempts, named
  <2>4. t.pc = "dialogue" /\ t.replies = << >> /\ t.accepted = t.listed
    BY <1>1 DEF Attempts
  <2>5. Try(q, t)
    BY <2>1, <2>2
  <2> HIDE DEF t
  <2> QED
    BY <1>2, <2>3, <2>4, <2>5
<1>5. CASE Rset(q)
  <2> DEFINE t == [ResetTransaction(tx[q]) EXCEPT !.accepted = << >>]
  <2>1. t \in Attempts(q)
    <3>1. << >> \in Seq(To(q))
      OBVIOUS
    <3>2. ResetTransaction(tx[q]) \in Attempts(q)
      BY <1>1, <3>1 DEF Attempts, ResetTransaction
    <3> HIDE DEF ResetTransaction
    <3> QED
      BY <3>1, <3>2 DEF Attempts
  <2>2. t.pc = "dialogue" /\ t.replies = << >> /\ t.accepted = t.listed
    BY <1>1 DEF Attempts, ResetTransaction
  <2>3. Try(q, t)
    BY <1>5 DEF Rset
  <2> HIDE DEF t
  <2> QED
    BY <1>2, <2>1, <2>2, <2>3
<1> QED
  BY <1>3, <1>4, <1>5

(* A message that is too large is refused to each recipient, and an empty  *)
(* one put off; any other is handed on.                                    *)
LEMMA DataStep ==
  ASSUME IInv, NEW q \in Entries, Data(q),
         UNCHANGED <<serverVars, queue, flaw, via, request, store>>
  PROVE  IInv'
<1>1. /\ tx[q] \in Attempts(q) /\ tx[q].replies = << >> /\ tx[q].accepted = tx[q].listed
      /\ Len(tx[q].listed) > 0
  <2>1. /\ tx[q] \in Attempts(q) /\ tx[q].replies = << >> /\ tx[q].accepted = tx[q].listed
        /\ tx[q].listed # << >>
    BY DEF Data, IInv, TxTyped, AttemptInv, InOrder
  <2>2. tx[q].listed \in Seq(To(q))
    BY <2>1 DEF Attempts
  <2> QED
    BY <2>1, <2>2
<1>2. ASSUME NEW reply \in {"5xx", "4xx"}, reply = "5xx" => AtFault(q),
             Try(q, [tx[q] EXCEPT !.pc = "done", !.replies = ToEach(tx[q], reply)])
      PROVE  IInv'
  <2> DEFINE each == ToEach(tx[q], reply)
             t == [tx[q] EXCEPT !.pc = "done", !.replies = each]
  <2>1. each \in Seq(Replies) /\ \A i \in DOMAIN each : each[i] = reply
    BY <1>1, <1>2, ToEachTyped DEF Replies
  <2>2. Try(q, t)
    BY <1>2
  <2> HIDE DEF each
  <2>3. t \in Attempts(q)
    BY <1>1, <2>1 DEF Attempts
  <2>4. t.pc = "done" /\ t.replies = each /\ t.accepted = t.listed
    BY <1>1 DEF Attempts
  <2> HIDE DEF t
  <2>5. InOrder(q, t) /\ Truthful(q, t)
    BY <1>2, <2>1, <2>4 DEF InOrder, Truthful
  <2> QED
    BY <2>2, <2>3, <2>4, <2>5, LocalStep
<1>3. CASE Try(q, [tx[q] EXCEPT !.pc = "send"])
  <2> DEFINE t == [tx[q] EXCEPT !.pc = "send"]
  <2>1. t \in Attempts(q)
    BY <1>1 DEF Attempts
  <2>2. t.pc = "send" /\ t.replies = << >> /\ t.accepted = t.listed /\ t.listed = tx[q].listed
    BY <1>1 DEF Attempts
  <2> HIDE DEF t
  <2>3. InOrder(q, t) /\ Truthful(q, t)
    BY <1>1, <2>2 DEF InOrder, Truthful
  <2> QED
    BY <1>3, <2>1, <2>2, <2>3, LocalStep DEF t
<1> QED
  BY <1>2, <1>3 DEF Data, AtFault

-----------------------------------------------------------------------------
(* Requests and replies                                                    *)

(* A reply that is true of the recipients it is written for.               *)
LEMMA RepliedTruthfully ==
  ASSUME IInv, NEW q \in Entries, tx[q].pc \in {"send", "wait"}, NEW reply \in Replies,
         reply = "2xx" => \A i \in DOMAIN tx[q].listed :
                            via[q] = "pipe" \/ i = Len(tx[q].replies) + 1 => HasRecord(q, tx[q].listed[i]),
         reply = "5xx" => AtFault(q) \/ Torn
  PROVE  /\ Replied(q, reply) \in Attempts(q) /\ Replied(q, reply).pc # "wait"
         /\ InOrder(q, Replied(q, reply)) /\ Truthful(q, Replied(q, reply))
<1>1. /\ tx[q] \in Attempts(q) /\ tx[q].accepted = tx[q].listed
      /\ Len(tx[q].replies) < Len(tx[q].listed)
      /\ via[q] = "pipe" => tx[q].replies = << >>
      /\ Truthful(q, tx[q])
  BY DEF IInv, TxTyped, AttemptInv, InOrder, ReplyInv
<1>2. /\ tx[q].replies \in Seq(Replies) /\ tx[q].listed \in Seq(To(q))
  BY <1>1 DEF Attempts
<1> DEFINE rs == IF via[q] = "pipe" THEN ToEach(tx[q], reply) ELSE Append(tx[q].replies, reply)
<1>3. /\ rs \in Seq(Replies)
      /\ \/ Len(rs) = Len(tx[q].listed)
         \/ /\ Len(rs) = Len(tx[q].replies) + 1
            /\ Len(rs) <= Len(tx[q].listed) /\ via[q] # "pipe"
  <2>1. CASE via[q] = "pipe"
    BY <1>1, <2>1, ToEachTyped
  <2>2. CASE via[q] # "pipe"
    BY <1>1, <1>2, <2>2
  <2> QED
    BY <2>1, <2>2
<1>4. \A i \in DOMAIN rs :
        /\ rs[i] = "2xx" => HasRecord(q, tx[q].listed[i])
        /\ rs[i] = "5xx" => AtFault(q) \/ Torn
  <2>1. CASE via[q] = "pipe"
    <3>1. /\ rs \in Seq(Replies) /\ Len(rs) = Len(tx[q].listed)
          /\ \A i \in DOMAIN rs : rs[i] = reply
      BY <1>1, <2>1, ToEachTyped
    <3>2. DOMAIN rs = DOMAIN tx[q].listed
      BY <1>2, <3>1
    <3> HIDE DEF rs
    <3> QED
      BY <2>1, <3>1, <3>2
  <2>2. CASE via[q] # "pipe"
    <3>1. \A i \in DOMAIN rs :
            \/ i \in DOMAIN tx[q].replies /\ rs[i] = tx[q].replies[i]
            \/ i = Len(tx[q].replies) + 1 /\ rs[i] = reply
      BY <1>2, <2>2
    <3>2. Len(tx[q].replies) + 1 \in DOMAIN tx[q].listed
      BY <1>1, <1>2
    <3> HIDE DEF rs
    <3> QED
      BY <1>1, <3>1, <3>2 DEF Truthful
  <2> QED
    BY <2>1, <2>2
<1> DEFINE next == IF Len(rs) = Len(tx[q].listed) THEN "done" ELSE "send"
           t == [tx[q] EXCEPT !.replies = rs, !.conn = Nobody, !.pc = next]
<1>5. Replied(q, reply) = t
  BY DEF Replied
<1>6. /\ next \in {"done", "send"}
      /\ next = "send" => Len(rs) < Len(tx[q].listed) /\ via[q] # "pipe"
  <2>1. Len(rs) \in Nat /\ Len(tx[q].listed) \in Nat
    BY <1>2, <1>3
  <2> HIDE DEF rs
  <2> QED
    BY <1>3, <2>1
<1> HIDE DEF rs, next
<1>7. t \in Attempts(q)
  BY <1>1, <1>3, <1>6 DEF Attempts
<1>8. /\ t.pc = next /\ t.replies = rs
      /\ t.listed = tx[q].listed /\ t.accepted = tx[q].accepted
  BY <1>1 DEF Attempts
<1> HIDE DEF t
<1>9. InOrder(q, t)
  BY <1>1, <1>6, <1>8 DEF InOrder
<1>10. Truthful(q, t)
  BY <1>1, <1>4, <1>8 DEF Truthful
<1> QED
  BY <1>5, <1>6, <1>7, <1>8, <1>9, <1>10

LEMMA SendFailsStep ==
  ASSUME IInv, NEW q \in Entries, SendFails(q),
         UNCHANGED <<serverVars, queue, flaw, via, request, store>>
  PROVE  IInv'
<1>1. Reply(Nobody) = "4xx"
  BY DeliveryAssumption DEF Reply, ReplyForError, Answers
<1> DEFINE t == Replied(q, "4xx")
<1>2. t \in Attempts(q) /\ t.pc # "wait" /\ InOrder(q, t) /\ Truthful(q, t)
  BY RepliedTruthfully DEF SendFails, Replies
<1>3. Try(q, t)
  BY <1>1 DEF SendFails
<1> HIDE DEF t
<1> QED
  BY <1>2, <1>3, LocalStep

(* A request names its entry, and the recipients it is for.                *)
LEMMA RequestTyped ==
  ASSUME IInv, NEW q \in Entries, tx[q].pc \in {"send", "wait"}
  PROVE  /\ Request(q) \in Requests /\ Request(q).id[1] = q
         /\ \A i \in DOMAIN tx[q].listed :
              via[q] = "pipe" \/ i = Len(tx[q].replies) + 1 => tx[q].listed[i] \in Members(Request(q).to)
<1>1. tx[q] \in Attempts(q) /\ Len(tx[q].replies) < Len(tx[q].listed)
  BY DEF IInv, TxTyped, AttemptInv, InOrder
<1>2. /\ Len(tx[q].replies) \in Nat /\ tx[q].listed \in Seq(To(q))
  BY <1>1 DEF Attempts
<1>3. To(q) \subseteq AllTo
  BY DEF AllTo
<1>4. tx[q].listed \in Seq(AllTo)
  BY <1>2, <1>3
<1>5. CASE via[q] = "pipe"
  <2>1. Request(q) = [id |-> <<q, 0>>, to |-> tx[q].listed]
    BY <1>5 DEF Request
  <2> QED
    BY <1>4, <2>1 DEF Requests, Members
<1>6. CASE via[q] # "pipe"
  <2> DEFINE n == Len(tx[q].replies) + 1
  <2>1. Request(q) = [id |-> <<q, n>>, to |-> <<tx[q].listed[n]>>]
    BY <1>6 DEF Request
  <2>2. n \in Nat /\ n \in DOMAIN tx[q].listed
    BY <1>1, <1>2
  <2>3. tx[q].listed[n] \in AllTo
    BY <1>4, <2>2
  <2>4. <<tx[q].listed[n]>> \in Seq(AllTo) /\ <<q, n>> \in Entries \X Nat
    BY <2>2, <2>3
  <2>5. tx[q].listed[n] \in Members(<<tx[q].listed[n]>>)
    BY DEF Members
  <2> QED
    BY <1>6, <2>1, <2>2, <2>4, <2>5 DEF Requests
<1> QED
  BY <1>5, <1>6

(* A request is sent on a connection nobody uses. *)
LEMMA SendStep ==
  ASSUME IInv, NEW q \in Entries, NEW k \in Connections, Send(q, k)
  PROVE  IInv'
<1> DEFINE t == [tx[q] EXCEPT !.pc = "wait", !.conn = k]
<1>1. tx[q] \in Attempts(q) /\ tx[q].pc = "send" /\ InOrder(q, tx[q]) /\ Truthful(q, tx[q])
  BY DEF Send, IInv, TxTyped, AttemptInv, ReplyInv
<1>2. t \in Attempts(q)
  BY <1>1 DEF Attempts
<1>3. /\ t.pc = "wait" /\ t.conn = k /\ t.listed = tx[q].listed /\ t.accepted = tx[q].accepted
      /\ t.replies = tx[q].replies
  BY <1>1 DEF Attempts
<1>4. Try(q, t) /\ UNCHANGED <<queue, flaw, via, store>> /\ request' = [request EXCEPT ![k] = Request(q)]
  BY DEF Send
<1> HIDE DEF t
<1>5. InOrder(q, t) /\ Truthful(q, t)
  BY <1>1, <1>3 DEF InOrder, Truthful
<1>6. /\ TxTyped' /\ AttemptInv' /\ ReplyInv' /\ TornInv'
      /\ tx'[q] = t /\ \A p \in Entries \ {q} : tx'[p] = tx[p]
  BY <1>2, <1>4, <1>5, AttemptMoves
<1>7. PICK d \in Daemons :
        conn' = [conn EXCEPT ![k] = [Unused EXCEPT !.at = "queued", !.daemon = d,
                                                   !.client = q, !.sent = TRUE]]
  BY DEF Send, Connect
<1>8. conn[k] = Unused
  BY DEF Send, Connect
<1> DEFINE c == [Unused EXCEPT !.at = "queued", !.daemon = d, !.client = q, !.sent = TRUE]
<1>9. c \in DeliveryConn /\ c.at = "queued" /\ c.daemon = d /\ c.client = q /\ c.answer = Nobody
  BY DEF Unused, DeliveryConn
<1>10. conn \in [Connections -> DeliveryConn]
  BY DEF IInv, ConnTyped
<1> HIDE DEF c
<1>11. /\ conn' \in [Connections -> DeliveryConn]
       /\ conn'[k] = c /\ \A j \in Connections \ {k} : conn'[j] = conn[j]
  BY <1>7, <1>9, <1>10 DEF c
<1>12. /\ DOMAIN request' = Connections /\ request'[k] = Request(q)
       /\ \A j \in Connections \ {k} : request'[j] = request[j]
  BY <1>4 DEF IInv, StoreTyped
<1>13. QueueTyped' /\ ConnTyped'
  BY <1>4, <1>9, <1>11 DEF IInv, QueueTyped, ConnTyped
<1>14. StoreTyped'
  <2>1. Request(q) \in Requests
    BY <1>1, RequestTyped
  <2> QED
    BY <1>4, <1>11, <1>12, <2>1 DEF IInv, StoreTyped
<1>15. WaitInv'
  <2>1. ASSUME NEW p \in Entries, p # q, tx'[p].pc = "wait"
        PROVE  /\ tx'[p].conn \in Connections /\ conn'[tx'[p].conn].client = p
               /\ request'[tx'[p].conn] = Request(p)'
    <3>1. /\ tx'[p] = tx[p] /\ tx[p].conn \in Connections /\ conn[tx[p].conn].client = p
          /\ request[tx[p].conn] = Request(p)
      BY <1>6, <2>1 DEF IInv, WaitInv
    <3>2. Unused.client = Nobody /\ p # Nobody
      BY DeliveryAssumption DEF Unused
    <3>3. tx[p].conn # k
      BY <1>8, <3>1, <3>2
    <3>4. Request(p)' = Request(p)
      BY <1>4, <3>1 DEF Request
    <3> QED
      BY <1>11, <1>12, <3>1, <3>3, <3>4
  <2>2. Request(q)' = Request(q)
    BY <1>3, <1>4, <1>6 DEF Request
  <2>3. tx'[q].conn \in Connections /\ conn'[tx'[q].conn].client = q
        /\ request'[tx'[q].conn] = Request(q)'
    BY <1>3, <1>6, <1>9, <1>11, <1>12, <2>2
  <2> QED
    BY <2>1, <2>3 DEF WaitInv
<1>16. AnswerInv'
  <2>1. c.answer # "success" /\ c.answer \notin Refused
    BY <1>9, DeliveryAssumption DEF Answers, Refused
  <2>2. \A rq : (\E s \in Storages : Recorded(s, rq)) => (\E s \in Storages : Recorded(s, rq))'
    BY <1>4 DEF Recorded, SameDelivery
  <2>3. Torn => Torn'
    BY <1>4 DEF Torn
  <2> QED
    BY <1>4, <1>11, <1>12, <2>1, <2>2, <2>3 DEF IInv, AnswerInv
<1>17. SentIsRecorded' /\ BouncedIsRefusedUnlessTorn'
  BY <1>4 DEF IInv, SentIsRecorded, RecordsOf, BouncedIsRefusedUnlessTorn, BouncedIsRefused
<1> QED
  BY <1>6, <1>13, <1>14, <1>15, <1>16, <1>17 DEF IInv

(* What is received was answered to this request, or nothing was.          *)
LEMMA ReceiveStep ==
  ASSUME IInv, NEW q \in Entries, Receive(q)
  PROVE  IInv'
<1>1. PICK k \in Connections :
        /\ k = tx[q].conn /\ tx[q].pc = "wait" /\ conn[k].client = q /\ request[k] = Request(q)
  BY DEF Receive, IInv, WaitInv
<1>2. PICK answer \in Answers \cup {Nobody} : answer = conn[k].answer
  <2>1. conn[k] \in DeliveryConn
    BY DEF IInv, ConnTyped
  <2> QED
    BY <2>1 DEF DeliveryConn
<1>3. PICK reply \in Replies :
        /\ reply = Reply(answer)
        /\ reply = "2xx" => answer = "success"
        /\ reply = "5xx" => answer \in Refused
  BY DEF Reply, ReplyForError, Replies, Refused
<1>4. /\ Request(q).id[1] = q
      /\ \A i \in DOMAIN tx[q].listed :
            via[q] = "pipe" \/ i = Len(tx[q].replies) + 1
              => tx[q].listed[i] \in Members(Request(q).to)
  BY <1>1, RequestTyped
<1>5. ASSUME reply = "2xx", NEW i \in DOMAIN tx[q].listed,
             via[q] = "pipe" \/ i = Len(tx[q].replies) + 1
      PROVE  HasRecord(q, tx[q].listed[i])
  <2>1. PICK s \in Storages : Recorded(s, request[k])
    BY <1>2, <1>3, <1>5 DEF IInv, AnswerInv
  <2>2. PICK rec \in store[s].records : rec.id = Request(q).id /\ rec.to = Request(q).to
    BY <1>1, <2>1 DEF Recorded, SameDelivery
  <2>3. rec.id[1] = q /\ tx[q].listed[i] \in Members(rec.to)
    BY <1>4, <1>5, <2>2
  <2> QED
    BY <2>3 DEF HasRecord, RecordsOf
<1>6. reply = "5xx" => AtFault(q) \/ Torn
  BY <1>1, <1>2, <1>3, <1>4 DEF IInv, AnswerInv, AtFault
<1> DEFINE t == Replied(q, reply)
<1>7. t \in Attempts(q) /\ t.pc # "wait" /\ InOrder(q, t) /\ Truthful(q, t)
  BY <1>1, <1>5, <1>6, RepliedTruthfully
<1>8. Try(q, t) /\ UNCHANGED <<queue, flaw, via, request, store>>
  BY <1>1, <1>2, <1>3 DEF Receive
<1> HIDE DEF t
<1>9. /\ TxTyped' /\ AttemptInv' /\ ReplyInv' /\ TornInv'
      /\ tx'[q] = t /\ \A p \in Entries \ {q} : tx'[p] = tx[p]
  BY <1>7, <1>8, AttemptMoves
<1> DEFINE c == [conn[k] EXCEPT !.client = Nobody, !.answer = Nobody]
<1>10. conn' = [conn EXCEPT ![k] = c]
  BY <1>1 DEF Receive, Disconnect
<1>11. conn \in [Connections -> DeliveryConn]
  BY DEF IInv, ConnTyped
<1>12. c \in DeliveryConn
  BY <1>11 DEF DeliveryConn
<1>13. c.answer = Nobody /\ c.at = conn[k].at /\ c.daemon = conn[k].daemon
  BY <1>11 DEF DeliveryConn
<1> HIDE DEF c
<1>14. /\ conn' \in [Connections -> DeliveryConn]
       /\ conn'[k] = c /\ \A j \in Connections \ {k} : conn'[j] = conn[j]
  BY <1>10, <1>11, <1>12
<1>15. QueueTyped' /\ ConnTyped' /\ StoreTyped'
  BY <1>8, <1>13, <1>14 DEF IInv, QueueTyped, ConnTyped, StoreTyped
<1>16. WaitInv'
  <2>1. ASSUME NEW p \in Entries, tx'[p].pc = "wait"
        PROVE  /\ tx'[p].conn \in Connections /\ conn'[tx'[p].conn].client = p
               /\ request'[tx'[p].conn] = Request(p)'
    <3>1. p # q
      BY <1>7, <1>9, <2>1
    <3>2. /\ tx'[p] = tx[p] /\ tx[p].conn \in Connections /\ conn[tx[p].conn].client = p
          /\ request[tx[p].conn] = Request(p)
      BY <1>9, <2>1, <3>1 DEF IInv, WaitInv
    <3>3. Request(p)' = Request(p)
      BY <1>8, <3>2 DEF Request
    <3> QED
      BY <1>1, <1>8, <1>14, <3>1, <3>2, <3>3
  <2> QED
    BY <2>1 DEF WaitInv
<1>17. AnswerInv'
  <2>1. c.answer # "success" /\ c.answer \notin Refused
    BY <1>13, DeliveryAssumption DEF Answers, Refused
  <2>2. \A rq : (\E s \in Storages : Recorded(s, rq)) => (\E s \in Storages : Recorded(s, rq))'
    BY <1>8 DEF Recorded, SameDelivery
  <2>3. Torn => Torn'
    BY <1>8 DEF Torn
  <2> QED
    BY <1>8, <1>14, <2>1, <2>2, <2>3 DEF IInv, AnswerInv
<1>18. SentIsRecorded' /\ BouncedIsRefusedUnlessTorn'
  BY <1>8 DEF IInv, SentIsRecorded, RecordsOf, BouncedIsRefusedUnlessTorn, BouncedIsRefused
<1> QED
  BY <1>9, <1>15, <1>16, <1>17, <1>18 DEF IInv

(* What Postfix concludes from the replies it read.                        *)
LEMMA LeaveStep ==
  ASSUME IInv, NEW q \in Entries, NEW n \in 0 .. Len(tx[q].replies), Leave(q, n)
  PROVE  IInv'
<1>1. tx[q] \in Attempts(q) /\ Truthful(q, tx[q])
  BY DEF IInv, TxTyped, ReplyInv
<1>2. /\ tx[q].replies \in Seq(Replies) /\ tx[q].tries \in Nat
      /\ 1 .. n \subseteq DOMAIN tx[q].replies
  BY <1>1 DEF Attempts
<1> DEFINE t == [Idle EXCEPT !.tries = tx[q].tries]
<1>3. t \in Attempts(q) /\ t.pc = "idle" /\ t.replies = << >> /\ t.accepted = t.listed
  <2>1. << >> \in Seq(To(q)) /\ << >> \in Seq(Replies)
    OBVIOUS
  <2> QED
    BY <1>2, <2>1 DEF Attempts, Idle
<1>4. Try(q, t) /\ UNCHANGED <<flaw, via, request, store>>
  BY DEF Leave
<1> HIDE DEF t
<1>5. InOrder(q, t) /\ Truthful(q, t)
  BY <1>3 DEF InOrder, Truthful
<1>6. /\ TxTyped' /\ AttemptInv' /\ ReplyInv' /\ TornInv'
      /\ tx'[q] = t /\ \A p \in Entries \ {q} : tx'[p] = tx[p]
  BY <1>3, <1>4, <1>5, AttemptMoves
<1> DEFINE told(r) == \E i \in 1 .. n : tx[q].accepted[i] = r
           reply(r) == tx[q].replies[CHOOSE i \in 1 .. n : tx[q].accepted[i] = r]
           now == [r \in DOMAIN queue[q] |-> IF told(r) THEN Outcome(reply(r)) ELSE queue[q][r]]
<1>7. queue' = [queue EXCEPT ![q] = now]
  BY DEF Leave
<1>8. queue[q] \in [To(q) -> {"queued", "sent", "bounced"}] /\ DOMAIN queue = Entries
  BY DEF IInv, QueueTyped
<1>9. ASSUME NEW r, told(r)
      PROVE  /\ reply(r) = "2xx" => HasRecord(q, r)
             /\ reply(r) = "5xx" => AtFault(q) \/ Torn
  <2> DEFINE i == CHOOSE j \in 1 .. n : tx[q].accepted[j] = r
  <2>1. i \in 1 .. n /\ tx[q].accepted[i] = r
    BY <1>9
  <2>2. reply(r) = tx[q].replies[i]
    OBVIOUS
  <2> HIDE DEF i, reply
  <2> QED
    BY <1>1, <1>2, <2>1, <2>2 DEF Truthful
<1> HIDE DEF told, reply
<1>10. now \in [To(q) -> {"queued", "sent", "bounced"}]
  BY <1>8 DEF Outcome
<1>11. \A r \in To(q) :
         /\ now[r] = "sent" => queue[q][r] = "sent" \/ HasRecord(q, r)
         /\ now[r] = "bounced" => queue[q][r] = "bounced" \/ AtFault(q) \/ Torn
  BY <1>8, <1>9 DEF Outcome
<1> HIDE DEF now
<1>12. QueueTyped' /\ queue'[q] = now /\ \A p \in Entries \ {q} : queue'[p] = queue[p]
  BY <1>7, <1>8, <1>10 DEF IInv, QueueTyped
<1>13. DOMAIN now = To(q) /\ DOMAIN queue[q] = To(q)
  BY <1>8, <1>10
<1>14. SentIsRecorded'
  <2>1. \A p, r : HasRecord(p, r) => HasRecord(p, r)'
    BY <1>4 DEF HasRecord, RecordsOf
  <2>2. \A p \in Entries : \A r \in DOMAIN queue'[p] : queue'[p][r] = "sent" => HasRecord(p, r)
    BY <1>11, <1>12, <1>13 DEF IInv, SentIsRecorded, HasRecord
  <2> QED
    BY <2>1, <2>2 DEF SentIsRecorded, HasRecord
<1>15. BouncedIsRefusedUnlessTorn'
  <2>1. Torn \/ \A p \in Entries : \A r \in DOMAIN queue'[p] : queue'[p][r] = "bounced" => AtFault(p)
    BY <1>11, <1>12, <1>13 DEF IInv, BouncedIsRefusedUnlessTorn, BouncedIsRefused, Torn, AtFault
  <2> QED
    BY <1>4, <2>1 DEF BouncedIsRefusedUnlessTorn, BouncedIsRefused, Torn, AtFault
<1>16. conn' = [k \in Connections |-> IF conn[k].client # q THEN conn[k]
                                      ELSE [conn[k] EXCEPT !.client = Nobody]]
  BY DEF Leave
<1>17. \A k \in Connections : conn[k] \in DeliveryConn
  BY DEF IInv, ConnTyped
<1>18. \A k \in Connections : [conn[k] EXCEPT !.client = Nobody] \in DeliveryConn
  BY <1>17 DEF DeliveryConn
<1>19. \A k \in Connections :
         /\ conn'[k].at = conn[k].at /\ conn'[k].daemon = conn[k].daemon
         /\ conn'[k].answer = conn[k].answer
         /\ conn[k].client # q => conn'[k] = conn[k]
  BY <1>16, <1>17 DEF DeliveryConn
<1>20. conn' \in [Connections -> DeliveryConn]
  BY <1>16, <1>17, <1>18
<1>21. ConnTyped' /\ StoreTyped'
  BY <1>4, <1>19, <1>20 DEF IInv, ConnTyped, StoreTyped
<1>22. AnswerInv'
  BY <1>4, <1>19 DEF IInv, AnswerInv, Recorded, SameDelivery, Torn
<1>23. WaitInv'
  <2>1. ASSUME NEW p \in Entries, tx'[p].pc = "wait"
        PROVE  /\ tx'[p].conn \in Connections /\ conn'[tx'[p].conn].client = p
               /\ request'[tx'[p].conn] = Request(p)'
    <3>1. p # q
      BY <1>3, <1>6, <2>1
    <3>2. /\ tx'[p] = tx[p] /\ tx[p].conn \in Connections /\ conn[tx[p].conn].client = p
          /\ request[tx[p].conn] = Request(p)
      BY <1>6, <2>1, <3>1 DEF IInv, WaitInv
    <3>3. Request(p)' = Request(p)
      BY <1>4, <3>2 DEF Request
    <3> QED
      BY <1>4, <1>19, <3>1, <3>2, <3>3
  <2> QED
    BY <2>1 DEF WaitInv
<1> QED
  BY <1>6, <1>12, <1>14, <1>15, <1>21, <1>22, <1>23 DEF IInv

-----------------------------------------------------------------------------
(* The theorems                                                            *)

LEMMA InitIInv == Init => IInv
<1> SUFFICES ASSUME Init PROVE IInv
  OBVIOUS
<1>1. QueueTyped
  BY DEF Init, QueueTyped, To
<1>2. TxTyped /\ AttemptInv /\ WaitInv /\ ReplyInv
  <2>1. \A q \in Entries : Idle \in Attempts(q)
    <3>1. \A q \in Entries : << >> \in Seq(To(q)) /\ << >> \in Seq(Replies)
      OBVIOUS
    <3> QED
      BY <3>1 DEF Idle, Attempts
  <2>2. tx = [q \in Entries |-> Idle]
    BY DEF Init
  <2>3. Idle.pc = "idle" /\ Idle.replies = << >> /\ Idle.accepted = Idle.listed
    BY DEF Idle
  <2>4. DOMAIN << >> = {}
    OBVIOUS
  <2>5. \A q \in Entries : InOrder(q, Idle) /\ Truthful(q, Idle)
    BY <2>3, <2>4 DEF InOrder, Truthful
  <2> QED
    BY <2>1, <2>2, <2>3, <2>5 DEF TxTyped, AttemptInv, WaitInv, ReplyInv
<1>3. ConnTyped /\ StoreTyped /\ TornInv /\ AnswerInv
  <2>1. Unused \in DeliveryConn /\ Unused.at \notin Carrying /\ Unused.answer = Nobody
    BY DEF Unused, DeliveryConn, Carrying, Sessions
  <2>2. conn = [k \in Connections |-> Unused]
    BY DEF Init, ServerInit
  <2>3. /\ store \in [Storages -> Store] /\ \A s \in Storages : store[s].torn = FALSE
        /\ DOMAIN request = Connections
    BY DEF Init, Store
  <2>4. Nobody # "success" /\ Nobody \notin Refused
    BY DeliveryAssumption DEF Answers, Refused
  <2> QED
    BY <2>1, <2>2, <2>3, <2>4 DEF ConnTyped, StoreTyped, TornInv, AnswerInv
<1>4. SentIsRecorded /\ BouncedIsRefusedUnlessTorn
  BY DEF Init, SentIsRecorded, BouncedIsRefusedUnlessTorn, BouncedIsRefused
<1> QED
  BY <1>1, <1>2, <1>3, <1>4 DEF IInv

LEMMA NextIInv ==
  ASSUME IInv, [Next]_vars
  PROVE  IInv'
<1>1. ASSUME ServerKeeps, UNCHANGED deliveryVars PROVE IInv'
  <2>1. StoreGrows /\ store' \in [Storages -> Store] /\ TornInv'
    BY <1>1 DEF deliveryVars, IInv, StoreTyped, StoreGrows, TornInv
  <2> QED
    BY <1>1, <2>1, ServerPart DEF deliveryVars
<1>2. ConnTyped
  BY DEF IInv
<1>3. ASSUME NEW d \in Daemons, StartDaemon(d) PROVE IInv'
  BY <1>3, StartDaemonStep
<1>4. ASSUME NEW d \in Daemons, DaemonStep(d), UNCHANGED deliveryVars PROVE IInv'
  BY <1>1, <1>2, <1>4, DaemonStepKeeps
<1>5. CASE OperatorRemoves /\ UNCHANGED deliveryVars
  BY <1>1, <1>2, <1>5, UnchangedKeeps DEF OperatorRemoves
<1>6. ASSUME NEW k \in Connections, HandleDelivery(k) PROVE IInv'
  BY <1>6, HandleDeliveryStep
<1>7. ASSUME NEW k \in Connections, SessionStep(k), UNCHANGED deliveryVars PROVE IInv'
  BY <1>1, <1>2, <1>7, SessionStepKeeps
<1>8. ASSUME NEW q \in Entries, HelperStep(q) PROVE IInv'
  <2>1. CASE /\ Begin(q) \/ Mail(q) \/ Rcpt(q) \/ Rset(q) \/ Data(q) \/ SendFails(q)
             /\ UNCHANGED <<serverVars, queue, flaw, via, request, store>>
    BY <2>1, BeginStep, DialogueStep, DataStep, SendFailsStep
  <2>2. ASSUME NEW k \in Connections, Send(q, k) PROVE IInv'
    BY <2>2, SendStep
  <2>3. CASE Receive(q)
    BY <2>3, ReceiveStep
  <2>4. ASSUME NEW n \in 0 .. Len(tx[q].replies), Leave(q, n) PROVE IInv'
    BY <2>4, LeaveStep
  <2> QED
    BY <1>8, <2>1, <2>2, <2>3, <2>4 DEF HelperStep
<1>9. CASE UNCHANGED vars
  BY <1>1, <1>2, <1>9, UnchangedKeeps DEF vars, serverVars
<1> QED
  BY <1>3, <1>4, <1>5, <1>6, <1>7, <1>8, <1>9 DEF Next

LEMMA AlwaysIInv == Spec => []IInv
  BY InitIInv, NextIInv, PTL DEF Spec

(* What Postfix was told is delivered is in a journal, for that recipient, *)
(* for any number of daemons, connections, entries, recipients and tries.  *)
THEOREM SentIsRecordedCorrect == Spec => []SentIsRecorded
<1>1. IInv => SentIsRecorded
  BY DEF IInv
<1> QED
  BY <1>1, AlwaysIInv, PTL

(* Postfix returns a message to its sender only if the message is at fault,*)
(* or if some append was torn.                                             *)
THEOREM BouncedIsRefusedCorrect == Spec => []BouncedIsRefusedUnlessTorn
<1>1. IInv => BouncedIsRefusedUnlessTorn
  BY DEF IInv
<1> QED
  BY <1>1, AlwaysIInv, PTL
=============================================================================
