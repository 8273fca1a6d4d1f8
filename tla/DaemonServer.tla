---------------------------- MODULE DaemonServer ----------------------------
(***************************************************************************)
(* wyreboxd at its socket: the listener that recovers a stale socket path, *)
(* binds, and removes only the socket it made; the connection server that  *)
(* runs every connection's session on a thread of its own; and the stop,   *)
(* which waits for a materialization under way, closes both, and waits for *)
(* the sessions until a deadline.                                          *)
(*   wyrebox/daemon/wyrebox-daemon-socket-listener.c, -connection-server.c,*)
(*   -connection-session.c, -frame-io.c, -request-adapter.c, -uds-client.c,*)
(*   wyreboxd-main.c                                                       *)
(* Daemons on different storage may be configured with one socket path     *)
(* (two daemons on one storage exclude each other before they get here,    *)
(* see Journal).  Main loop callbacks and the stop run on one thread; the  *)
(* sessions interleave with it and with the clients.                       *)
(***************************************************************************)
EXTENDS Naturals, FiniteSets

CONSTANTS
  Daemons,      \* daemons configured with this socket path
  Connections,  \* connections that exist at a time
  Nobody,       \* no daemon, no client, no answer
  MaxSockets,   \* bound: sockets bound
  MaxUpsets     \* bound: daemons killed, socket files removed, accepts failed

ASSUME ServerBounds == MaxSockets \in Nat /\ MaxUpsets \in Nat

VARIABLES
  path,        \* the socket file at the path: its inode, 0 for none
  sockets,     \* inodes made so far; none is made twice
  daemon,      \* daemons
  conn,        \* connections
  upsets       \* bound already used

serverVars == <<path, sockets, daemon, conn, upsets>>

(* "disturbed" is history: an operator removed the daemon's socket file,   *)
(* or another daemon started, or was removing its own socket file in a     *)
(* stop, while it started.                                                 *)
Down == [pc |-> "down", seen |-> 0, created |-> 0, socket |-> 0, accept |-> "off",
         abandoned |-> FALSE, disturbed |-> FALSE]
Unused == [at |-> "none", daemon |-> Nobody, client |-> Nobody, sent |-> FALSE,
           shut |-> FALSE, answer |-> Nobody]

ServerInit ==
  /\ path = 0 /\ sockets = 0 /\ upsets = 0
  /\ daemon = [d \in Daemons |-> Down]
  /\ conn = [k \in Connections |-> Unused]

Of(d) == {k \in Connections : conn[k].daemon = d}
Goto(d, pc) == daemon' = [daemon EXCEPT ![d].pc = pc]

(* The kernel closes what a process had open: its clients see the end of   *)
(* the stream behind what was written, its socket file stays.              *)
Unsent == {"materializing", "writing"}
Disconnected(ks) ==
  [k \in Connections |->
    IF k \notin ks THEN conn[k]
    ELSE [conn[k] EXCEPT !.at = "reset", !.daemon = Nobody,
                         !.answer = IF conn[k].at \in Unsent THEN Nobody ELSE @]]
Exits(d) == daemon' = [daemon EXCEPT ![d] = Down] /\ conn' = Disconnected(Of(d))

-----------------------------------------------------------------------------
(* Starting: recover_stale_socket_path_before_bind, bind, listen, and the  *)
(* checks that the file at the path is the one bound.                      *)

Starting == {"lstat", "probe", "recheck", "unlink", "bind", "listen", "stat", "check"}
Listening == {"stat", "check", "serving", "quitting", "stopped"}
Removing == {"unbound", "matched"}
LiveAt(p) == \E d \in Daemons : daemon[d].socket = p /\ daemon[d].pc \in Listening

Start(d) ==
  /\ daemon[d].pc = "down"
  /\ LET starting == {e \in Daemons : daemon[e].pc \in Starting}
         removing == {e \in Daemons : daemon[e].pc \in Removing}
     IN  daemon' = [e \in Daemons |->
           IF e = d THEN [Down EXCEPT !.pc = "lstat", !.disturbed = starting \cup removing # {}]
           ELSE [daemon[e] EXCEPT !.disturbed = @ \/ e \in starting]]
  /\ UNCHANGED <<path, sockets, conn, upsets>>

Lstat(d) ==
  /\ daemon[d].pc = "lstat"
  /\ daemon' = [daemon EXCEPT ![d].seen = path, ![d].pc = IF path = 0 THEN "bind" ELSE "probe"]
  /\ UNCHANGED <<path, sockets, conn, upsets>>

(* Connecting tells a live listener from a stale file: a live one makes    *)
(* the start fail.                                                         *)
ServedUnprobed(p) == FALSE  \* variant
Served(p) == p # 0 /\ LiveAt(p)

Probe(d) ==
  /\ daemon[d].pc = "probe"
  /\ IF Served(path) THEN Exits(d) ELSE Goto(d, "recheck") /\ UNCHANGED conn
  /\ UNCHANGED <<path, sockets, upsets>>

Recheck(d) ==
  /\ daemon[d].pc = "recheck"
  /\ \/ path = 0 /\ Goto(d, "bind") /\ UNCHANGED conn
     \/ path = daemon[d].seen /\ Goto(d, "unlink") /\ UNCHANGED conn
     \/ path \notin {0, daemon[d].seen} /\ Exits(d)
  /\ UNCHANGED <<path, sockets, upsets>>

UnlinkStale(d) ==
  /\ daemon[d].pc = "unlink"
  /\ path' = 0 /\ Goto(d, "bind")
  /\ UNCHANGED <<sockets, conn, upsets>>

Bind(d) ==
  /\ daemon[d].pc = "bind"
  /\ \/ /\ path # 0 /\ Exits(d) /\ UNCHANGED <<path, sockets>>
     \/ /\ path = 0 /\ sockets < MaxSockets
        /\ sockets' = sockets + 1 /\ path' = sockets'
        /\ daemon' = [daemon EXCEPT ![d].pc = "listen", ![d].socket = sockets']
        /\ UNCHANGED conn
  /\ UNCHANGED <<upsets>>

Listen(d) ==
  /\ daemon[d].pc = "listen" /\ Goto(d, "stat")
  /\ UNCHANGED <<path, sockets, conn, upsets>>

StatCreated(d) ==
  /\ daemon[d].pc = "stat"
  /\ \/ path = 0 /\ Exits(d)
     \/ path # 0 /\ UNCHANGED conn
        /\ daemon' = [daemon EXCEPT ![d].pc = "check", ![d].created = path]
  /\ UNCHANGED <<path, sockets, upsets>>

CheckCreated(d) ==
  /\ daemon[d].pc = "check"
  /\ \/ path # daemon[d].created /\ Exits(d)
     \/ path = daemon[d].created /\ UNCHANGED conn
        /\ daemon' = [daemon EXCEPT ![d].pc = "serving", ![d].accept = "armed"]
  /\ UNCHANGED <<path, sockets, upsets>>

-----------------------------------------------------------------------------
(* Accepting.  A failed accept is tried again by a timer; the others arm   *)
(* the next accept before they return.                                     *)

Upset == upsets < MaxUpsets /\ upsets' = upsets + 1

AcceptFails(d) ==
  /\ daemon[d].pc = "serving" /\ daemon[d].accept = "armed" /\ Upset
  /\ daemon' = [daemon EXCEPT ![d].accept = "retry"]
  /\ UNCHANGED <<path, sockets, conn>>

RetryAccept(d) ==
  /\ daemon[d].pc = "serving" /\ daemon[d].accept = "retry"
  /\ daemon' = [daemon EXCEPT ![d].accept = "armed"]
  /\ UNCHANGED <<path, sockets, conn, upsets>>

(* A connection whose peer has no credentials is dropped; any other is     *)
(* known and counted before its session's thread runs.                     *)
Accept(d, k) ==
  /\ daemon[d].pc = "serving" /\ daemon[d].accept = "armed"
  /\ k \in Of(d) /\ conn[k].at = "queued"
  /\ conn' \in {[conn EXCEPT ![k].at = "accepted"], Disconnected({k})}
  /\ UNCHANGED <<path, sockets, daemon, upsets>>

Sessions == {"accepted", "reading", "waiting", "handling", "materializing", "writing", "closing"}
CountedUntilClose(k) == conn[k].at \in Sessions \ {"closing"}  \* variant
Counted(k) == conn[k].at \in Sessions
InFlight(d) == {k \in Of(d) : Counted(k)}

-----------------------------------------------------------------------------
(* A session: read a request, handle it, write its answer, until the       *)
(* client closes, a write fails or the handler does.  A socket that is     *)
(* shut down still yields what was received before.  A handler runs its    *)
(* catch-up passes, before its work or behind it with the answer ready,    *)
(* under the lock of the materialization ("materializing").                *)

SessionTo(k, at) == conn' = [conn EXCEPT ![k].at = at]

RunSession(k) == conn[k].at = "accepted" /\ SessionTo(k, "reading")

ReadRequest(k) ==
  /\ conn[k].at = "reading"
  /\ conn' = [conn EXCEPT ![k].at = IF conn[k].sent THEN "waiting" ELSE "closing", ![k].sent = FALSE]

(* Mutations of one daemon are routed one at a time. *)
LockRoute(k, at) ==
  /\ conn[k].at = "waiting"
  /\ \A j \in Of(conn[k].daemon) : conn[j].at \notin {"handling", "materializing"}
  /\ SessionTo(k, at)

EndPass(k) ==
  /\ conn[k].at = "materializing"
  /\ SessionTo(k, IF conn[k].answer = Nobody THEN "handling" ELSE "writing")

WriteAnswer(k) ==
  /\ conn[k].at = "writing"
  /\ conn' = [conn EXCEPT ![k].at = IF conn[k].shut \/ conn[k].client = Nobody
                                    THEN "closing" ELSE "reading",
                          ![k].answer = IF conn[k].shut THEN Nobody ELSE @]

CloseSession(k) ==
  /\ conn[k].at = "closing"
  /\ conn' = [conn EXCEPT ![k].at = "reset", ![k].daemon = Nobody]

(* The connection is gone on both sides. *)
Forget(k) == conn[k].at = "reset" /\ conn[k].client = Nobody /\ conn' = [conn EXCEPT ![k] = Unused]

SessionStep(k) ==
  /\ \/ RunSession(k) \/ ReadRequest(k) \/ LockRoute(k, "handling") \/ EndPass(k)
     \/ WriteAnswer(k) \/ CloseSession(k) \/ Forget(k)
  /\ UNCHANGED <<path, sockets, daemon, upsets>>

(* Connecting to the path reaches the daemon that listens on that file;    *)
(* the request follows at once.  A client that leaves does not wait.       *)
Connect(k, client) ==
  /\ conn[k] = Unused /\ path # 0
  /\ \E d \in Daemons :
       /\ daemon[d].pc \in Listening /\ daemon[d].socket = path
       /\ conn' = [conn EXCEPT ![k] = [Unused EXCEPT !.at = "queued", !.daemon = d,
                                                     !.client = client, !.sent = TRUE]]
  /\ UNCHANGED <<path, sockets, daemon, upsets>>

Disconnect(k) == conn' = [conn EXCEPT ![k].client = Nobody, ![k].answer = Nobody]

(* The handler returned an answer, or failed without one (Nobody). *)
Answered(k, answer) ==
  /\ conn[k].at = "handling"
  /\ conn' = [conn EXCEPT ![k].at = IF answer = Nobody THEN "closing" ELSE "writing",
                          ![k].answer = answer]
  /\ UNCHANGED <<path, sockets, daemon, upsets>>

(* It first catches up with what it has recorded.                          *)
AnsweredBehindPass(k, answer) ==
  /\ conn[k].at = "handling"
  /\ conn' = [conn EXCEPT ![k].at = "materializing", ![k].answer = answer]
  /\ UNCHANGED <<path, sockets, daemon, upsets>>

-----------------------------------------------------------------------------
(* Stopping: the loop quits, the materialization is told to try no more,   *)
(* the listener closes and then removes its own socket file, every known   *)
(* connection is shut down, and the sessions are awaited until the         *)
(* deadline.  Sessions run on all the while; nothing is accepted.          *)

Quit(d) ==
  /\ daemon[d].pc = "serving" /\ Goto(d, "quitting")
  /\ UNCHANGED <<path, sockets, conn, upsets>>

InPass(d) == \E k \in Of(d) : conn[k].at = "materializing"

(* stop_retries waits for the lock that a pass holds. *)
StopMaterialization(d) ==
  /\ daemon[d].pc = "quitting" /\ ~InPass(d) /\ Goto(d, "stopped")
  /\ UNCHANGED <<path, sockets, conn, upsets>>

CloseListener(d) ==
  /\ daemon[d].pc = "stopped"
  /\ daemon' = [e \in Daemons |->
       IF e = d THEN [daemon[d] EXCEPT !.pc = "unbound", !.accept = "off", !.socket = 0]
       ELSE [daemon[e] EXCEPT !.disturbed = @ \/ daemon[e].pc \in Starting]]
  /\ conn' = Disconnected({k \in Of(d) : conn[k].at = "queued"})
  /\ UNCHANGED <<path, sockets, upsets>>

(* unlink_created_socket_path: what is at the path when it is removed need *)
(* not be what was compared.                                               *)
MatchCreated(d) ==
  /\ daemon[d].pc = "unbound"
  /\ Goto(d, IF path = daemon[d].created THEN "matched" ELSE "closed")
  /\ UNCHANGED <<path, sockets, conn, upsets>>

UnlinkCreated(d) ==
  /\ daemon[d].pc = "matched"
  /\ path' = 0 /\ Goto(d, "closed")
  /\ UNCHANGED <<sockets, conn, upsets>>

CloseConnections(d) ==
  /\ daemon[d].pc = "closed" /\ Goto(d, "draining")
  /\ conn' = [k \in Connections |-> IF k \in Of(d) THEN [conn[k] EXCEPT !.shut = TRUE] ELSE conn[k]]
  /\ UNCHANGED <<path, sockets, upsets>>

WaitIdle(d) ==
  /\ daemon[d].pc = "draining" /\ InFlight(d) = {} /\ Goto(d, "released")
  /\ UNCHANGED <<path, sockets, conn, upsets>>

NoDeadline(d) == FALSE  \* variant
DrainDeadline(d) ==
  /\ daemon[d].pc = "draining" /\ InFlight(d) # {}
  /\ daemon' = [daemon EXCEPT ![d].pc = "released", ![d].abandoned = TRUE]
  /\ UNCHANGED <<path, sockets, conn, upsets>>

(* Everything the handlers use has been released; the process ends. *)
Exit(d) ==
  /\ daemon[d].pc = "released" /\ Exits(d)
  /\ UNCHANGED <<path, sockets, upsets>>

Kill(d) ==
  /\ daemon[d].pc # "down" /\ Upset /\ Exits(d)
  /\ UNCHANGED <<path, sockets>>

OperatorRemoves ==
  /\ path # 0 /\ Upset /\ path' = 0
  /\ daemon' = [d \in Daemons |-> [daemon[d] EXCEPT !.disturbed = @ \/ daemon[d].socket = path]]
  /\ UNCHANGED <<sockets, conn>>

StartStep(d) ==
  \/ Lstat(d) \/ Probe(d) \/ Recheck(d) \/ UnlinkStale(d)
  \/ Bind(d) \/ Listen(d) \/ StatCreated(d) \/ CheckCreated(d)
StopStep(d) ==
  \/ StopMaterialization(d) \/ CloseListener(d) \/ MatchCreated(d) \/ UnlinkCreated(d)
  \/ CloseConnections(d) \/ WaitIdle(d) \/ DrainDeadline(d) \/ Exit(d)

DaemonStep(d) ==
  \/ StartStep(d) \/ Quit(d) \/ StopStep(d) \/ AcceptFails(d) \/ RetryAccept(d) \/ Kill(d)
  \/ \E k \in Connections : Accept(d, k)

(* The server alone, for clients that only wait for an answer or leave.    *)
ClientStep(k) ==
  \/ Connect(k, "client")
  \/ /\ conn[k].client # Nobody /\ Disconnect(k)
     /\ UNCHANGED <<path, sockets, daemon, upsets>>

ServerNext ==
  \/ \E d \in Daemons : Start(d) \/ DaemonStep(d)
  \/ OperatorRemoves
  \/ \E k \in Connections :
       \/ SessionStep(k) \/ ClientStep(k)
       \/ \E answer \in {"answer", Nobody} : Answered(k, answer)
       \/ AnsweredBehindPass(k, "answer")
       \/ LockRoute(k, "materializing") /\ UNCHANGED <<path, sockets, daemon, upsets>>

(* A process that stops runs on; a handler need not return.             *)
ServerFairness == \A d \in Daemons : WF_serverVars(StopStep(d))
ServerSpec == ServerInit /\ [][ServerNext]_serverVars /\ ServerFairness

-----------------------------------------------------------------------------
(* Properties                                                              *)

(* A daemon that serves is reachable: the file at the path is the socket   *)
(* it listens on, whatever other daemon starts, fails to start, is killed  *)
(* or stops.  Three things break it: a file removed by hand; a start at    *)
(* the same time as another, which may take the new socket for the stale   *)
(* file; and a start while another daemon stops between closing its socket *)
(* and removing the file, which may remove the new one.                    *)
ServesItsPath ==
  \A d \in Daemons :
    daemon[d].pc \in {"serving", "quitting", "stopped"} /\ ~daemon[d].disturbed =>
      path = daemon[d].socket

(* When a stop reports no abandoned session, no session touches what its   *)
(* caller releases next: the last thing a session does is to be counted    *)
(* out.                                                                    *)
ReleasedIsQuiet ==
  \A d \in Daemons :
    daemon[d].pc = "released" /\ ~daemon[d].abandoned => \A k \in Of(d) : conn[k].at \notin Sessions

(* A stop ends even if a handler never returns, since the drain has a      *)
(* deadline, unless what never returns is its pass: the stop waits for the *)
(* lock of the materialization before any deadline runs.                   *)
StopEndsUnlessPassHangs ==
  \A d \in Daemons :
    []<>~InPass(d) => (daemon[d].pc = "quitting" ~> daemon[d].pc = "down")
=============================================================================
