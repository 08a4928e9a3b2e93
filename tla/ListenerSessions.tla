--------------------------- MODULE ListenerSessions ---------------------------
(***************************************************************************)
(* The listening socket, the TcpListener thread and the session threads of *)
(* each service instance, and the list sessionThreads through which the    *)
(* server thread reaches the sessions when it shuts down.                  *)
(*                                                                         *)
(* sessionThreads is guarded by synchronized(this) in registerSessionThread *)
(* and terminateAllSessions.  Nothing in those blocks waits (they join     *)
(* only dead threads) and a session thread never takes the monitor, so     *)
(* each block is one step.                                                 *)
(*                                                                         *)
(* Of a session only what its end depends on is kept: whether it waits for *)
(* a command, waits for a data connection, or moves data, which of its two *)
(* sockets are open, and how many lines its reader has taken from the      *)
(* command socket that no command has been made of yet.  Those are served  *)
(* whatever has become of the socket.                                      *)
(***************************************************************************)
EXTENDS ServiceInstances, Naturals

CONSTANT MaxAhead   \* bound on the lines a session has read ahead

ASSUME AheadAssumption == MaxAhead \in Nat

VARIABLES
  listenSocket,    \* field of the service: the server socket
  listener,        \* the TcpListener thread wifiListener refers to
  accepted,        \* the session the listener has made and not yet registered
  sessionThreads,  \* field of the service: the registered sessions
  session          \* per session: its service, what it does, its sockets

listenerVars == <<listenSocket, listener, accepted>>
sessionVars == <<listenerVars, sessionThreads, session>>

SocketStates == {"null", "unbound", "open", "closed"}
ListenerPcs == {"none", "accepting", "starting", "registering", "dead"}
SessionPcs == {"none", "new", "command", "awaiting", "transferring", "dead"}

Session == [service : Instances \cup {None}, pc : SessionPcs,
            cmd : {"null", "open", "closed"}, data : {"null", "open"},
            ahead : 0..MaxAhead]

\* Thread.isAlive() of a session thread.
SessionAlive(s) == session[s].pc \in {"command", "awaiting", "transferring"}

SessionTypeOK ==
  /\ listenSocket \in [Instances -> SocketStates]
  /\ listener \in [Instances -> ListenerPcs]
  /\ accepted \in [Instances -> Sessions \cup {None}]
  /\ sessionThreads \in [Instances -> SUBSET Sessions]
  /\ session \in [Sessions -> Session]

SessionInit ==
  /\ listenSocket = [i \in Instances |-> "null"]
  /\ listener = [i \in Instances |-> "none"]
  /\ accepted = [i \in Instances |-> None]
  /\ sessionThreads = [i \in Instances |-> {}]
  /\ session = [s \in Sessions |-> [service |-> None, pc |-> "none",
                                    cmd |-> "null", data |-> "null",
                                    ahead |-> 0]]

-----------------------------------------------------------------------------
(***************************************************************************)
(* What the server thread and the main thread do to them                   *)
(***************************************************************************)

\* setupListener with a free port, and with a port that is taken: the field
\* refers to the new socket in both cases.
SetupListener(i) ==
  /\ listenSocket' = [listenSocket EXCEPT ![i] = "open"]
  /\ UNCHANGED <<listener, accepted, sessionThreads, session>>

SetupListenerFails(i) ==
  /\ listenSocket' = [listenSocket EXCEPT ![i] = "unbound"]
  /\ UNCHANGED <<listener, accepted, sessionThreads, session>>

\* Fault: a crashed listener is taken for a running one.
SuperviseOnlyStarts(i) ==
  /\ listener' = [listener EXCEPT ![i] = IF @ = "none" THEN "accepting" ELSE @]
  /\ UNCHANGED <<listenSocket, accepted, sessionThreads, session>>

\* Starts the listener if there is none or it has crashed.
SuperviseListener(i) ==
  /\ listener' = [listener EXCEPT ![i] =
                    IF @ \in {"none", "dead"} THEN "accepting" ELSE @]
  /\ UNCHANGED <<listenSocket, accepted, sessionThreads, session>>

\* Fault: only the sessions with a transfer under way are closed.
TerminateTransfers(i) ==
  /\ session' = [s \in Sessions |->
                   IF s \in sessionThreads[i] /\ session[s].data = "open"
                     THEN [session[s] EXCEPT !.cmd = "closed", !.data = "null"]
                     ELSE session[s]]
  /\ UNCHANGED <<listenerVars, sessionThreads>>

\* Fault: only the data sockets are closed.
TerminateDataSockets(i) ==
  /\ session' = [s \in Sessions |->
                   IF s \in sessionThreads[i]
                     THEN [session[s] EXCEPT !.data = "null"] ELSE session[s]]
  /\ UNCHANGED <<listenerVars, sessionThreads>>

\* closeDataSocket and closeSocket of every registered session.
TerminateAllSessions(i) ==
  /\ session' = [s \in Sessions |->
                   IF s \in sessionThreads[i]
                     THEN [session[s] EXCEPT !.cmd = "closed", !.data = "null"]
                     ELSE session[s]]
  /\ UNCHANGED <<listenerVars, sessionThreads>>

\* wifiListener.quit(), if there is a listener: closes the listening socket.
QuitListener(i) ==
  /\ listenSocket' = [listenSocket EXCEPT ![i] =
                        IF listener[i] = "none" THEN @ ELSE "closed"]
  /\ UNCHANGED <<listener, accepted, sessionThreads, session>>

\* Fault: the listening socket is left to the listener's quit.
LeaveListenSocket(i) == UNCHANGED sessionVars

\* onDestroy: if (listenSocket != null) listenSocket.close().
CloseListenSocket(i) ==
  /\ listenSocket' = [listenSocket EXCEPT ![i] =
                        IF @ = "null" THEN @ ELSE "closed"]
  /\ UNCHANGED <<listener, accepted, sessionThreads, session>>

-----------------------------------------------------------------------------
(***************************************************************************)
(* TcpListener.run                                                         *)
(***************************************************************************)

\* accept() returns a connection and a SessionThread is made for it.
Accept(i) ==
  /\ listener[i] = "accepting"
  /\ listenSocket[i] = "open"
  /\ \E s \in Sessions :
       /\ session[s].pc = "none"
       /\ accepted' = [accepted EXCEPT ![i] = s]
       /\ session' = [session EXCEPT ![s] = [service |-> i, pc |-> "new",
                                             cmd |-> "open", data |-> "null",
                                             ahead |-> 0]]
  /\ listener' = [listener EXCEPT ![i] = "starting"]
  /\ UNCHANGED <<listenSocket, sessionThreads>>

\* newSession.start(): the session runs before it is registered.
StartSession(i) ==
  /\ listener[i] = "starting"
  /\ session' = [session EXCEPT ![accepted[i]].pc = "command"]
  /\ listener' = [listener EXCEPT ![i] = "registering"]
  /\ UNCHANGED <<listenSocket, accepted, sessionThreads>>

\* Fault: a session whose command socket is closed is taken for a finished one.
RegisterDropsClosed(i) ==
  /\ listener[i] = "registering"
  /\ sessionThreads' = [sessionThreads EXCEPT ![i] =
                          {s \in @ : session[s].cmd = "open"} \cup {accepted[i]}]
  /\ accepted' = [accepted EXCEPT ![i] = None]
  /\ listener' = [listener EXCEPT ![i] = "accepting"]
  /\ UNCHANGED <<listenSocket, session>>

\* registerSessionThread: drops the finished sessions, adds the new one.
RegisterSessionThread(i) ==
  /\ listener[i] = "registering"
  /\ sessionThreads' = [sessionThreads EXCEPT ![i] =
                          {s \in @ : SessionAlive(s)} \cup {accepted[i]}]
  /\ session' = [s \in Sessions |->
                   IF s \in sessionThreads[i] /\ ~SessionAlive(s)
                     THEN [session[s] EXCEPT !.cmd = "closed"]
                     ELSE session[s]]
  /\ accepted' = [accepted EXCEPT ![i] = None]
  /\ listener' = [listener EXCEPT ![i] = "accepting"]
  /\ UNCHANGED listenSocket

\* accept() throws, because the socket was closed or for any other reason.
ListenerDies(i) ==
  /\ listener[i] = "accepting"
  /\ listener' = [listener EXCEPT ![i] = "dead"]
  /\ UNCHANGED <<listenSocket, accepted, sessionThreads, session>>

ListenerNext(i) ==
  Accept(i) \/ StartSession(i) \/ RegisterSessionThread(i) \/ ListenerDies(i)

-----------------------------------------------------------------------------
(***************************************************************************)
(* A session thread                                                        *)
(***************************************************************************)
SetSession(s, new) ==
  session' = [session EXCEPT ![s] = new] /\ UNCHANGED <<listenerVars, sessionThreads>>

\* What may be left in the reader when readLine() has returned one more line:
\* it asks the socket only when it has no line left.
LinesLeft(s) ==
  IF session[s].ahead > 0 THEN {session[s].ahead - 1}
  ELSE IF session[s].cmd = "open" THEN 0..MaxAhead ELSE {}

\* A line is dispatched.  QUIT closes the command socket, and so does a reply
\* that cannot be written.
TakesLine(s, to) ==
  /\ session[s].pc = "command"
  /\ \E left \in LinesLeft(s), cmd \in {session[s].cmd, "closed"} :
       SetSession(s, [session[s] EXCEPT !.pc = to, !.ahead = left, !.cmd = cmd])

\* A transfer: onTransfer connects after PORT, or blocks in accept() after PASV,
\* which has no timeout.
AwaitsClient(s) == TakesLine(s, "awaiting")

\* Any other command.
OtherCommand(s) == TakesLine(s, "command")

\* The client connects, or is connected to.
ConnectsData(s) ==
  /\ session[s].pc = "awaiting"
  /\ SetSession(s, [session[s] EXCEPT !.pc = "transferring", !.data = "open"])

\* onTransfer returns null: there was no PASV or PORT, or it could not connect.
GetsNoData(s) ==
  /\ session[s].pc = "awaiting"
  /\ SetSession(s, [session[s] EXCEPT !.pc = "command"])

\* The transfer is complete or fails; the command closes the data socket.
TransferEnds(s) ==
  /\ session[s].pc = "transferring"
  /\ SetSession(s, [session[s] EXCEPT !.pc = "command", !.data = "null"])

\* readLine() gives null or throws, and no line is left in the reader: the client
\* left, or this or the server thread has closed the socket.
SessionEnds(s) ==
  /\ session[s].pc = "command" /\ session[s].ahead = 0
  /\ SetSession(s, [session[s] EXCEPT !.pc = "dead", !.cmd = "closed"])

SessionNext(s) ==
  \/ AwaitsClient(s) \/ OtherCommand(s) \/ ConnectsData(s) \/ GetsNoData(s)
  \/ TransferEnds(s) \/ SessionEnds(s)

(***************************************************************************)
(* Fairness: a thread takes the steps that no peer can hold up.  A socket  *)
(* that is closed wakes the thread blocked on it, and a line in the reader *)
(* is taken; a client need not connect, send or close.                     *)
(***************************************************************************)
ListenerProgress(i) ==
  \/ StartSession(i) \/ RegisterSessionThread(i)
  \/ listenSocket[i] # "open" /\ ListenerDies(i)

SessionProgress(s) ==
  \/ session[s].data = "null" /\ TransferEnds(s)
  \/ session[s].ahead > 0 /\ (AwaitsClient(s) \/ OtherCommand(s))
  \/ session[s].cmd = "closed" /\ SessionEnds(s)
=============================================================================
