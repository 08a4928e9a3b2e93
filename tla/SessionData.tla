----------------------------- MODULE SessionData -----------------------------
(***************************************************************************)
(* The data connection of one session, and the two threads that work on it *)
(* without a lock: the session thread, which opens, uses and closes it in  *)
(* every transfer command, and the server thread, which closes it from     *)
(* terminateAllSessions, once.  A step is one read or write of the fields  *)
(* dataSocket and dataOutputStream, together with the call made on what    *)
(* was read.                                                               *)
(*                                                                         *)
(* A stream is named after its connection: closing it closes the socket.   *)
(* A dereference of null is not caught anywhere; it ends the process.      *)
(* Commands that have been read ahead run also after the command socket    *)
(* has been closed, so the socket is left out: the session may go on or    *)
(* end whenever it is idle.                                                *)
(***************************************************************************)
EXTENDS NormalDataSocketFactory, FiniteSets

CONSTANTS
  MaxConnections,  \* bound on the data connections the session makes
  None             \* null

ASSUME ConnectionsAssumption ==
  /\ MaxConnections \in Nat
  /\ None \notin Nat

Connections == 1..MaxConnections
Closers == {"session", "server"}

VARIABLES
  dataSocket,        \* field: a connection, or None
  dataOutputStream,  \* field: the connection of the stream, or None
  pc,                \* session thread: where it is
  op,                \* session thread: the transfer sends or receives
  got,               \* session thread: the connection, or its stream, that
                     \* startUsingDataSocket has got and not yet assigned
  closing,           \* per thread: where it is in closeDataSocket
  termination,       \* server thread: terminateAllSessions
  made,              \* how many connections have been made; the last one's name
  mark,              \* history: how many connections had been assigned to
                     \* dataSocket when termination began
  open,              \* the connections that are open
  crashed            \* an uncaught exception has killed the process

fieldVars == <<dataSocket, dataOutputStream>>
historyVars == <<termination, mark>>
sessionVars == <<pc, op, got>>
dataVars == <<fieldVars, sessionVars, closing, historyVars, made, open, crashed>>
vars == <<factoryVars, dataVars>>

SessionPcs == {"idle", "transfer", "assign", "check", "get_stream", "set_stream",
               "moving", "write", "connected", "read", "closing", "dead"}
ClosePcs == {"out", "check_stream", "close_stream", "null_stream",
             "check_socket", "close_socket", "null_socket"}

DataTypeOK ==
  /\ dataSocket \in Connections \cup {None}
  /\ dataOutputStream \in Connections \cup {None}
  /\ pc \in SessionPcs
  /\ op \in {"send", "receive"}
  /\ got \in Connections \cup {None}
  /\ closing \in [Closers -> ClosePcs]
  /\ termination \in {"before", "begun", "over"}
  /\ made \in 0..MaxConnections
  /\ mark \in 0..MaxConnections
  /\ open \subseteq Connections
  /\ crashed \in BOOLEAN

TypeOK == FactoryTypeOK /\ DataTypeOK

Init ==
  /\ FactoryInit
  /\ dataSocket = None
  /\ dataOutputStream = None
  /\ pc = "idle"
  /\ op = "send"
  /\ got = None
  /\ closing = [t \in Closers |-> "out"]
  /\ termination = "before"
  /\ made = 0
  /\ mark = 0
  /\ open = {}
  /\ crashed = FALSE

-----------------------------------------------------------------------------
(***************************************************************************)
(* Commands, between transfers                                             *)
(***************************************************************************)
Pasv == pc = "idle" /\ OnPasv /\ UNCHANGED dataVars

\* A PORT whose argument is malformed changes nothing.
Port == pc = "idle" /\ OnPort /\ UNCHANGED dataVars

\* RETR, LIST, NLST (send) or STOR, APPE (receive) calls startUsingDataSocket.
StartsTransfer ==
  /\ pc = "idle"
  /\ pc' = "transfer"
  /\ op' \in {"send", "receive"}
  /\ UNCHANGED <<factoryVars, fieldVars, got, closing, historyVars, made, open, crashed>>

\* closeDataSocket, called by the session thread.
SessionCloses == pc' = "closing" /\ closing' = [closing EXCEPT !["session"] = "check_stream"]

\* The file is missing or the like: RETR and STOR go straight to the end.
RefusesTransfer ==
  /\ pc = "idle"
  /\ SessionCloses
  /\ UNCHANGED <<factoryVars, fieldVars, op, got, historyVars, made, open, crashed>>

SessionEnds ==
  /\ pc = "idle"
  /\ pc' = "dead"
  /\ UNCHANGED <<factoryVars, fieldVars, op, got, closing, historyVars, made, open, crashed>>

-----------------------------------------------------------------------------
(***************************************************************************)
(* startUsingDataSocket                                                    *)
(***************************************************************************)

\* dataSocketFactory.onTransfer(): accepts or makes a connection, or returns null.
GetsConnection ==
  /\ pc = "transfer"
  /\ made < MaxConnections
  /\ TransferConnects
  /\ made' = made + 1
  /\ open' = open \cup {made + 1}
  /\ got' = made + 1
  /\ pc' = "assign"
  /\ UNCHANGED <<fieldVars, op, closing, historyVars, crashed>>

GetsNoConnection ==
  /\ pc = "transfer"
  /\ TransferFails
  /\ pc' = "assign"
  /\ UNCHANGED <<fieldVars, op, got, closing, historyVars, made, open, crashed>>

\* dataSocket = what onTransfer has returned
AssignsSocket ==
  /\ pc = "assign"
  /\ dataSocket' = got
  /\ got' = None
  /\ pc' = "check"
  /\ UNCHANGED <<factoryVars, dataOutputStream, op, closing, historyVars, made, open, crashed>>

\* Fault: the result of onTransfer is not checked.
TrustsSocket ==
  /\ pc = "check"
  /\ pc' = "get_stream"
  /\ UNCHANGED <<factoryVars, fieldVars, op, got, closing, historyVars, made, open, crashed>>

\* if (dataSocket == null) return false
ChecksSocket ==
  /\ pc = "check"
  /\ IF dataSocket = None
       THEN SessionCloses
       ELSE pc' = "get_stream" /\ UNCHANGED closing
  /\ UNCHANGED <<factoryVars, fieldVars, op, got, historyVars, made, open, crashed>>

\* dataSocket.getOutputStream(), which throws if the socket is closed.
GetsStream ==
  /\ pc = "get_stream"
  /\ \/ /\ dataSocket = None
        /\ crashed' = TRUE
        /\ UNCHANGED <<dataSocket, pc, got, closing>>
     \/ /\ dataSocket \in open
        /\ got' = dataSocket
        /\ pc' = "set_stream"
        /\ UNCHANGED <<dataSocket, closing, crashed>>
     \/ /\ dataSocket # None
        /\ dataSocket \notin open
        /\ dataSocket' = None
        /\ SessionCloses
        /\ UNCHANGED <<got, crashed>>
  /\ UNCHANGED <<factoryVars, dataOutputStream, op, historyVars, made, open>>

SetsStream ==
  /\ pc = "set_stream"
  /\ dataOutputStream' = got
  /\ got' = None
  /\ pc' = "moving"
  /\ UNCHANGED <<factoryVars, dataSocket, op, closing, historyVars, made, open, crashed>>

-----------------------------------------------------------------------------
(***************************************************************************)
(* sendViaDataSocket and receiveFromDataSocket, as often as the command    *)
(* likes.  A command ends by closing the data socket; only RETR in ASCII   *)
(* mode goes on after a send that failed.                                  *)
(***************************************************************************)
AllSent ==
  /\ pc = "moving"
  /\ op = "send"
  /\ SessionCloses
  /\ UNCHANGED <<factoryVars, fieldVars, op, got, historyVars, made, open, crashed>>

GoesOn == pc' = "moving" /\ UNCHANGED closing

\* if (dataOutputStream == null) return false
ChecksStream ==
  /\ pc = "moving"
  /\ op = "send"
  /\ IF dataOutputStream = None
       THEN SessionCloses \/ GoesOn
       ELSE pc' = "write" /\ UNCHANGED closing
  /\ UNCHANGED <<factoryVars, fieldVars, op, got, historyVars, made, open, crashed>>

\* Fault: a failed write ends the command at once.
FailedWriteEndsCommand ==
  /\ pc = "write"
  /\ IF dataOutputStream = None
       THEN crashed' = TRUE /\ UNCHANGED <<pc, closing>>
       ELSE pc' \in {"moving", "idle"} /\ UNCHANGED <<closing, crashed>>
  /\ UNCHANGED <<factoryVars, fieldVars, op, got, historyVars, made, open>>

\* dataOutputStream.write(...), which throws if the socket is closed.
Writes ==
  /\ pc = "write"
  /\ IF dataOutputStream = None
       THEN crashed' = TRUE /\ UNCHANGED <<pc, closing>>
       ELSE (SessionCloses \/ GoesOn) /\ UNCHANGED crashed
  /\ UNCHANGED <<factoryVars, fieldVars, op, got, historyVars, made, open>>

\* if (dataSocket == null) return -2
ChecksSource ==
  /\ pc = "moving"
  /\ op = "receive"
  /\ IF dataSocket = None
       THEN SessionCloses
       ELSE pc' = "connected" /\ UNCHANGED closing
  /\ UNCHANGED <<factoryVars, fieldVars, op, got, historyVars, made, open, crashed>>

\* dataSocket.isConnected(), which stays true when the socket is closed.
ChecksConnected ==
  /\ pc = "connected"
  /\ IF dataSocket = None
       THEN crashed' = TRUE /\ UNCHANGED pc
       ELSE pc' = "read" /\ UNCHANGED crashed
  /\ UNCHANGED <<factoryVars, fieldVars, op, got, closing, historyVars, made, open>>

\* dataSocket.getInputStream() and read: data, the end, or an exception.
Reads ==
  /\ pc = "read"
  /\ \/ dataSocket = None /\ crashed' = TRUE /\ UNCHANGED <<pc, closing>>
     \/ dataSocket \in open /\ GoesOn /\ UNCHANGED crashed
     \/ dataSocket # None /\ SessionCloses /\ UNCHANGED crashed
  /\ UNCHANGED <<factoryVars, fieldVars, op, got, historyVars, made, open>>

-----------------------------------------------------------------------------
(***************************************************************************)
(* closeDataSocket, in either thread                                       *)
(***************************************************************************)
At(t, from) == closing[t] = from

CloseStep(t, to) == closing' = [closing EXCEPT ![t] = to]

\* Fault: no stream is taken to mean no connection.
ChecksOnlyStream(t) ==
  /\ At(t, "check_stream")
  /\ CloseStep(t, IF dataOutputStream = None THEN "null_socket" ELSE "close_stream")
  /\ UNCHANGED <<factoryVars, fieldVars, sessionVars, historyVars, made, open, crashed>>

\* if (dataOutputStream != null)
ChecksStreamToClose(t) ==
  /\ At(t, "check_stream")
  /\ CloseStep(t, IF dataOutputStream = None THEN "check_socket" ELSE "close_stream")
  /\ UNCHANGED <<factoryVars, fieldVars, sessionVars, historyVars, made, open, crashed>>

\* dataOutputStream.close()
ClosesStream(t) ==
  /\ At(t, "close_stream")
  /\ IF dataOutputStream = None
       THEN crashed' = TRUE /\ UNCHANGED <<open, closing>>
       ELSE /\ open' = open \ {dataOutputStream}
            /\ CloseStep(t, "null_stream")
            /\ UNCHANGED crashed
  /\ UNCHANGED <<factoryVars, fieldVars, sessionVars, historyVars, made>>

\* dataOutputStream = null
NullsStream(t) ==
  /\ At(t, "null_stream")
  /\ dataOutputStream' = None
  /\ CloseStep(t, "check_socket")
  /\ UNCHANGED <<factoryVars, dataSocket, sessionVars, historyVars, made, open, crashed>>

\* if (dataSocket != null)
ChecksSocketToClose(t) ==
  /\ At(t, "check_socket")
  /\ CloseStep(t, IF dataSocket = None THEN "null_socket" ELSE "close_socket")
  /\ UNCHANGED <<factoryVars, fieldVars, sessionVars, historyVars, made, open, crashed>>

\* dataSocket.close()
ClosesSocket(t) ==
  /\ At(t, "close_socket")
  /\ IF dataSocket = None
       THEN crashed' = TRUE /\ UNCHANGED <<open, closing>>
       ELSE /\ open' = open \ {dataSocket}
            /\ CloseStep(t, "null_socket")
            /\ UNCHANGED crashed
  /\ UNCHANGED <<factoryVars, fieldVars, sessionVars, historyVars, made>>

\* dataSocket = null, and back to the caller.
NullsSocket(t) ==
  /\ At(t, "null_socket")
  /\ dataSocket' = None
  /\ CloseStep(t, "out")
  /\ IF t = "session"
       THEN pc' = "idle" /\ UNCHANGED termination
       ELSE termination' = "over" /\ UNCHANGED pc
  /\ UNCHANGED <<factoryVars, dataOutputStream, op, got, mark, made, open, crashed>>

\* terminateAllSessions reaches this session.
TerminationBegins ==
  /\ termination = "before"
  /\ termination' = "begun"
  /\ mark' = IF pc = "assign" /\ got # None THEN made - 1 ELSE made
  /\ CloseStep("server", "check_stream")
  /\ UNCHANGED <<factoryVars, fieldVars, sessionVars, made, open, crashed>>

-----------------------------------------------------------------------------
SessionThread ==
  \/ Pasv \/ Port \/ StartsTransfer \/ RefusesTransfer \/ SessionEnds
  \/ GetsConnection \/ GetsNoConnection \/ AssignsSocket
  \/ ChecksSocket \/ GetsStream \/ SetsStream
  \/ AllSent \/ ChecksStream \/ Writes
  \/ ChecksSource \/ ChecksConnected \/ Reads

CloseDataSocket(t) ==
  \/ ChecksStreamToClose(t) \/ ClosesStream(t) \/ NullsStream(t)
  \/ ChecksSocketToClose(t) \/ ClosesSocket(t) \/ NullsSocket(t)

Next ==
  /\ ~crashed
  /\ \/ SessionThread
     \/ TerminationBegins
     \/ \E t \in Closers : CloseDataSocket(t)

Spec == Init /\ [][Next]_vars

-----------------------------------------------------------------------------
(***************************************************************************)
(* Properties                                                              *)
(***************************************************************************)

\* A session on its own never dereferences null, however its transfers fail:
\* every use of the two fields is covered by the check before it.  Only the
\* server thread, from terminateAllSessions, can break this.
CrashNeedsTermination == crashed => termination # "before"

\* Whatever happened to a transfer, its command closes the data connection before
\* the session reads the next command, also a connection that terminateAllSessions
\* came too early for; only one that the server thread's late "dataSocket = null"
\* has thrown away can be open then.
CommandClosesData ==
  pc \in {"idle", "transfer", "dead"} =>
    Cardinality(open) <= IF termination = "over" THEN 1 ELSE 0

\* SessionThread.java:211-257 - terminateAllSessions closes every connection that had
\* been assigned to dataSocket when it began, also one that was only half set up and
\* whatever the session thread did to the fields in the meantime.  (One that the
\* factory had made and that was not yet assigned it does not see: the command
\* closes it.)
TerminationClosesTransfer ==
  termination = "over" => open \cap 1..mark = {}

\* The connections that are open and that neither thread can find any more.
Lost == open \ {dataSocket, dataOutputStream, got}

\* The server thread's late "dataSocket = null" can throw away a connection
\* made after its check, but only one, and nothing else loses a connection.
LosesAtMostOne ==
  Cardinality(Lost) <= IF termination = "over" THEN 1 ELSE 0

\* The documentation of receiveFromDataSocket promises a result for a socket
\* that is not connected and for an error; that of sendViaDataSocket promises
\* to tell whether the send completed.  Neither mentions an exception.
TransferCallsReturn ==
  [][Writes \/ ChecksConnected \/ Reads => ~crashed']_vars
=============================================================================
