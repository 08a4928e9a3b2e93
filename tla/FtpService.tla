------------------------------ MODULE FtpService ------------------------------
(***************************************************************************)
(* The running service: the start and stop of ServiceLifecycle together    *)
(* with the listener and the sessions of ListenerSessions.  The two meet   *)
(* in six steps: the binding of the listening socket, the supervision of   *)
(* the listener, the shutdown of sessions and listener by the server       *)
(* thread, and the close of the listening socket by onDestroy.             *)
(***************************************************************************)
EXTENDS ServiceLifecycle, ListenerSessions

vars == <<lifecycleVars, sessionVars>>

TypeOK == LifecycleTypeOK /\ SessionTypeOK

Init == LifecycleInit /\ SessionInit

\* The server thread of i does a step that concerns sockets or sessions.
RunBindsListener(i) == BindSucceeds(i) /\ SetupListener(i)
RunFailsToBind(i) == BindFails(i) /\ SetupListenerFails(i)
RunSupervises(i) == Supervises(i) /\ SuperviseListener(i)
RunTerminatesSessions(i) == Terminates(i) /\ TerminateAllSessions(i)
RunQuitsListener(i) == QuitsListener(i) /\ QuitListener(i)

RunOnSockets(i) ==
  \/ RunBindsListener(i) \/ RunFailsToBind(i) \/ RunSupervises(i)
  \/ RunTerminatesSessions(i) \/ RunQuitsListener(i)

DestroyClosesListener == OnDestroyCloses /\ CloseListenSocket(main.inst)

\* The steps of either module that leave the other alone.
LifecycleStep ==
  /\ Ui \/ UpdateUi \/ MainThread \/ \E i \in Instances : ServerThread(i)
  /\ UNCHANGED sessionVars

SocketStep ==
  /\ (\E i \in Instances : ListenerNext(i)) \/ (\E s \in Sessions : SessionNext(s))
  /\ UNCHANGED lifecycleVars

Next ==
  /\ ~crashed
  /\ \/ LifecycleStep
     \/ \E i \in Instances : RunOnSockets(i)
     \/ DestroyClosesListener
     \/ SocketStep

Spec == Init /\ [][Next]_vars

(***************************************************************************)
(* Fairness: threads are scheduled, and the main thread, whose queue is    *)
(* first in first out, starves neither refreshes nor callbacks.  Nothing   *)
(* forces a click, a change of the network, a client, or a join to time    *)
(* out; a bind ends one way or the other.                                  *)
(***************************************************************************)
Running(A) == ~crashed /\ A

Fairness ==
  /\ WF_vars(Running(UpdateUi /\ UNCHANGED sessionVars))
  /\ WF_vars(Running((MainThread /\ UNCHANGED sessionVars) \/ DestroyClosesListener))
  /\ \A i \in Instances :
       /\ WF_vars(Running((ServerThread(i) /\ UNCHANGED sessionVars) \/ RunOnSockets(i)))
       /\ WF_vars(Running(ListenerProgress(i) /\ UNCHANGED lifecycleVars))
  /\ \A s \in Sessions :
       WF_vars(Running(SessionProgress(s) /\ UNCHANGED lifecycleVars))

FairSpec == Spec /\ Fairness

-----------------------------------------------------------------------------
(***************************************************************************)
(* Safety                                                                  *)
(***************************************************************************)

\* registerSessionThread: "must know about all running session threads".  A
\* session that runs is in the list, or its listener is about to add it.
RunningSessionsKnown ==
  \A s \in Sessions : SessionAlive(s) =>
    LET i == session[s].service IN s \in sessionThreads[i] \/ accepted[i] = s

\* FTPServerService.java:195-236, 302-345, 434-448 - no way out of the service forgets
\* something: besides thread, CPU lock and receiver the listening socket is released,
\* by the listener's quit or, when the stop came before the listener was made, by
\* onDestroy.  Only a thread that binds after a join that ran out of time may keep
\* the port, until it quits the listener it has made, if it has made one.
RetiredLeavesNothing ==
  /\ RetiredHoldsNothing
  /\ \A i \in Instances : Retired(i) /\ listenSocket[i] \notin {"null", "closed"} =>
       timedOut /\ (Alive(i) \/ listener[i] = "none")

\* FTPServerService.java:450-460 - of the sessions that run at that moment
\* terminateAllSessions misses at most one, the one its listener has started and not
\* yet registered; of the others it closes both sockets.  (What is accepted between
\* lines 432 and 439 comes too late for it.)
TerminationMissesAtMostOne ==
  [][\A i \in Instances : RunTerminatesSessions(i) =>
       \A s \in Sessions :
         SessionAlive(s) /\ session[s].service = i /\ s # accepted[i]
           => session'[s].cmd = "closed" /\ session'[s].data = "null"]_vars

-----------------------------------------------------------------------------
(***************************************************************************)
(* Liveness                                                                *)
(***************************************************************************)

\* SessionThread.java:211-228, 271-292, FTPServerService.java:450-460 - the server
\* thread gets to close the socket of every session registered when it begins, and
\* such a session ends as soon as it has served the lines it had read before, unless
\* one of these makes it wait for a data connection, or move data over one, that
\* nobody closes any more.
TerminatedSessionsEnd ==
  \A s \in Sessions :
    /\ \A i \in Instances : (tpc[i] = "terminate" /\ s \in sessionThreads[i])
                             ~> (session[s].cmd = "closed" \/ crashed)
    /\ /\ session[s].cmd = "closed" /\ session[s].ahead = 0
       /\ session[s].pc # "awaiting" /\ session[s].data = "null"
      ~> (session[s].pc = "dead" \/ crashed)

\* FTPServerService.java:354-372, 434-441 - a crashed listener is replaced as long as
\* nobody stops the server, and a retired service leaves no listener thread behind.
ListenerFollowsServer ==
  \A i \in Instances :
    /\ (Serving(i) /\ listener[i] = "dead")
         ~> (listener[i] # "dead" \/ ~Serving(i) \/ crashed)
    /\ Retired(i) ~> (listener[i] \in {"none", "dead"} \/ crashed)

=============================================================================
