--------------------------- MODULE ServiceLifecycle ---------------------------
(***************************************************************************)
(* Start and stop of the FTP server, as FTPServerService runs it on Android *)
(*                                                                         *)
(* Three parties interact:                                                 *)
(*   - the main thread, which runs the callbacks of every service instance *)
(*     (onCreate, onStart, onDestroy), the clicks on the start/stop button *)
(*     and the refreshes of the fragment, one after the other;             *)
(*   - the server thread of a service instance (FTPServerService.run);     *)
(*   - Android's activity manager (external), which keeps the record of    *)
(*     the current instance and posts the callbacks on the main thread.    *)
(*                                                                         *)
(* A service instance and the thread that onStart creates for it have the  *)
(* same name.  The fields of an instance are functions on Instances; the   *)
(* static fields (serverThread, wifiLock) are single variables shared by   *)
(* all of them.  Steps are as fine as the reads and writes of shared       *)
(* fields.  The data race on shouldExit, which is not volatile, is taken   *)
(* to be sequentially consistent: the server thread sleeps in every        *)
(* iteration, so no read of it is ever hoisted out of the loop.            *)
(***************************************************************************)
EXTENDS ServiceInstances, Integers, Sequences

CONSTANTS
  StartAttempts,   \* how often onStart waits for an older thread (20)
  BindAttempts,    \* how many ports run() tries to bind (10)
  MaxPending       \* bound on the callbacks queued by repeated clicks

ASSUME BoundsAssumption ==
  /\ StartAttempts \in Nat
  /\ BindAttempts \in Nat \ {0}
  /\ MaxPending \in Nat

VARIABLES
  main,          \* main thread: where it is, in which instance, attempts left
  inbox,         \* callbacks posted to the main thread, oldest first
  record,        \* activity manager: the instance that is current, or None
  created,       \* activity manager: every instance made so far
  receivers,     \* instances whose media receiver is registered
  ui,            \* fragment: wifi is up, refresh is queued, button is enabled
  serverThread,  \* static: the thread onStart started last, or None
  shouldExit,    \* field: the stop flag
  tpc,           \* server thread: where it is
  failedBinds,   \* server thread: the local atmp of run()
  wifiLock,      \* static: the reference is set / the lock is held
  wakeLock,      \* field: the CPU lock is held
  crashed,       \* an uncaught exception has killed the process
  timedOut       \* history: a join(10000) of onDestroy has run out of time

mainVars == <<main, inbox, receivers, serverThread>>
amsVars == <<record, created>>
threadVars == <<shouldExit, tpc, failedBinds, wifiLock, wakeLock, crashed, timedOut>>
lifecycleVars == <<mainVars, amsVars, ui, threadVars>>

Callbacks == [kind : {"CREATE", "START", "DESTROY"}, inst : Instances]
Callback(k, i) == [kind |-> k, inst |-> i]

MainPcs == {"idle", "start_wait", "destroy_join", "destroy_close",
            "destroy_wifi", "destroy_release", "destroy_null"}
ThreadPcs == {"new", "begin", "bind", "stop_service", "wifi_create",
              "wifi_acquire", "ready", "loop", "supervise", "sleep",
              "terminate", "quit_listener", "finish", "release_check",
              "release", "release_null", "exited"}

\* Thread.isAlive() of the server thread of i.
Alive(i) == tpc[i] \notin {"new", "exited"}

\* FTPServerService.isRunning(): any non-null thread counts, dead or alive.
IsRunning == serverThread # None

LifecycleTypeOK ==
  /\ main \in [pc : MainPcs, inst : Instances \cup {None},
               attempts : 0..StartAttempts]
  /\ inbox \in Seq(Callbacks)
  /\ record \in Instances \cup {None}
  /\ created \subseteq Instances
  /\ receivers \subseteq Instances
  /\ ui \in [wifi : BOOLEAN, refresh : BOOLEAN, button : BOOLEAN]
  /\ serverThread \in Instances \cup {None}
  /\ shouldExit \in [Instances -> BOOLEAN]
  /\ tpc \in [Instances -> ThreadPcs]
  /\ failedBinds \in [Instances -> 0..BindAttempts]
  /\ wifiLock \in [ref : BOOLEAN, held : BOOLEAN]
  /\ wakeLock \in [Instances -> BOOLEAN]
  /\ crashed \in BOOLEAN /\ timedOut \in BOOLEAN

LifecycleInit ==
  /\ main = [pc |-> "idle", inst |-> None, attempts |-> 0]
  /\ inbox = <<>>
  /\ record = None
  /\ created = {}
  /\ receivers = {}
  /\ ui \in [wifi : BOOLEAN, refresh : {TRUE}, button : {FALSE}]
  /\ serverThread = None
  /\ shouldExit = [i \in Instances |-> FALSE]
  /\ tpc = [i \in Instances |-> "new"]
  /\ failedBinds = [i \in Instances |-> 0]
  /\ wifiLock = [ref |-> FALSE, held |-> FALSE]
  /\ wakeLock = [i \in Instances |-> FALSE]
  /\ crashed = FALSE /\ timedOut = FALSE

-----------------------------------------------------------------------------
(***************************************************************************)
(* The activity manager (external).  startService makes an instance if     *)
(* there is none and always posts a START; stopService forgets the         *)
(* instance and posts its DESTROY.                                         *)
(***************************************************************************)
StartService ==
  \/ /\ record = None
     /\ \E i \in Instances \ created :
          /\ record' = i
          /\ created' = created \cup {i}
          /\ inbox' = inbox \o <<Callback("CREATE", i), Callback("START", i)>>
  \/ /\ record # None
     /\ inbox' = Append(inbox, Callback("START", record))
     /\ UNCHANGED amsVars

StopService ==
  \/ /\ record # None
     /\ record' = None
     /\ inbox' = Append(inbox, Callback("DESTROY", record))
     /\ UNCHANGED created
  \/ /\ record = None
     /\ UNCHANGED <<inbox, amsVars>>

-----------------------------------------------------------------------------
(***************************************************************************)
(* User interface, on the main thread                                      *)
(***************************************************************************)

\* UiUpdater.updateClients: posts a message to the fragment, whose handler
\* treats several of them as one.
UpdateClients == ui' = [ui EXCEPT !.refresh = TRUE]

\* A click on the button while isRunning() is false.
ClickStart ==
  /\ main.pc = "idle"
  /\ ui.button
  /\ ~IsRunning
  /\ Len(inbox) < MaxPending
  /\ StartService
  /\ UNCHANGED <<main, receivers, serverThread, ui, threadVars>>

\* A click on the button while isRunning() is true.
ClickStop ==
  /\ main.pc = "idle"
  /\ ui.button
  /\ IsRunning
  /\ StopService
  /\ UNCHANGED <<main, receivers, serverThread, ui, threadVars>>

\* Fault: a refresh that finds the button disabled already does nothing more.
UpdateUiOnlyOnChange ==
  /\ main.pc = "idle"
  /\ ui.refresh
  /\ ui' = [ui EXCEPT !.refresh = FALSE, !.button = ui.wifi]
  /\ IF IsRunning /\ ~ui.wifi /\ ui.button
       THEN StopService ELSE UNCHANGED <<inbox, amsVars>>
  /\ UNCHANGED <<main, receivers, serverThread, threadVars>>

\* updateUi: runs for a queued message of UiUpdater or a wifi broadcast, and
\* stops a running service that has no network.
UpdateUi ==
  /\ main.pc = "idle"
  /\ ui.refresh
  /\ ui' = [ui EXCEPT !.refresh = FALSE, !.button = ui.wifi]
  /\ IF IsRunning /\ ~ui.wifi THEN StopService ELSE UNCHANGED <<inbox, amsVars>>
  /\ UNCHANGED <<main, receivers, serverThread, threadVars>>

\* The receiver of a live instance hears that the storage was unmounted.
MediaUnmounted(i) ==
  /\ main.pc = "idle"
  /\ i \in receivers
  /\ IsRunning
  /\ record = i
  /\ StopService
  /\ UNCHANGED <<main, receivers, serverThread, ui, threadVars>>

\* Wifi comes or goes (external); the broadcast makes the fragment refresh.
WifiChanges ==
  /\ ui' = [ui EXCEPT !.wifi = ~ui.wifi, !.refresh = TRUE]
  /\ UNCHANGED <<mainVars, amsVars, threadVars>>

-----------------------------------------------------------------------------
(***************************************************************************)
(* Service callbacks, on the main thread                                   *)
(***************************************************************************)
Handles(k) == main.pc = "idle" /\ inbox # <<>> /\ Head(inbox).kind = k

OnCreate ==
  /\ Handles("CREATE")
  /\ inbox' = Tail(inbox)
  /\ receivers' = receivers \cup {Head(inbox).inst}
  /\ UNCHANGED <<main, serverThread, amsVars, ui, threadVars>>

\* onStart up to its wait for an older server thread.
OnStart ==
  /\ Handles("START")
  /\ inbox' = Tail(inbox)
  /\ shouldExit' = [shouldExit EXCEPT ![Head(inbox).inst] = FALSE]
  /\ main' = [pc |-> "start_wait", inst |-> Head(inbox).inst,
              attempts |-> StartAttempts]
  /\ UNCHANGED <<receivers, serverThread, amsVars, ui>>
  /\ UNCHANGED <<tpc, failedBinds, wifiLock, wakeLock, crashed, timedOut>>

\* One turn of the wait loop: another half second of sleep.
OnStartWaits ==
  /\ main.pc = "start_wait"
  /\ serverThread # None
  /\ main.attempts > 0
  /\ main' = [main EXCEPT !.attempts = @ - 1]
  /\ UNCHANGED <<inbox, receivers, serverThread, amsVars, ui, threadVars>>

\* "Server thread already exists".
OnStartGivesUp ==
  /\ main.pc = "start_wait"
  /\ serverThread # None
  /\ main.attempts = 0
  /\ main' = [main EXCEPT !.pc = "idle"]
  /\ UNCHANGED <<inbox, receivers, serverThread, amsVars, ui, threadVars>>

OnStartSpawns ==
  /\ main.pc = "start_wait"
  /\ serverThread = None
  /\ serverThread' = main.inst
  /\ tpc' = [tpc EXCEPT ![main.inst] = "begin"]
  /\ main' = [main EXCEPT !.pc = "idle"]
  /\ UNCHANGED <<inbox, receivers, amsVars, ui>>
  /\ UNCHANGED <<shouldExit, failedBinds, wifiLock, wakeLock, crashed, timedOut>>

\* onDestroy up to the join; with a null serverThread it returns at once and
\* leaves the receiver registered.
OnDestroy ==
  /\ Handles("DESTROY")
  /\ inbox' = Tail(inbox)
  /\ shouldExit' = [shouldExit EXCEPT ![Head(inbox).inst] = TRUE]
  /\ main' = [main EXCEPT !.pc = IF serverThread = None THEN "idle"
                                                        ELSE "destroy_join",
                          !.inst = Head(inbox).inst]
  /\ UNCHANGED <<receivers, serverThread, amsVars, ui>>
  /\ UNCHANGED <<tpc, failedBinds, wifiLock, wakeLock, crashed, timedOut>>

\* Fault: onDestroy interrupts the thread and does not join it.
OnDestroyDoesNotJoin ==
  /\ main.pc = "destroy_join"
  /\ serverThread' = None
  /\ main' = [main EXCEPT !.pc = "destroy_close"]
  /\ UNCHANGED <<inbox, receivers, amsVars, ui, threadVars>>

OnDestroyJoins ==
  /\ main.pc = "destroy_join"
  /\ ~Alive(serverThread)
  /\ serverThread' = None
  /\ main' = [main EXCEPT !.pc = "destroy_close"]
  /\ UNCHANGED <<inbox, receivers, amsVars, ui, threadVars>>

\* Fault: serverThread = null also when the join ran out of time.
OnDestroyForgetsThread ==
  /\ main.pc = "destroy_join"
  /\ Alive(serverThread)
  /\ serverThread' = None
  /\ timedOut' = TRUE
  /\ main' = [main EXCEPT !.pc = "destroy_close"]
  /\ UNCHANGED <<inbox, receivers, amsVars, ui>>
  /\ UNCHANGED <<shouldExit, tpc, failedBinds, wifiLock, wakeLock, crashed>>

\* "Server thread failed to exit": serverThread keeps its value.
OnDestroyTimesOut ==
  /\ main.pc = "destroy_join"
  /\ Alive(serverThread)
  /\ timedOut' = TRUE
  /\ main' = [main EXCEPT !.pc = "destroy_close"]
  /\ UNCHANGED <<inbox, receivers, serverThread, amsVars, ui>>
  /\ UNCHANGED <<shouldExit, tpc, failedBinds, wifiLock, wakeLock, crashed>>

\* listenSocket.close(), modelled in FtpService, then UiUpdater.updateClients.
OnDestroyCloses ==
  /\ main.pc = "destroy_close"
  /\ UpdateClients
  /\ main' = [main EXCEPT !.pc = "destroy_wifi"]
  /\ UNCHANGED <<inbox, receivers, serverThread, amsVars, threadVars>>

\* if (wifiLock != null): the check, apart from the uses that follow it.
OnDestroyChecksWifiLock ==
  /\ main.pc = "destroy_wifi"
  /\ IF wifiLock.ref
       THEN main' = [main EXCEPT !.pc = "destroy_release"] /\ UNCHANGED receivers
       ELSE main' = [main EXCEPT !.pc = "idle"]
            /\ receivers' = receivers \ {main.inst}
  /\ UNCHANGED <<inbox, serverThread, amsVars, ui, threadVars>>

\* wifiLock.release() through the static field, which the server thread may
\* have set to null since the check.
ReleaseWifiLockObject ==
  IF wifiLock.ref
    THEN wifiLock' = [wifiLock EXCEPT !.held = FALSE] /\ UNCHANGED crashed
    ELSE crashed' = TRUE /\ UNCHANGED wifiLock

OnDestroyReleasesWifiLock ==
  /\ main.pc = "destroy_release"
  /\ ReleaseWifiLockObject
  /\ main' = [main EXCEPT !.pc = "destroy_null"]
  /\ UNCHANGED <<inbox, receivers, serverThread, amsVars, ui>>
  /\ UNCHANGED <<shouldExit, tpc, failedBinds, wakeLock, timedOut>>

\* wifiLock = null, then the receiver is unregistered and onDestroy is over.
OnDestroyFinishes ==
  /\ main.pc = "destroy_null"
  /\ wifiLock' = [wifiLock EXCEPT !.ref = FALSE]
  /\ receivers' = receivers \ {main.inst}
  /\ main' = [main EXCEPT !.pc = "idle"]
  /\ UNCHANGED <<inbox, serverThread, amsVars, ui>>
  /\ UNCHANGED <<shouldExit, tpc, failedBinds, wakeLock, crashed, timedOut>>

-----------------------------------------------------------------------------
(***************************************************************************)
(* The server thread of instance i: FTPServerService.run                   *)
(***************************************************************************)
Goto(i, from, to) == tpc[i] = from /\ tpc' = [tpc EXCEPT ![i] = to]

\* Fault: run() resets the flag where onStart does.
RunBeginsAfresh(i) ==
  /\ Goto(i, "begin", "bind")
  /\ failedBinds' = [failedBinds EXCEPT ![i] = 0]
  /\ shouldExit' = [shouldExit EXCEPT ![i] = FALSE]
  /\ UpdateClients
  /\ UNCHANGED <<mainVars, amsVars, wifiLock, wakeLock, crashed, timedOut>>

\* UiUpdater.updateClients() and loadSettings().
RunBegins(i) ==
  /\ Goto(i, "begin", "bind")
  /\ failedBinds' = [failedBinds EXCEPT ![i] = 0]
  /\ UpdateClients
  /\ UNCHANGED <<mainVars, amsVars, shouldExit, wifiLock, wakeLock, crashed, timedOut>>

BindSucceeds(i) ==
  /\ Goto(i, "bind", "wifi_create")
  /\ UNCHANGED <<mainVars, amsVars, ui, shouldExit, failedBinds, wifiLock,
                 wakeLock, crashed, timedOut>>

\* Fault: > for >=.
BindFailsOnceMore(i) ==
  /\ failedBinds' = [failedBinds EXCEPT ![i] = @ + 1]
  /\ Goto(i, "bind",
          IF failedBinds[i] + 1 > BindAttempts THEN "stop_service" ELSE "bind")
  /\ UNCHANGED <<mainVars, amsVars, ui, shouldExit, wifiLock, wakeLock, crashed, timedOut>>

\* The port is taken: try the next one, at most BindAttempts of them.
BindFails(i) ==
  /\ failedBinds' = [failedBinds EXCEPT ![i] = @ + 1]
  /\ Goto(i, "bind",
          IF failedBinds[i] + 1 >= BindAttempts THEN "stop_service" ELSE "bind")
  /\ UNCHANGED <<mainVars, amsVars, ui, shouldExit, wifiLock, wakeLock, crashed, timedOut>>

\* cleanupAndStopService: asks Android to destroy the service.
StopsItself(i) ==
  /\ Goto(i, "stop_service", "release_check")
  /\ StopService
  /\ UNCHANGED <<main, receivers, serverThread, ui, shouldExit, failedBinds,
                 wifiLock, wakeLock, crashed, timedOut>>

CreatesWifiLock(i) ==
  /\ Goto(i, "wifi_create", "wifi_acquire")
  /\ wifiLock' = [wifiLock EXCEPT !.ref = TRUE]
  /\ UNCHANGED <<mainVars, amsVars, ui, shouldExit, failedBinds, wakeLock, crashed, timedOut>>

AcquiresWifiLock(i) ==
  /\ Goto(i, "wifi_acquire", "ready")
  /\ IF wifiLock.ref
       THEN wifiLock' = [wifiLock EXCEPT !.held = TRUE] /\ UNCHANGED crashed
       ELSE crashed' = TRUE /\ UNCHANGED wifiLock
  /\ UNCHANGED <<mainVars, amsVars, ui, shouldExit, failedBinds, wakeLock, timedOut>>

TakeWakeLock(i) == wakeLock' = [wakeLock EXCEPT ![i] = TRUE]
ReleaseWakeLock(i) == wakeLock' = [wakeLock EXCEPT ![i] = FALSE]

\* takeWakeLock, setupNotification, UiUpdater.updateClients.
GetsReady(i) ==
  /\ Goto(i, "ready", "loop")
  /\ TakeWakeLock(i)
  /\ UpdateClients
  /\ UNCHANGED <<mainVars, amsVars, shouldExit, failedBinds, wifiLock, crashed, timedOut>>

\* while (!shouldExit)
ChecksExit(i) ==
  /\ Goto(i, "loop", IF shouldExit[i] THEN "terminate" ELSE "supervise")
  /\ UNCHANGED <<mainVars, amsVars, ui, shouldExit, failedBinds, wifiLock,
                 wakeLock, crashed, timedOut>>

\* Steps whose effect is on the listener and the sessions; FtpService adds it.
Supervises(i) ==
  /\ Goto(i, "supervise", "sleep")
  /\ UNCHANGED <<mainVars, amsVars, ui, shouldExit, failedBinds, wifiLock,
                 wakeLock, crashed, timedOut>>

Terminates(i) ==
  /\ Goto(i, "terminate", "quit_listener")
  /\ UNCHANGED <<mainVars, amsVars, ui, shouldExit, failedBinds, wifiLock,
                 wakeLock, crashed, timedOut>>

QuitsListener(i) ==
  /\ Goto(i, "quit_listener", "finish")
  /\ UNCHANGED <<mainVars, amsVars, ui, shouldExit, failedBinds, wifiLock,
                 wakeLock, crashed, timedOut>>

\* The sleep ends, by time or by the interrupt of onDestroy.
Wakes(i) ==
  /\ Goto(i, "sleep", "loop")
  /\ UNCHANGED <<mainVars, amsVars, ui, shouldExit, failedBinds, wifiLock,
                 wakeLock, crashed, timedOut>>

\* shouldExit = false and releaseWakeLock().
Acknowledges(i) ==
  /\ Goto(i, "finish", "release_check")
  /\ shouldExit' = [shouldExit EXCEPT ![i] = FALSE]
  /\ ReleaseWakeLock(i)
  /\ UNCHANGED <<mainVars, amsVars, ui, failedBinds, wifiLock, crashed, timedOut>>

\* releaseWifiLock(): check, release, set to null.
ChecksWifiLock(i) ==
  /\ Goto(i, "release_check", IF wifiLock.ref THEN "release" ELSE "exited")
  /\ UNCHANGED <<mainVars, amsVars, ui, shouldExit, failedBinds, wifiLock,
                 wakeLock, crashed, timedOut>>

ReleasesWifiLock(i) ==
  /\ Goto(i, "release", "release_null")
  /\ ReleaseWifiLockObject
  /\ UNCHANGED <<mainVars, amsVars, ui, shouldExit, failedBinds, wakeLock, timedOut>>

NullsWifiLock(i) ==
  /\ Goto(i, "release_null", "exited")
  /\ wifiLock' = [wifiLock EXCEPT !.ref = FALSE]
  /\ UNCHANGED <<mainVars, amsVars, ui, shouldExit, failedBinds, wakeLock, crashed, timedOut>>

-----------------------------------------------------------------------------
Ui == ClickStart \/ ClickStop \/ WifiChanges
      \/ \E i \in Instances : MediaUnmounted(i)

\* The steps of the callbacks the main thread takes from its queue.
MainThread ==
  \/ OnCreate
  \/ OnStart \/ OnStartWaits \/ OnStartGivesUp \/ OnStartSpawns
  \/ OnDestroy \/ OnDestroyJoins \/ OnDestroyTimesOut
  \/ OnDestroyChecksWifiLock \/ OnDestroyReleasesWifiLock \/ OnDestroyFinishes

ServerThread(i) ==
  \/ RunBegins(i) \/ StopsItself(i)
  \/ CreatesWifiLock(i) \/ AcquiresWifiLock(i) \/ GetsReady(i)
  \/ ChecksExit(i) \/ Wakes(i) \/ Acknowledges(i)
  \/ ChecksWifiLock(i) \/ ReleasesWifiLock(i) \/ NullsWifiLock(i)

\* The steps that FtpService joins with a step on sockets and sessions.
JoinedMain == OnDestroyCloses
JoinedServer(i) ==
  BindSucceeds(i) \/ BindFails(i) \/ Supervises(i) \/ Terminates(i) \/ QuitsListener(i)

\* An uncaught exception ends every thread of the process.
LifecycleNext ==
  /\ ~crashed
  /\ \/ Ui \/ UpdateUi
     \/ MainThread
     \/ JoinedMain
     \/ \E i \in Instances : ServerThread(i) \/ JoinedServer(i)

LifecycleSpec == LifecycleInit /\ [][LifecycleNext]_lifecycleVars

-----------------------------------------------------------------------------
(***************************************************************************)
(* Safety                                                                  *)
(***************************************************************************)

\* At most one server thread runs in the process, whatever the order of
\* starts and stops: onStart replaces serverThread only when it is null, and
\* onDestroy makes it null only for a thread that has ended.
AtMostOneServer ==
  \A i, j \in Instances : Alive(i) /\ Alive(j) => i = j

\* onDestroy of the instance has begun, or is over when it is not the one running.
DestroyHandled(i) ==
  /\ i \in created
  /\ record # i
  /\ Callback("DESTROY", i) \notin {inbox[k] : k \in DOMAIN inbox}

Retired(i) == DestroyHandled(i) /\ (main.pc = "idle" \/ main.inst # i)

\* No exit path of the service forgets something: the receiver of a retired
\* instance is unregistered (so the early return of onDestroy is never taken in
\* vain), its thread has ended and serverThread does not refer to it, unless a join
\* ran out of time, and with the thread the CPU lock goes in any case.
RetiredHoldsNothing ==
  \A i \in Instances : Retired(i) =>
    /\ i \notin receivers
    /\ Alive(i) \/ serverThread = i => timedOut
    /\ wakeLock[i] => Alive(i)

\* As long as no join runs out of time the wifi lock is held only while a server
\* thread runs: every way out of run() gives it back, and it is never lost.
WifiLockOnlyWhileServing ==
  wifiLock.held /\ ~timedOut => wifiLock.ref /\ \E i \in Instances : Alive(i)

\* FTPServerService.java:205-230, 506-522 - wifiLock is checked and used without a
\* lock by both threads, and a use of it after the other one has set it to null ends
\* the process.  That takes a join that ran out of time, and then a destroyed
\* instance whose thread had created its lock and not given it back.
NullLockNeedsTimeOut == crashed => timedOut

\* FTPServerService.java:182 - isRunning: "return true if and only if a server Thread
\* is running".  It looks only at the reference, and only onDestroy clears that.
IsRunningIsTrue == IsRunning <=> \E i \in Instances : Alive(i)

\* The server thread is in its loop or on the way to it.
Serving(i) == tpc[i] \in {"begin", "bind", "wifi_create", "wifi_acquire",
                          "ready", "loop", "supervise", "sleep"}

-----------------------------------------------------------------------------
(***************************************************************************)
(* Liveness                                                                *)
(***************************************************************************)

\* A destroyed service ends its server thread: the thread notices the flag
\* wherever the stop reaches it, even when the join gave up before.
StopEndsServer ==
  \A i \in Instances :
    (main.pc = "destroy_join" /\ main.inst = i) ~> (crashed \/ ~Alive(i))

\* When the network is lost for good the server stops, also when it was lost
\* while the start was still queued: run() announces itself to the fragment.
NoNetworkStopsServer ==
  <>[](~ui.wifi) => <>[](crashed \/ \A i \in Instances : ~Alive(i))
=============================================================================
