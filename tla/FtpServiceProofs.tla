--------------------------- MODULE FtpServiceProofs ---------------------------
(***************************************************************************)
(* Theorems about the service: first about its start and stop alone        *)
(* (ServiceLifecycle), for any number of instances and attempts and any    *)
(* length of the queue, then about the service with its listener and       *)
(* sessions (FtpService), which implements the former, for any number of   *)
(* sessions.                                                               *)
(***************************************************************************)
EXTENDS FtpService, SequenceTheorems, TLAPS

\* Everything LifecycleNext can do, one action per case, for the proofs.
LEMMA StepCases ==
  ASSUME LifecycleNext
  PROVE  \/ ClickStart \/ ClickStop \/ UpdateUi \/ WifiChanges
         \/ \E i \in Instances : MediaUnmounted(i)
         \/ OnCreate \/ OnStart \/ OnStartWaits \/ OnStartGivesUp \/ OnStartSpawns
         \/ OnDestroy \/ OnDestroyJoins \/ OnDestroyTimesOut \/ OnDestroyCloses
         \/ OnDestroyChecksWifiLock \/ OnDestroyReleasesWifiLock
         \/ OnDestroyFinishes
         \/ \E i \in Instances :
              \/ RunBegins(i) \/ BindSucceeds(i) \/ BindFails(i) \/ StopsItself(i)
              \/ CreatesWifiLock(i) \/ AcquiresWifiLock(i) \/ GetsReady(i)
              \/ ChecksExit(i) \/ Supervises(i) \/ Wakes(i) \/ Terminates(i)
              \/ QuitsListener(i) \/ Acknowledges(i)
              \/ ChecksWifiLock(i) \/ ReleasesWifiLock(i) \/ NullsWifiLock(i)
BY DEF LifecycleNext, Ui, MainThread, JoinedMain, ServerThread, JoinedServer

-----------------------------------------------------------------------------
(***************************************************************************)
(* Types.  Two facts make the type invariant inductive: a callback under   *)
(* way belongs to an instance, and a thread that binds has attempts left.  *)
(***************************************************************************)
BusyInstance == main.pc # "idle" => main.inst \in Instances

BindsLeft == \A i \in Instances : tpc[i] = "bind" => failedBinds[i] < BindAttempts

TypeInv == LifecycleTypeOK /\ BusyInstance /\ BindsLeft

\* Updates of the record-valued variables keep their types.
LEMMA RecordUpdates ==
  ASSUME LifecycleTypeOK
  PROVE  /\ \A b \in BOOLEAN :
              /\ [ui EXCEPT !.refresh = b]
                   \in [wifi : BOOLEAN, refresh : BOOLEAN, button : BOOLEAN]
              /\ [wifiLock EXCEPT !.ref = b] \in [ref : BOOLEAN, held : BOOLEAN]
              /\ [wifiLock EXCEPT !.held = b] \in [ref : BOOLEAN, held : BOOLEAN]
         /\ \A p \in MainPcs : [main EXCEPT !.pc = p]
              \in [pc : MainPcs, inst : Instances \cup {None},
                   attempts : 0..StartAttempts]
BY DEF LifecycleTypeOK

LEMMA TypeInit == LifecycleInit => TypeInv
<1>. SUFFICES ASSUME LifecycleInit PROVE TypeInv
  OBVIOUS
<1>1. main \in [pc : MainPcs, inst : Instances \cup {None}, attempts : 0..StartAttempts]
  BY BoundsAssumption DEF LifecycleInit, MainPcs
<1>2. inbox \in Seq(Callbacks)
  BY DEF LifecycleInit
<1>3. ui \in [wifi : BOOLEAN, refresh : BOOLEAN, button : BOOLEAN]
  BY DEF LifecycleInit
<1>4. tpc \in [Instances -> ThreadPcs] /\ \A i \in Instances : tpc[i] = "new"
  BY DEF LifecycleInit, ThreadPcs
<1>5. failedBinds \in [Instances -> 0..BindAttempts]
  BY BoundsAssumption DEF LifecycleInit
<1>6. wifiLock \in [ref : BOOLEAN, held : BOOLEAN]
  BY DEF LifecycleInit
<1>7. /\ record \in Instances \cup {None} /\ created \subseteq Instances
      /\ receivers \subseteq Instances /\ serverThread \in Instances \cup {None}
  BY DEF LifecycleInit
<1>8. /\ shouldExit \in [Instances -> BOOLEAN] /\ wakeLock \in [Instances -> BOOLEAN]
      /\ crashed \in BOOLEAN /\ timedOut \in BOOLEAN
  BY DEF LifecycleInit
<1>9. BusyInstance /\ BindsLeft
  BY <1>4 DEF LifecycleInit, BusyInstance, BindsLeft
<1>. QED
  BY <1>1, <1>2, <1>3, <1>4, <1>5, <1>6, <1>7, <1>8, <1>9 DEF TypeInv, LifecycleTypeOK

LEMMA CallbackType ==
  \A k \in {"CREATE", "START", "DESTROY"}, i \in Instances : Callback(k, i) \in Callbacks
BY DEF Callback, Callbacks

\* The activity manager keeps its own variables well typed.
LEMMA StartServiceType ==
  ASSUME LifecycleTypeOK, StartService
  PROVE  /\ inbox' \in Seq(Callbacks)
         /\ record' \in Instances \cup {None}
         /\ created' \subseteq Instances
<1>1. ASSUME NEW i \in Instances
      PROVE  <<Callback("CREATE", i), Callback("START", i)>> \in Seq(Callbacks)
  BY CallbackType
<1>2. inbox \in Seq(Callbacks) /\ record \in Instances \cup {None} /\ created \subseteq Instances
  BY DEF LifecycleTypeOK
<1>3. ASSUME record # None
      PROVE  Append(inbox, Callback("START", record)) \in Seq(Callbacks)
  BY <1>2, <1>3, CallbackType
<1>4. CASE record = None
  <2>1. PICK i \in Instances :
          /\ record' = i
          /\ created' = created \cup {i}
          /\ inbox' = inbox \o <<Callback("CREATE", i), Callback("START", i)>>
    BY <1>4 DEF StartService
  <2>. QED
    BY <1>1, <1>2, <2>1
<1>5. CASE record # None
  BY <1>2, <1>3, <1>5 DEF StartService, amsVars
<1>. QED
  BY <1>4, <1>5

LEMMA StopServiceType ==
  ASSUME LifecycleTypeOK, StopService
  PROVE  /\ inbox' \in Seq(Callbacks)
         /\ record' \in Instances \cup {None}
         /\ created' \subseteq Instances
<1>1. inbox \in Seq(Callbacks) /\ record \in Instances \cup {None} /\ created \subseteq Instances
  BY DEF LifecycleTypeOK
<1>2. ASSUME record # None
      PROVE  Append(inbox, Callback("DESTROY", record)) \in Seq(Callbacks)
  BY <1>1, <1>2, CallbackType
<1>. QED
  BY <1>1, <1>2 DEF StopService, amsVars

\* Taking a callback from a non-empty queue.
LEMMA TakeCallback ==
  ASSUME LifecycleTypeOK, NEW k, Handles(k)
  PROVE  Tail(inbox) \in Seq(Callbacks) /\ Head(inbox).inst \in Instances
<1>1. inbox \in Seq(Callbacks) /\ inbox # <<>>
  BY DEF LifecycleTypeOK, Handles
<1>2. Head(inbox) \in Callbacks /\ Tail(inbox) \in Seq(Callbacks)
  BY <1>1
<1>. QED
  BY <1>2 DEF Callbacks

LEMMA TypeStep == TypeInv /\ [LifecycleNext]_lifecycleVars => TypeInv'
<1>. SUFFICES ASSUME TypeInv, [LifecycleNext]_lifecycleVars PROVE TypeInv'
  OBVIOUS
<1>. USE BoundsAssumption DEF TypeInv, LifecycleTypeOK, BusyInstance, BindsLeft
<1>1. CASE ClickStart
  BY <1>1, StartServiceType DEF ClickStart, threadVars
<1>2. CASE ClickStop
  BY <1>2, StopServiceType DEF ClickStop, threadVars
<1>3. CASE UpdateUi
  <2>1. /\ inbox' \in Seq(Callbacks) /\ record' \in Instances \cup {None}
        /\ created' \subseteq Instances
    BY <1>3, StopServiceType DEF UpdateUi, amsVars
  <2>2. ui' \in [wifi : BOOLEAN, refresh : BOOLEAN, button : BOOLEAN]
    BY <1>3 DEF UpdateUi
  <2>3. UNCHANGED <<main, receivers, serverThread, threadVars>>
    BY <1>3 DEF UpdateUi
  <2>. QED
    BY <2>1, <2>2, <2>3 DEF threadVars
<1>4. CASE WifiChanges
  <2>1. ui' \in [wifi : BOOLEAN, refresh : BOOLEAN, button : BOOLEAN]
    BY <1>4 DEF WifiChanges
  <2>2. UNCHANGED <<mainVars, amsVars, threadVars>>
    BY <1>4 DEF WifiChanges
  <2>. QED
    BY <2>1, <2>2 DEF mainVars, amsVars, threadVars
<1>5. CASE OnCreate
  BY <1>5, TakeCallback DEF OnCreate, amsVars, threadVars
<1>6. CASE OnStart
  BY <1>6, TakeCallback DEF OnStart, amsVars, MainPcs
<1>7. CASE OnStartWaits
  <2>1. main' \in [pc : MainPcs, inst : Instances \cup {None},
                    attempts : 0..StartAttempts]
    <3>1. main.attempts - 1 \in 0..StartAttempts
      BY <1>7 DEF OnStartWaits
    <3>2. main' = [main EXCEPT !.attempts = main.attempts - 1]
      BY <1>7 DEF OnStartWaits
    <3>. QED
      BY <3>1, <3>2
  <2>2. main'.pc = main.pc /\ main'.inst = main.inst
    BY <1>7 DEF OnStartWaits
  <2>. QED
    BY <1>7, <2>1, <2>2 DEF OnStartWaits, amsVars, threadVars
<1>8. CASE OnStartGivesUp
  BY <1>8 DEF OnStartGivesUp, MainPcs, mainVars, amsVars, threadVars
<1>9. CASE OnStartSpawns
  BY <1>9 DEF OnStartSpawns, MainPcs, mainVars, amsVars, threadVars, ThreadPcs
<1>10. CASE OnDestroy
  BY <1>10, TakeCallback DEF OnDestroy, amsVars, MainPcs
<1>11. CASE OnDestroyJoins
  BY <1>11 DEF OnDestroyJoins, MainPcs, mainVars, amsVars, threadVars
<1>12. CASE OnDestroyTimesOut
  BY <1>12 DEF OnDestroyTimesOut, MainPcs, mainVars, amsVars, threadVars
<1>13. CASE OnDestroyCloses
  BY <1>13 DEF OnDestroyCloses, MainPcs, mainVars, amsVars, threadVars, UpdateClients
<1>14. CASE OnDestroyChecksWifiLock
  BY <1>14, ZenonT(60) DEF OnDestroyChecksWifiLock, MainPcs, mainVars, amsVars, threadVars
<1>15. CASE OnDestroyReleasesWifiLock
  BY <1>15 DEF OnDestroyReleasesWifiLock, MainPcs, mainVars, amsVars, threadVars, ReleaseWifiLockObject
<1>16. CASE OnDestroyFinishes
  BY <1>16 DEF OnDestroyFinishes, MainPcs, mainVars, amsVars, threadVars
<1>17. CASE \E i \in Instances : MediaUnmounted(i)
  BY <1>17, StopServiceType DEF MediaUnmounted, threadVars
<1>18. CASE \E i \in Instances : RunBegins(i)
  <2>1. PICK i \in Instances : RunBegins(i)
    BY <1>18
  <2>2. ui' \in [wifi : BOOLEAN, refresh : BOOLEAN, button : BOOLEAN]
    BY <2>1, RecordUpdates DEF RunBegins, UpdateClients
  <2>3. tpc' \in [Instances -> ThreadPcs] /\ BindsLeft'
    BY <2>1 DEF RunBegins, Goto, ThreadPcs
  <2>4. failedBinds' \in [Instances -> 0..BindAttempts]
    BY <2>1 DEF RunBegins, UpdateClients
  <2>. QED
    BY <2>1, <2>2, <2>3, <2>4 DEF RunBegins, mainVars, amsVars
<1>19. CASE \E i \in Instances : BindSucceeds(i)
  BY <1>19 DEF BindSucceeds, Goto, ThreadPcs, mainVars, amsVars
<1>20. CASE \E i \in Instances : BindFails(i)
  BY <1>20 DEF BindFails, Goto, ThreadPcs, mainVars, amsVars
<1>21. CASE \E i \in Instances : StopsItself(i)
  BY <1>21, StopServiceType DEF StopsItself, Goto, ThreadPcs
<1>22. CASE \E i \in Instances : CreatesWifiLock(i)
  <2>1. PICK i \in Instances : CreatesWifiLock(i)
    BY <1>22
  <2>2. wifiLock' \in [ref : BOOLEAN, held : BOOLEAN] /\ crashed' \in BOOLEAN
    BY <2>1, RecordUpdates DEF CreatesWifiLock
  <2>3. tpc' \in [Instances -> ThreadPcs] /\ BindsLeft'
    BY <2>1 DEF CreatesWifiLock, Goto, ThreadPcs
  <2>. QED
    BY <2>1, <2>2, <2>3 DEF CreatesWifiLock, mainVars, amsVars
<1>23. CASE \E i \in Instances : AcquiresWifiLock(i)
  <2>1. PICK i \in Instances : AcquiresWifiLock(i)
    BY <1>23
  <2>2. wifiLock' \in [ref : BOOLEAN, held : BOOLEAN] /\ crashed' \in BOOLEAN
    BY <2>1, RecordUpdates DEF AcquiresWifiLock
  <2>3. tpc' \in [Instances -> ThreadPcs] /\ BindsLeft'
    BY <2>1 DEF AcquiresWifiLock, Goto, ThreadPcs
  <2>. QED
    BY <2>1, <2>2, <2>3 DEF AcquiresWifiLock, mainVars, amsVars
<1>24. CASE \E i \in Instances : GetsReady(i)
  <2>1. PICK i \in Instances : GetsReady(i)
    BY <1>24
  <2>2. ui' \in [wifi : BOOLEAN, refresh : BOOLEAN, button : BOOLEAN]
    BY <2>1, RecordUpdates DEF GetsReady, UpdateClients, TakeWakeLock
  <2>3. tpc' \in [Instances -> ThreadPcs] /\ BindsLeft'
    BY <2>1 DEF GetsReady, Goto, ThreadPcs
  <2>. QED
    BY <2>1, <2>2, <2>3 DEF GetsReady, mainVars, amsVars, TakeWakeLock
<1>25. CASE \E i \in Instances : ChecksExit(i)
  BY <1>25 DEF ChecksExit, Goto, ThreadPcs, mainVars, amsVars
<1>26. CASE \E i \in Instances : Supervises(i)
  BY <1>26 DEF Supervises, Goto, ThreadPcs, mainVars, amsVars
<1>27. CASE \E i \in Instances : Wakes(i)
  BY <1>27 DEF Wakes, Goto, ThreadPcs, mainVars, amsVars
<1>28. CASE \E i \in Instances : Terminates(i)
  BY <1>28 DEF Terminates, Goto, ThreadPcs, mainVars, amsVars
<1>29. CASE \E i \in Instances : QuitsListener(i)
  BY <1>29 DEF QuitsListener, Goto, ThreadPcs, mainVars, amsVars
<1>30. CASE \E i \in Instances : Acknowledges(i)
  BY <1>30 DEF Acknowledges, Goto, ThreadPcs, mainVars, amsVars, ReleaseWakeLock
<1>31. CASE \E i \in Instances : ChecksWifiLock(i)
  BY <1>31 DEF ChecksWifiLock, Goto, ThreadPcs, mainVars, amsVars
<1>32. CASE \E i \in Instances : ReleasesWifiLock(i)
  <2>1. PICK i \in Instances : ReleasesWifiLock(i)
    BY <1>32
  <2>2. wifiLock' \in [ref : BOOLEAN, held : BOOLEAN] /\ crashed' \in BOOLEAN
    BY <2>1, RecordUpdates DEF ReleasesWifiLock, ReleaseWifiLockObject
  <2>3. tpc' \in [Instances -> ThreadPcs] /\ BindsLeft'
    BY <2>1 DEF ReleasesWifiLock, Goto, ThreadPcs
  <2>. QED
    BY <2>1, <2>2, <2>3 DEF ReleasesWifiLock, mainVars, amsVars
<1>33. CASE \E i \in Instances : NullsWifiLock(i)
  <2>1. PICK i \in Instances : NullsWifiLock(i)
    BY <1>33
  <2>2. wifiLock' \in [ref : BOOLEAN, held : BOOLEAN] /\ crashed' \in BOOLEAN
    BY <2>1, RecordUpdates DEF NullsWifiLock
  <2>3. tpc' \in [Instances -> ThreadPcs] /\ BindsLeft'
    BY <2>1 DEF NullsWifiLock, Goto, ThreadPcs
  <2>. QED
    BY <2>1, <2>2, <2>3 DEF NullsWifiLock, mainVars, amsVars
<1>34. CASE UNCHANGED lifecycleVars
  BY <1>34 DEF lifecycleVars, mainVars, amsVars, threadVars
<1>. QED
  BY StepCases, <1>1, <1>2, <1>3, <1>4, <1>5, <1>6, <1>7, <1>8, <1>9, <1>10, <1>11, <1>12, <1>13, <1>14, <1>15, <1>16, <1>17, <1>18, <1>19, <1>20, <1>21, <1>22, <1>23, <1>24, <1>25, <1>26, <1>27, <1>28, <1>29, <1>30, <1>31, <1>32, <1>33, <1>34

\* The variables keep their types: in particular onStart never counts its
\* attempts below zero and run() never tries more ports than it may.
THEOREM LifecycleTypeCorrect == LifecycleSpec => []LifecycleTypeOK
<1>1. TypeInv => LifecycleTypeOK
  BY DEF TypeInv
<1>. QED
  BY TypeInit, TypeStep, <1>1, PTL DEF LifecycleSpec

-----------------------------------------------------------------------------
(***************************************************************************)
(* At most one server thread.  The inductive invariant: whoever runs is    *)
(* the thread serverThread refers to.                                      *)
(***************************************************************************)
CurrentThread == \A i \in Instances : Alive(i) => serverThread = i

\* A step of a server thread: only a running thread takes one, and it does
\* not touch serverThread.
ThreadStep(i) ==
  /\ Alive(i)
  /\ \E to \in ThreadPcs : tpc' = [tpc EXCEPT ![i] = to]
  /\ serverThread' = serverThread

LEMMA StepShapes ==
  ASSUME [LifecycleNext]_lifecycleVars
  PROVE  \/ OnStartSpawns
         \/ OnDestroyJoins
         \/ \E i \in Instances : ThreadStep(i)
         \/ UNCHANGED <<tpc, serverThread>>
<1>1. CASE UNCHANGED lifecycleVars
  BY <1>1 DEF lifecycleVars, mainVars, threadVars
<1>2. CASE ClickStart \/ ClickStop \/ UpdateUi \/ WifiChanges
  BY <1>2 DEF ClickStart, ClickStop, UpdateUi, WifiChanges, mainVars, threadVars
<1>3. CASE \E i \in Instances : MediaUnmounted(i)
  BY <1>3 DEF MediaUnmounted, threadVars
<1>4. CASE OnCreate \/ OnStart \/ OnStartWaits \/ OnStartGivesUp
  BY <1>4 DEF OnCreate, OnStart, OnStartWaits, OnStartGivesUp, threadVars
<1>5. CASE OnDestroy \/ OnDestroyTimesOut \/ OnDestroyCloses
  BY <1>5 DEF OnDestroy, OnDestroyTimesOut, OnDestroyCloses, threadVars
<1>6. CASE \/ OnDestroyChecksWifiLock \/ OnDestroyReleasesWifiLock
           \/ OnDestroyFinishes
  BY <1>6
  DEF OnDestroyChecksWifiLock, OnDestroyReleasesWifiLock, OnDestroyFinishes, threadVars
<1>7. CASE \E i \in Instances :
             \/ RunBegins(i) \/ BindSucceeds(i) \/ BindFails(i) \/ StopsItself(i)
             \/ CreatesWifiLock(i) \/ AcquiresWifiLock(i) \/ GetsReady(i)
             \/ ChecksExit(i)
  BY <1>7
  DEF RunBegins, BindSucceeds, BindFails, StopsItself, CreatesWifiLock,
      AcquiresWifiLock, GetsReady, ChecksExit, Goto, ThreadStep, Alive,
      ThreadPcs, mainVars
<1>8. CASE \E i \in Instances :
             \/ Supervises(i) \/ Wakes(i) \/ Terminates(i) \/ QuitsListener(i)
             \/ Acknowledges(i) \/ ChecksWifiLock(i) \/ ReleasesWifiLock(i)
             \/ NullsWifiLock(i)
  BY <1>8
  DEF Supervises, Wakes, Terminates, QuitsListener, Acknowledges,
      ChecksWifiLock, ReleasesWifiLock, NullsWifiLock, Goto, ThreadStep, Alive,
      ThreadPcs, mainVars
<1>. QED
  BY StepCases, <1>1, <1>2, <1>3, <1>4, <1>5, <1>6, <1>7, <1>8

LEMMA CurrentThreadStep ==
  TypeInv /\ CurrentThread /\ [LifecycleNext]_lifecycleVars => CurrentThread'
<1>. SUFFICES ASSUME TypeInv, CurrentThread, [LifecycleNext]_lifecycleVars,
                     NEW i \in Instances, Alive(i)'
              PROVE  serverThread' = i
  BY DEF CurrentThread
<1>. USE DEF TypeInv, LifecycleTypeOK
<1>1. CASE OnStartSpawns
  \* Nobody runs before: serverThread was null.
  <2>1. \A j \in Instances : ~Alive(j)
    BY <1>1, NoneAssumption DEF OnStartSpawns, CurrentThread
  <2>. QED
    BY <1>1, <2>1 DEF OnStartSpawns, Alive
<1>2. CASE OnDestroyJoins
  \* The thread that serverThread referred to has ended, so i has too.
  BY <1>2 DEF OnDestroyJoins, CurrentThread, Alive, threadVars
<1>3. CASE \E j \in Instances : ThreadStep(j)
  <2>1. PICK j \in Instances : ThreadStep(j)
    BY <1>3
  <2>2. Alive(i)
    BY <2>1 DEF ThreadStep, Alive
  <2>. QED
    BY <2>1, <2>2 DEF ThreadStep, CurrentThread
<1>4. CASE UNCHANGED <<tpc, serverThread>>
  BY <1>4 DEF CurrentThread, Alive
<1>. QED
  BY StepShapes, <1>1, <1>2, <1>3, <1>4

\* However starts and stops interleave, and also when onDestroy gives up its
\* wait, two server threads never run at the same time.
THEOREM OneServer == LifecycleSpec => []AtMostOneServer
<1>1. LifecycleInit => CurrentThread
  BY DEF LifecycleInit, CurrentThread, Alive
<1>2. TypeInv /\ CurrentThread => AtMostOneServer
  BY DEF CurrentThread, AtMostOneServer
<1>. QED
  BY TypeInit, TypeStep, CurrentThreadStep, <1>1, <1>2, PTL DEF LifecycleSpec

-----------------------------------------------------------------------------
(***************************************************************************)
(* The wifi lock, as long as no join of onDestroy has run out of time.  The *)
(* reference is set exactly between the creation of the lock and the end   *)
(* of the release by the running thread, and when onDestroy comes to look  *)
(* at it no thread runs any more, so it finds null.                        *)
(***************************************************************************)
UsesLock == {"wifi_acquire", "ready", "loop", "supervise", "sleep", "terminate",
             "quit_listener", "finish", "release", "release_null"}

\* After a successful join nothing runs until onDestroy is over.
DestroyRunsAlone ==
  /\ main.pc \in {"destroy_close", "destroy_wifi"} => serverThread = None
  /\ main.pc \notin {"destroy_release", "destroy_null"}

LockOwned ==
  /\ wifiLock.ref => \E i \in Instances : tpc[i] \in UsesLock \cup {"release_check"}
  /\ wifiLock.held => wifiLock.ref
  /\ \A i \in Instances : tpc[i] \in UsesLock => wifiLock.ref

\* release() comes before the reference is given up.
LockFreed == \A i \in Instances : tpc[i] = "release_null" => ~wifiLock.held

LockInv ==
  /\ CurrentThread
  /\ ~timedOut => DestroyRunsAlone /\ LockOwned /\ LockFreed /\ ~crashed

\* That a join ran out of time is never taken back.
LEMMA TimedOutStays ==
  ASSUME [LifecycleNext]_lifecycleVars, timedOut
  PROVE  timedOut'
<1>1. CASE \/ ClickStart \/ ClickStop \/ UpdateUi \/ WifiChanges
           \/ \E i \in Instances : MediaUnmounted(i)
  BY <1>1 DEF ClickStart, ClickStop, UpdateUi, WifiChanges, MediaUnmounted, threadVars
<1>2. CASE OnCreate \/ OnStart \/ OnStartWaits \/ OnStartGivesUp \/ OnStartSpawns
  BY <1>2 DEF OnCreate, OnStart, OnStartWaits, OnStartGivesUp, OnStartSpawns, threadVars
<1>3. CASE \/ OnDestroy \/ OnDestroyJoins \/ OnDestroyTimesOut \/ OnDestroyCloses
           \/ OnDestroyChecksWifiLock \/ OnDestroyReleasesWifiLock
           \/ OnDestroyFinishes
  BY <1>3
  DEF OnDestroy, OnDestroyJoins, OnDestroyTimesOut, OnDestroyCloses,
      OnDestroyChecksWifiLock, OnDestroyReleasesWifiLock, OnDestroyFinishes, threadVars
<1>4. CASE \E i \in Instances :
             \/ RunBegins(i) \/ BindSucceeds(i) \/ BindFails(i) \/ StopsItself(i)
             \/ CreatesWifiLock(i) \/ AcquiresWifiLock(i) \/ GetsReady(i)
             \/ ChecksExit(i) \/ Supervises(i)
  BY <1>4
  DEF RunBegins, BindSucceeds, BindFails, StopsItself, CreatesWifiLock,
      AcquiresWifiLock, GetsReady, ChecksExit, Supervises
<1>5. CASE \E i \in Instances :
             \/ Wakes(i) \/ Terminates(i) \/ QuitsListener(i) \/ Acknowledges(i)
             \/ ChecksWifiLock(i) \/ ReleasesWifiLock(i) \/ NullsWifiLock(i)
  BY <1>5
  DEF Wakes, Terminates, QuitsListener, Acknowledges, ChecksWifiLock,
      ReleasesWifiLock, NullsWifiLock
<1>6. CASE UNCHANGED lifecycleVars
  BY <1>6 DEF lifecycleVars, threadVars
<1>. QED
  BY StepCases, <1>1, <1>2, <1>3, <1>4, <1>5, <1>6

LEMMA LockStep == TypeInv /\ LockInv /\ [LifecycleNext]_lifecycleVars => LockInv'
<1>. SUFFICES ASSUME TypeInv, CurrentThread, DestroyRunsAlone, LockOwned, LockFreed,
                     ~crashed, [LifecycleNext]_lifecycleVars, ~timedOut'
              PROVE  (DestroyRunsAlone /\ LockOwned /\ LockFreed /\ ~crashed)'
  BY CurrentThreadStep, TimedOutStays DEF LockInv
<1>. USE DEF TypeInv, LifecycleTypeOK
<1>0. CurrentThread'
  BY CurrentThreadStep
<1>a. serverThread = None =>
        \A i \in Instances : tpc[i] \notin UsesLock \cup {"release_check"}
  BY NoneAssumption DEF CurrentThread, Alive, UsesLock
<1>1. CASE ClickStart
  BY <1>1, <1>0 DEF ClickStart, DestroyRunsAlone, LockOwned, LockFreed, mainVars, amsVars, threadVars
<1>2. CASE ClickStop
  BY <1>2, <1>0 DEF ClickStop, DestroyRunsAlone, LockOwned, LockFreed, mainVars, amsVars, threadVars
<1>3. CASE UpdateUi
  BY <1>3, <1>0 DEF UpdateUi, DestroyRunsAlone, LockOwned, LockFreed, mainVars, amsVars, threadVars
<1>4. CASE WifiChanges
  BY <1>4, <1>0 DEF WifiChanges, DestroyRunsAlone, LockOwned, LockFreed, mainVars, amsVars, threadVars
<1>5. CASE OnCreate
  BY <1>5, <1>0 DEF OnCreate, DestroyRunsAlone, LockOwned, LockFreed, mainVars, amsVars, threadVars
<1>6. CASE OnStart
  BY <1>6, <1>0 DEF OnStart, DestroyRunsAlone, LockOwned, LockFreed, mainVars, amsVars, threadVars
<1>7. CASE OnStartWaits
  BY <1>7, <1>0 DEF OnStartWaits, DestroyRunsAlone, LockOwned, LockFreed, mainVars, amsVars, threadVars
<1>8. CASE OnStartGivesUp
  BY <1>8, <1>0 DEF OnStartGivesUp, DestroyRunsAlone, LockOwned, LockFreed, mainVars, amsVars, threadVars
<1>9. CASE OnStartSpawns
  <2>1. ~wifiLock.ref /\ ~wifiLock.held
    BY <1>9, <1>a DEF OnStartSpawns, LockOwned
  <2>2. LockOwned'
    BY <1>9, <2>1, <1>a DEF OnStartSpawns, LockOwned, UsesLock
  <2>3. DestroyRunsAlone' /\ LockFreed' /\ crashed' = FALSE
    BY <1>9, <2>1 DEF OnStartSpawns, DestroyRunsAlone, LockFreed
  <2>. QED
    BY <1>0, <2>2, <2>3
<1>10. CASE OnDestroy
  BY <1>10, <1>0 DEF OnDestroy, DestroyRunsAlone, LockOwned, LockFreed, mainVars, amsVars, threadVars
<1>11. CASE OnDestroyJoins
  BY <1>11, <1>0 DEF OnDestroyJoins, DestroyRunsAlone, LockOwned, LockFreed, mainVars, amsVars, threadVars
<1>12. CASE OnDestroyTimesOut
  BY <1>12, <1>0 DEF OnDestroyTimesOut, DestroyRunsAlone, LockOwned, LockFreed, mainVars, amsVars, threadVars
<1>13. CASE OnDestroyCloses
  BY <1>13, <1>0 DEF OnDestroyCloses, DestroyRunsAlone, LockOwned, LockFreed, mainVars, amsVars, threadVars
<1>14. CASE OnDestroyChecksWifiLock
  <2>1. ~wifiLock.ref
    BY <1>14, <1>a DEF OnDestroyChecksWifiLock, DestroyRunsAlone, LockOwned, LockFreed
  <2>. QED
    BY <1>14, <1>0, <2>1
    DEF OnDestroyChecksWifiLock, DestroyRunsAlone, LockOwned, LockFreed, amsVars, threadVars
<1>15. CASE OnDestroyReleasesWifiLock
  BY <1>15, <1>0 DEF OnDestroyReleasesWifiLock, DestroyRunsAlone, LockOwned, LockFreed, mainVars, amsVars, threadVars
<1>16. CASE OnDestroyFinishes
  BY <1>16, <1>0 DEF OnDestroyFinishes, DestroyRunsAlone, LockOwned, LockFreed, mainVars, amsVars, threadVars
<1>17. CASE \E i \in Instances : MediaUnmounted(i)
  BY <1>17, <1>0 DEF MediaUnmounted, DestroyRunsAlone, LockOwned, LockFreed, threadVars
<1>18. CASE \E i \in Instances : RunBegins(i)
  BY <1>18, <1>0 DEF RunBegins, Goto, DestroyRunsAlone, LockOwned, LockFreed, UsesLock, CurrentThread, Alive, mainVars
<1>19. CASE \E i \in Instances : BindSucceeds(i)
  BY <1>19, <1>0 DEF BindSucceeds, Goto, DestroyRunsAlone, LockOwned, LockFreed, UsesLock, CurrentThread, Alive, mainVars
<1>20. CASE \E i \in Instances : BindFails(i)
  BY <1>20, <1>0 DEF BindFails, Goto, DestroyRunsAlone, LockOwned, LockFreed, UsesLock, CurrentThread, Alive, mainVars
<1>21. CASE \E i \in Instances : StopsItself(i)
  BY <1>21, <1>0 DEF StopsItself, Goto, DestroyRunsAlone, LockOwned, LockFreed, UsesLock, CurrentThread, Alive, mainVars
<1>22. CASE \E i \in Instances : CreatesWifiLock(i)
  BY <1>22, <1>0 DEF CreatesWifiLock, Goto, DestroyRunsAlone, LockOwned, LockFreed, UsesLock, CurrentThread, Alive, mainVars
<1>23. CASE \E i \in Instances : AcquiresWifiLock(i)
  <2>1. PICK i \in Instances : AcquiresWifiLock(i)
    BY <1>23
  <2>2. wifiLock' = [wifiLock EXCEPT !.held = TRUE] /\ wifiLock.ref /\ crashed' = crashed
    BY <2>1 DEF AcquiresWifiLock, Goto, LockOwned, UsesLock
  <2>3. \A j \in Instances : tpc'[j] # "release_null"
    BY <2>1 DEF AcquiresWifiLock, Goto, CurrentThread, Alive
  <2>4. wifiLock'.ref
    BY <2>2
  <2>5. tpc'[i] \in UsesLock
    BY <2>1 DEF AcquiresWifiLock, Goto, UsesLock
  <2>6. DestroyRunsAlone'
    BY <2>1 DEF AcquiresWifiLock, DestroyRunsAlone, mainVars
  <2>. QED
    BY <1>0, <2>2, <2>3, <2>4, <2>5, <2>6 DEF LockOwned, LockFreed
<1>24. CASE \E i \in Instances : GetsReady(i)
  BY <1>24, <1>0 DEF GetsReady, Goto, DestroyRunsAlone, LockOwned, LockFreed, UsesLock, CurrentThread, Alive, mainVars
<1>25. CASE \E i \in Instances : ChecksExit(i)
  BY <1>25, <1>0 DEF ChecksExit, Goto, DestroyRunsAlone, LockOwned, LockFreed, UsesLock, CurrentThread, Alive, mainVars
<1>26. CASE \E i \in Instances : Supervises(i)
  BY <1>26, <1>0 DEF Supervises, Goto, DestroyRunsAlone, LockOwned, LockFreed, UsesLock, CurrentThread, Alive, mainVars
<1>27. CASE \E i \in Instances : Wakes(i)
  BY <1>27, <1>0 DEF Wakes, Goto, DestroyRunsAlone, LockOwned, LockFreed, UsesLock, CurrentThread, Alive, mainVars
<1>28. CASE \E i \in Instances : Terminates(i)
  BY <1>28, <1>0 DEF Terminates, Goto, DestroyRunsAlone, LockOwned, LockFreed, UsesLock, CurrentThread, Alive, mainVars
<1>29. CASE \E i \in Instances : QuitsListener(i)
  BY <1>29, <1>0 DEF QuitsListener, Goto, DestroyRunsAlone, LockOwned, LockFreed, UsesLock, CurrentThread, Alive, mainVars
<1>30. CASE \E i \in Instances : Acknowledges(i)
  BY <1>30, <1>0 DEF Acknowledges, Goto, DestroyRunsAlone, LockOwned, LockFreed, UsesLock, CurrentThread, Alive, mainVars
<1>31. CASE \E i \in Instances : ChecksWifiLock(i)
  BY <1>31, <1>0 DEF ChecksWifiLock, Goto, DestroyRunsAlone, LockOwned, LockFreed, UsesLock, CurrentThread, Alive, mainVars
<1>32. CASE \E i \in Instances : ReleasesWifiLock(i)
  BY <1>32, <1>0 DEF ReleasesWifiLock, Goto, DestroyRunsAlone, LockOwned, LockFreed, UsesLock, CurrentThread, Alive, mainVars, ReleaseWifiLockObject
<1>33. CASE \E i \in Instances : NullsWifiLock(i)
  <2>1. PICK i \in Instances : NullsWifiLock(i)
    BY <1>33
  <2>2. \A j \in Instances : tpc'[j] \notin UsesLock
    BY <2>1 DEF NullsWifiLock, Goto, CurrentThread, Alive, UsesLock
  <2>3. ~wifiLock.held
    BY <2>1 DEF NullsWifiLock, Goto, LockFreed
  <2>4. ~wifiLock'.ref /\ ~wifiLock'.held
    BY <2>1, <2>3 DEF NullsWifiLock
  <2>5. DestroyRunsAlone' /\ LockFreed' /\ crashed' = FALSE
    BY <2>1, <2>4 DEF NullsWifiLock, DestroyRunsAlone, LockFreed, mainVars
  <2>. QED
    BY <1>0, <2>2, <2>4, <2>5 DEF LockOwned
<1>34. CASE UNCHANGED lifecycleVars
  BY <1>34, <1>0 DEF lifecycleVars, mainVars, amsVars, threadVars, DestroyRunsAlone, LockOwned, LockFreed
<1>. QED
  BY StepCases, <1>1, <1>2, <1>3, <1>4, <1>5, <1>6, <1>7, <1>8, <1>9, <1>10, <1>11, <1>12, <1>13, <1>14, <1>15, <1>16, <1>17, <1>18, <1>19, <1>20, <1>21, <1>22, <1>23, <1>24, <1>25, <1>26, <1>27, <1>28, <1>29, <1>30, <1>31, <1>32, <1>33, <1>34

LEMMA LockInit == LifecycleInit => LockInv
BY DEF LifecycleInit, LockInv, CurrentThread, DestroyRunsAlone, LockOwned,
       LockFreed, Alive, UsesLock

\* FTPServerService.java:205-230, 506-522 - a thread follows a null that the other
\* one has put into wifiLock only after a join of onDestroy has run out of time.
THEOREM NullLockTakesTimeOut == LifecycleSpec => []NullLockNeedsTimeOut
<1>1. LockInv => NullLockNeedsTimeOut
  BY DEF LockInv, NullLockNeedsTimeOut
<1>. QED
  BY TypeInit, TypeStep, LockInit, LockStep, <1>1, PTL DEF LifecycleSpec

\* Until then the lock is held only while a server runs, and never without a
\* reference through which it can be released.
THEOREM WifiLockReturned == LifecycleSpec => []WifiLockOnlyWhileServing
<1>1. LockInv => WifiLockOnlyWhileServing
  BY DEF LockInv, LockOwned, WifiLockOnlyWhileServing, UsesLock, Alive
<1>. QED
  BY TypeInit, TypeStep, LockInit, LockStep, <1>1, PTL DEF LifecycleSpec

-----------------------------------------------------------------------------
(***************************************************************************)
(* The composition adds nothing to the start and stop of the service: seen *)
(* through the variables of ServiceLifecycle, FtpService behaves as        *)
(* LifecycleSpec says, so whatever holds of that module holds of this one. *)
(***************************************************************************)
LEMMA StepMaps == [Next]_vars => [LifecycleNext]_lifecycleVars
<1>. SUFFICES ASSUME [Next]_vars PROVE [LifecycleNext]_lifecycleVars
  OBVIOUS
<1>1. CASE ~crashed /\ LifecycleStep
  BY <1>1 DEF LifecycleStep, LifecycleNext
<1>2. CASE ~crashed /\ \E i \in Instances : RunOnSockets(i)
  BY <1>2
  DEF RunOnSockets, RunBindsListener, RunFailsToBind, RunSupervises,
      RunTerminatesSessions, RunQuitsListener, LifecycleNext, JoinedServer
<1>3. CASE ~crashed /\ DestroyClosesListener
  BY <1>3 DEF DestroyClosesListener, LifecycleNext, JoinedMain
<1>4. CASE SocketStep
  BY <1>4 DEF SocketStep
<1>5. CASE UNCHANGED vars
  BY <1>5 DEF vars
<1>. QED
  BY <1>1, <1>2, <1>3, <1>4, <1>5 DEF Next

\* The service with listener and sessions implements the service without.
THEOREM ServiceImplementsLifecycle == Spec => LifecycleSpec
<1>1. Init => LifecycleInit
  BY DEF Init
<1>. QED
  BY <1>1, StepMaps, PTL DEF Spec, LifecycleSpec

\* One server thread at a time, with any listener and any sessions.
THEOREM OneServerInService == Spec => []AtMostOneServer
BY ServiceImplementsLifecycle, OneServer, PTL

-----------------------------------------------------------------------------
(***************************************************************************)
(* The sessions the server thread can reach.  The listener hands a session *)
(* from accept() to the list without losing it on the way.                 *)
(***************************************************************************)
\* The listener holds a session exactly while it starts and registers it.
HandOver ==
  \A i \in Instances :
    IF listener[i] \in {"starting", "registering"}
      THEN /\ accepted[i] \in Sessions
           /\ session[accepted[i]].service = i
           /\ session[accepted[i]].pc # "none"
           /\ listener[i] = "registering" => session[accepted[i]].pc # "new"
      ELSE accepted[i] = None

SessionsKnown ==
  \A s \in Sessions : session[s].pc \notin {"none", "dead"} =>
    /\ session[s].service \in Instances
    /\ \/ s \in sessionThreads[session[s].service] /\ session[s].pc # "new"
       \/ accepted[session[s].service] = s

SessionInv == SessionTypeOK /\ HandOver /\ SessionsKnown

LEMMA SessionInvInit == SessionInit => SessionInv
<1>. SUFFICES ASSUME SessionInit PROVE SessionInv
  OBVIOUS
<1>1. session \in [Sessions -> Session]
  BY AheadAssumption DEF SessionInit, Session, SessionPcs
<1>. QED
  BY <1>1 DEF SessionInit, SessionInv, SessionTypeOK, HandOver, SessionsKnown,
              SocketStates, ListenerPcs

\* Updates of the record of a session.
LEMMA SessionUpdate ==
  ASSUME NEW r \in Session
  PROVE  /\ \A p \in SessionPcs :
              /\ [r EXCEPT !.pc = p] \in Session
              /\ [r EXCEPT !.pc = p].service = r.service
              /\ [r EXCEPT !.pc = p].pc = p
         /\ \A n \in 0..MaxAhead :
              /\ [r EXCEPT !.ahead = n] \in Session
              /\ [r EXCEPT !.ahead = n].service = r.service
              /\ [r EXCEPT !.ahead = n].pc = r.pc
         /\ [r EXCEPT !.cmd = "closed"] \in Session
         /\ [r EXCEPT !.cmd = "closed"].service = r.service
         /\ [r EXCEPT !.cmd = "closed"].pc = r.pc
         /\ \A d \in {"null", "open"} :
              /\ [r EXCEPT !.data = d] \in Session
              /\ [r EXCEPT !.data = d].service = r.service
              /\ [r EXCEPT !.data = d].pc = r.pc
BY DEF Session

\* The steps of the server thread and of onDestroy.
LEMMA ControlStep ==
  ASSUME SessionInv, NEW i,
         \/ SetupListener(i) \/ SetupListenerFails(i) \/ SuperviseListener(i)
         \/ TerminateAllSessions(i) \/ QuitListener(i) \/ CloseListenSocket(i)
  PROVE  SessionInv'
<1>. USE DEF SessionInv, SessionTypeOK, HandOver, SessionsKnown
<1>1. CASE \/ SetupListener(i) \/ SetupListenerFails(i)
           \/ QuitListener(i) \/ CloseListenSocket(i)
  BY <1>1
  DEF SetupListener, SetupListenerFails, QuitListener, CloseListenSocket, SocketStates
<1>2. CASE SuperviseListener(i)
  BY <1>2 DEF SuperviseListener, ListenerPcs
<1>3. CASE TerminateAllSessions(i)
  <2>1. \A s \in Sessions : /\ session'[s] \in Session
                            /\ session'[s].pc = session[s].pc
                            /\ session'[s].service = session[s].service
    <3>. SUFFICES ASSUME NEW s \in Sessions
                  PROVE  /\ session'[s] \in Session
                         /\ session'[s].pc = session[s].pc
                         /\ session'[s].service = session[s].service
      OBVIOUS
    <3>. DEFINE mid == [session[s] EXCEPT !.cmd = "closed"]
                new == [mid EXCEPT !.data = "null"]
    <3>1. session[s] \in Session
      OBVIOUS
    <3>2. session'[s] = session[s] \/ session'[s] = new
      BY <1>3 DEF TerminateAllSessions
    <3>3. /\ mid \in Session /\ mid.pc = session[s].pc
          /\ mid.service = session[s].service
      BY <3>1, SessionUpdate
    <3>. HIDE DEF mid
    <3>4. /\ new \in Session /\ new.pc = session[s].pc
          /\ new.service = session[s].service
      BY <3>3, SessionUpdate
    <3>. HIDE DEF new
    <3>. QED
      BY <3>1, <3>2, <3>4
  <2>2. session' \in [Sessions -> Session]
    BY <1>3, <2>1 DEF TerminateAllSessions
  <2>. QED
    BY <1>3, <2>1, <2>2, ZenonT(60) DEF TerminateAllSessions, listenerVars
<1>. QED
  BY <1>1, <1>2, <1>3

\* The steps of a listener.
LEMMA ListenerStep ==
  ASSUME SessionInv, NEW i \in Instances, ListenerNext(i)
  PROVE  SessionInv'
<1>. USE NoneAssumption DEF SessionInv, SessionTypeOK, HandOver, SessionsKnown
<1>1. CASE Accept(i)
  <2>1. PICK s \in Sessions :
          /\ session[s].pc = "none"
          /\ accepted' = [accepted EXCEPT ![i] = s]
          /\ session' = [session EXCEPT ![s] = [service |-> i, pc |-> "new",
                                                cmd |-> "open", data |-> "null",
                                                ahead |-> 0]]
    BY <1>1 DEF Accept
  <2>2. session' \in [Sessions -> Session]
    BY <2>1, AheadAssumption DEF Session, SessionPcs
  <2>3. listener' = [listener EXCEPT ![i] = "starting"] /\ listener[i] = "accepting"
    BY <1>1 DEF Accept
  <2>4. listenSocket' = listenSocket /\ sessionThreads' = sessionThreads
    BY <1>1 DEF Accept
  <2>5. SessionTypeOK'
    BY <2>1, <2>2, <2>3, <2>4 DEF ListenerPcs
  <2>6. session'[s].service = i /\ accepted'[i] = s
    BY <2>1
  <2>7. HandOver'
    <3>. SUFFICES ASSUME NEW j \in Instances
                  PROVE  IF listener'[j] \in {"starting", "registering"}
                           THEN /\ accepted'[j] \in Sessions
                                /\ session'[accepted'[j]].service = j
                                /\ session'[accepted'[j]].pc # "none"
                                /\ listener'[j] = "registering"
                                     => session'[accepted'[j]].pc # "new"
                           ELSE accepted'[j] = None
      OBVIOUS
    <3>1. CASE j = i
      BY <2>1, <2>3, <2>6, <3>1
    <3>2. CASE j # i
      <4>1. listener'[j] = listener[j] /\ accepted'[j] = accepted[j]
        BY <2>1, <2>3, <3>2
      \* The session listener j holds is not a fresh one.
      <4>2. listener[j] \in {"starting", "registering"} => accepted[j] # s
        BY <2>1
      <4>. QED
        BY <2>1, <4>1, <4>2
    <3>. QED
      BY <3>1, <3>2
  <2>8. SessionsKnown'
    BY <2>1, <2>3, <2>4, <2>6
  <2>. QED
    BY <2>5, <2>7, <2>8
<1>2. CASE StartSession(i)
  <2>1. /\ accepted[i] \in Sessions
        /\ session' = [session EXCEPT ![accepted[i]].pc = "command"]
        /\ listener' = [listener EXCEPT ![i] = "registering"]
        /\ UNCHANGED <<listenSocket, accepted, sessionThreads>>
    BY <1>2 DEF StartSession
  <2>2. \A s \in Sessions :
          /\ session'[s] \in Session
          /\ session'[s].service = session[s].service
          /\ session'[s].pc = IF s = accepted[i] THEN "command" ELSE session[s].pc
    BY <2>1 DEF Session, SessionPcs
  <2>3. session' \in [Sessions -> Session]
    BY <2>1, <2>2
  <2>4. SessionsKnown'
    <3>. SUFFICES ASSUME NEW s \in Sessions, session'[s].pc \notin {"none", "dead"}
                  PROVE  /\ session[s].service \in Instances
                         /\ \/ /\ s \in sessionThreads[session[s].service]
                               /\ session'[s].pc # "new"
                            \/ accepted[session[s].service] = s
      BY <2>1, <2>2
    <3>1. CASE s = accepted[i]
      BY <1>2, <3>1 DEF StartSession
    <3>2. CASE s # accepted[i]
      BY <2>2, <3>2
    <3>. QED
      BY <3>1, <3>2
  <2>. QED
    BY <1>2, <2>1, <2>2, <2>3, <2>4 DEF StartSession, ListenerPcs
<1>3. CASE RegisterSessionThread(i)
  <2>1. /\ listener[i] = "registering"
        /\ sessionThreads' = [sessionThreads EXCEPT ![i] =
               {s \in sessionThreads[i] : SessionAlive(s)} \cup {accepted[i]}]
        /\ accepted' = [accepted EXCEPT ![i] = None]
        /\ listener' = [listener EXCEPT ![i] = "accepting"]
        /\ listenSocket' = listenSocket
    BY <1>3 DEF RegisterSessionThread
  <2>2. \A s \in Sessions :
          /\ session'[s] \in Session
          /\ session'[s].service = session[s].service
          /\ session'[s].pc = session[s].pc
    <3>. SUFFICES ASSUME NEW s \in Sessions
                  PROVE  /\ session'[s] \in Session
                         /\ session'[s].service = session[s].service
                         /\ session'[s].pc = session[s].pc
      OBVIOUS
    <3>. DEFINE new == [session[s] EXCEPT !.cmd = "closed"]
    <3>1. session[s] \in Session
      OBVIOUS
    <3>2. session'[s] = session[s] \/ session'[s] = new
      BY <1>3 DEF RegisterSessionThread
    <3>3. /\ new \in Session /\ new.service = session[s].service
          /\ new.pc = session[s].pc
      BY <3>1, SessionUpdate
    <3>. HIDE DEF new
    <3>. QED
      BY <3>1, <3>2, <3>3
  <2>3. session' \in [Sessions -> Session]
    BY <1>3, <2>2 DEF RegisterSessionThread
  <2>4. sessionThreads' \in [Instances -> SUBSET Sessions]
    BY <2>1
  <2>5. SessionsKnown'
    <3>. SUFFICES ASSUME NEW s \in Sessions, session[s].pc \notin {"none", "dead"}
                  PROVE  /\ session[s].service \in Instances
                         /\ \/ /\ s \in sessionThreads'[session[s].service]
                               /\ session[s].pc # "new"
                            \/ accepted'[session[s].service] = s
      BY <2>2
    <3>1. CASE session[s].service # i
      BY <2>1, <3>1
    <3>2. CASE session[s].service = i /\ accepted[i] = s
      BY <2>1, <3>2
    <3>3. CASE session[s].service = i /\ accepted[i] # s
      <4>1. s \in sessionThreads[i] /\ SessionAlive(s)
        BY <2>1, <3>3  DEF SessionAlive, Session, SessionPcs
      <4>. QED
        BY <2>1, <3>3, <4>1
    <3>. QED
      BY <3>1, <3>2, <3>3
  <2>. QED
    BY <2>1, <2>2, <2>3, <2>4, <2>5 DEF ListenerPcs
<1>4. CASE ListenerDies(i)
  BY <1>4 DEF ListenerDies, ListenerPcs
<1>. QED
  BY <1>1, <1>2, <1>3, <1>4 DEF ListenerNext

\* The steps of a session thread: it keeps its service and does not come back.
LEMMA SessionStep ==
  ASSUME SessionInv, NEW s \in Sessions, SessionNext(s)
  PROVE  SessionInv'
<1>1. session[s] \in Session
  BY DEF SessionInv, SessionTypeOK
<1>2. ASSUME NEW new \in Session,
             SetSession(s, new), new.service = session[s].service,
             session[s].pc \notin {"none", "new", "dead"}, new.pc \notin {"none", "new"}
      PROVE  SessionInv'
  BY <1>2 DEF SetSession, SessionInv, SessionTypeOK, HandOver, SessionsKnown, listenerVars
<1>3. ASSUME NEW to \in {"command", "awaiting"}, TakesLine(s, to) PROVE SessionInv'
  <2>1. PICK left \in LinesLeft(s), cmd \in {session[s].cmd, "closed"} :
          SetSession(s, [session[s] EXCEPT !.pc = to, !.ahead = left, !.cmd = cmd])
    BY <1>3 DEF TakesLine
  <2>2. left \in 0..MaxAhead
    BY <1>1, <2>1, AheadAssumption DEF LinesLeft, Session
  <2>. DEFINE one == [session[s] EXCEPT !.pc = to]
              two == [one EXCEPT !.ahead = left]
              new == [two EXCEPT !.cmd = cmd]
  <2>11. to \in SessionPcs
    BY <1>3 DEF SessionPcs
  <2>3. one \in Session /\ one.service = session[s].service /\ one.pc = to
    BY <1>1, <2>11, SessionUpdate
  <2>4. one.cmd = session[s].cmd
    BY <1>1 DEF Session
  <2>. HIDE DEF one
  <2>5. two \in Session /\ two.service = session[s].service /\ two.pc = to
    BY <2>2, <2>3, SessionUpdate
  <2>6. two.cmd = session[s].cmd
    BY <2>3, <2>4 DEF Session
  <2>7. SetSession(s, new)
    BY <2>1 DEF one
  <2>. HIDE DEF two
  <2>8. new = two \/ new = [two EXCEPT !.cmd = "closed"]
    BY <2>1, <2>5, <2>6 DEF Session
  <2>9. new \in Session /\ new.service = session[s].service /\ new.pc = to
    BY <2>5, <2>8, SessionUpdate
  <2>10. session[s].pc = "command"
    BY <1>3 DEF TakesLine
  <2>. HIDE DEF new
  <2>. QED
    BY <1>2, <1>3, <2>7, <2>9, <2>10
<1>4. CASE ConnectsData(s)
  <2>. DEFINE mid == [session[s] EXCEPT !.pc = "transferring"]
              new == [mid EXCEPT !.data = "open"]
  <2>1. mid \in Session /\ mid.service = session[s].service /\ mid.pc = "transferring"
    BY <1>1, SessionUpdate DEF SessionPcs
  <2>2. SetSession(s, new) /\ session[s].pc = "awaiting"
    BY <1>4 DEF ConnectsData
  <2>. HIDE DEF mid
  <2>3. new \in Session /\ new.service = session[s].service /\ new.pc = "transferring"
    BY <2>1, SessionUpdate
  <2>. HIDE DEF new
  <2>. QED
    BY <1>2, <2>2, <2>3
<1>7. CASE GetsNoData(s)
  <2>. DEFINE new == [session[s] EXCEPT !.pc = "command"]
  <2>1. new \in Session /\ new.service = session[s].service /\ new.pc = "command"
    BY <1>1, SessionUpdate DEF SessionPcs
  <2>2. SetSession(s, new) /\ session[s].pc = "awaiting"
    BY <1>7 DEF GetsNoData
  <2>. HIDE DEF new
  <2>. QED
    BY <1>2, <2>1, <2>2
<1>5. CASE TransferEnds(s)
  <2>. DEFINE mid == [session[s] EXCEPT !.pc = "command"]
              new == [mid EXCEPT !.data = "null"]
  <2>1. mid \in Session /\ mid.service = session[s].service /\ mid.pc = "command"
    BY <1>1, SessionUpdate DEF SessionPcs
  <2>2. SetSession(s, new) /\ session[s].pc = "transferring"
    BY <1>5 DEF TransferEnds
  <2>. HIDE DEF mid
  <2>3. new \in Session /\ new.service = session[s].service /\ new.pc = "command"
    BY <2>1, SessionUpdate
  <2>. HIDE DEF new
  <2>. QED
    BY <1>2, <2>2, <2>3
<1>6. CASE SessionEnds(s)
  <2>. DEFINE mid == [session[s] EXCEPT !.pc = "dead"]
              new == [mid EXCEPT !.cmd = "closed"]
  <2>1. mid \in Session /\ mid.service = session[s].service /\ mid.pc = "dead"
    BY <1>1, SessionUpdate DEF SessionPcs
  <2>2. SetSession(s, new) /\ session[s].pc = "command"
    BY <1>6 DEF SessionEnds
  <2>. HIDE DEF mid
  <2>3. new \in Session /\ new.service = session[s].service /\ new.pc = "dead"
    BY <2>1, SessionUpdate
  <2>. HIDE DEF new
  <2>. QED
    BY <1>2, <2>2, <2>3
<1>. QED
  BY <1>3, <1>4, <1>5, <1>6, <1>7 DEF SessionNext, AwaitsClient, OtherCommand

LEMMA ServiceStep == SessionInv /\ [Next]_vars => SessionInv'
<1>. SUFFICES ASSUME SessionInv, [Next]_vars PROVE SessionInv'
  OBVIOUS
<1>1. CASE UNCHANGED sessionVars
  BY <1>1 DEF sessionVars, listenerVars, SessionInv, SessionTypeOK, HandOver, SessionsKnown
<1>2. CASE \E i \in Instances : RunOnSockets(i)
  BY <1>2, ControlStep
  DEF RunOnSockets, RunBindsListener, RunFailsToBind, RunSupervises,
      RunTerminatesSessions, RunQuitsListener
<1>3. CASE DestroyClosesListener
  BY <1>3, ControlStep DEF DestroyClosesListener
<1>4. CASE SocketStep
  BY <1>4, ListenerStep, SessionStep DEF SocketStep
<1>. QED
  BY <1>1, <1>2, <1>3, <1>4 DEF Next, LifecycleStep, vars

\* All variables of the service keep their types.
THEOREM TypeCorrect == Spec => []TypeOK
<1>1. Init => SessionInv
  BY SessionInvInit DEF Init
<1>2. SessionInv => SessionTypeOK
  BY DEF SessionInv
<1>3. Spec => []SessionTypeOK
  BY <1>1, <1>2, ServiceStep, PTL DEF Spec
<1>. QED
  BY <1>3, ServiceImplementsLifecycle, LifecycleTypeCorrect, PTL DEF TypeOK

\* "The FTPServerService must know about all running session threads": no
\* session runs that is neither in the list nor about to be added to it.
THEOREM SessionsAreKnown == Spec => []RunningSessionsKnown
<1>1. Init => SessionInv
  BY SessionInvInit DEF Init
<1>2. SessionInv => RunningSessionsKnown
  BY DEF SessionInv, SessionsKnown, RunningSessionsKnown, SessionAlive
<1>. QED
  BY <1>1, <1>2, ServiceStep, PTL DEF Spec

\* terminateAllSessions closes both sockets of every session that runs, but for one
\* that its listener is registering at that moment.
THEOREM TerminationIsNearlyComplete == Spec => TerminationMissesAtMostOne
<1>. DEFINE Misses ==
       \A i \in Instances : RunTerminatesSessions(i) =>
         \A s \in Sessions :
           SessionAlive(s) /\ session[s].service = i /\ s # accepted[i]
             => session'[s].cmd = "closed" /\ session'[s].data = "null"
<1>1. Init => SessionInv
  BY SessionInvInit DEF Init
<1>2. SessionInv => Misses
  <2>. SUFFICES ASSUME SessionInv, NEW i \in Instances, RunTerminatesSessions(i),
                       NEW s \in Sessions, SessionAlive(s),
                       session[s].service = i, s # accepted[i]
                PROVE  session'[s].cmd = "closed" /\ session'[s].data = "null"
    OBVIOUS
  <2>1. s \in sessionThreads[i]
    BY DEF SessionInv, SessionsKnown, SessionAlive
  <2>2. session[s] \in Session
    BY DEF SessionInv, SessionTypeOK
  <2>3. session'[s] = [session[s] EXCEPT !.cmd = "closed", !.data = "null"]
    BY <2>1 DEF RunTerminatesSessions, TerminateAllSessions
  <2>. QED
    BY <2>2, <2>3 DEF Session
<1>3. SessionInv /\ [Next]_vars => [Misses]_vars
  BY <1>2
<1>. QED
  BY <1>1, <1>3, ServiceStep, PTL DEF Spec, TerminationMissesAtMostOne

-----------------------------------------------------------------------------
(***************************************************************************)
(* No way out of the service forgets something.                            *)
(*                                                                         *)
(* The argument: at any time at most one instance owns the main thread,    *)
(* the queue of callbacks, the activity manager's record and serverThread. *)
(* It is being started or serves, or its DESTROY is queued behind its last *)
(* START, or it is being destroyed.  Whatever an instance holds, it holds  *)
(* while it is that owner, and it stops being the owner in the last step   *)
(* of onDestroy only.  After a join that ran out of time serverThread is   *)
(* never null again, so no instance is ever started after that.            *)
(***************************************************************************)

\* The instance is current: its callbacks are queued or it serves.
Started(i) ==
  /\ ~timedOut
  /\ record = i
  /\ serverThread \in {None, i}
  /\ main.pc \in {"idle", "start_wait"}
  /\ main.pc = "start_wait" => main.inst = i
  /\ \A n \in 1..Len(inbox) :
       \/ inbox[n] = Callback("START", i)
       \/ /\ n = 1 /\ inbox[n] = Callback("CREATE", i)
          /\ serverThread = None /\ main.pc = "idle"

\* stopService was called; its DESTROY is the last callback of the queue.
Stopping(i) ==
  /\ ~timedOut
  /\ record = None
  /\ serverThread = i
  /\ main.pc \in {"idle", "start_wait"}
  /\ Len(inbox) > 0
  /\ \A n \in 1..Len(inbox) :
       inbox[n] = IF n = Len(inbox) THEN Callback("DESTROY", i)
                                    ELSE Callback("START", i)

\* onDestroy of the instance is under way.
Destroying(i) ==
  /\ record = None
  /\ inbox = <<>>
  /\ main.inst = i
  /\ \/ main.pc = "destroy_join" /\ serverThread = i /\ ~timedOut
     \/ /\ main.pc \in {"destroy_close", "destroy_wifi", "destroy_release",
                         "destroy_null"}
        /\ timedOut <=> serverThread # None

Owner(i) == Started(i) \/ Stopping(i) \/ Destroying(i)

NoOwner ==
  /\ record = None /\ inbox = <<>> /\ main.pc = "idle"
  /\ timedOut <=> serverThread # None

OneOwner == NoOwner \/ \E i \in Instances : Owner(i)

ReceiversOwned == \A i \in receivers : Owner(i)

\* The CPU lock is held from "ready" to the end of the loop.
WakeLockInLoop ==
  \A i \in Instances : wakeLock[i] =>
    tpc[i] \in {"loop", "supervise", "sleep", "terminate", "quit_listener", "finish"}

OwnerInv == OneOwner /\ ReceiversOwned /\ WakeLockInLoop

\* A listening socket is left behind by nobody until a join runs out of time.
SocketOwned ==
  \A i \in Instances :
    listenSocket[i] \notin {"null", "closed"} /\ ~timedOut =>
      Owner(i) /\ main.pc # "destroy_wifi"

\* run() makes its listener in the loop, and does not end without quitting it.
ListenerQuits ==
  \A i \in Instances :
    /\ tpc[i] \in {"new", "begin", "bind", "stop_service", "wifi_create",
                   "wifi_acquire", "ready"} => listener[i] = "none"
    /\ tpc[i] \in {"finish", "release_check", "release", "release_null", "exited"}
         => listener[i] = "none" \/ listenSocket[i] = "closed"

-----------------------------------------------------------------------------
(***************************************************************************)
(* Who owns the service, step by step.                                     *)
(***************************************************************************)
LEMMA UniqueOwner ==
  ASSUME NEW i \in Instances, NEW j \in Instances, Owner(i), Owner(j)
  PROVE  i = j
BY NoneAssumption DEF Owner, Started, Stopping, Destroying

\* What ownership depends on.
ownerVars == <<record, inbox, serverThread, main, timedOut>>

Keeps == \A i \in Instances : Owner(i) => Owner(i)'

LEMMA OwnerUnchanged ==
  ASSUME OneOwner, UNCHANGED ownerVars PROVE OneOwner' /\ Keeps
BY DEF OneOwner, NoOwner, Owner, Started, Stopping, Destroying, Keeps, ownerVars

\* A click on the button of a server that does not run.
LEMMA StartKeepsOwner ==
  ASSUME TypeInv, OneOwner, ClickStart
  PROVE  OneOwner' /\ Keeps
<1>1. /\ main.pc = "idle" /\ serverThread = None /\ StartService
      /\ main' = main /\ serverThread' = serverThread /\ timedOut' = timedOut
  BY DEF ClickStart, IsRunning, threadVars
<1>2. inbox \in Seq(Callbacks)
  BY DEF TypeInv, LifecycleTypeOK
<1>3. CASE record = None
  <2>1. \A i \in Instances : ~Owner(i)
    BY <1>1, <1>3, NoneAssumption DEF Owner, Started, Stopping, Destroying
  <2>2. inbox = <<>> /\ ~timedOut
    BY <1>1, <2>1 DEF OneOwner, NoOwner
  <2>3. PICK i \in Instances :
          record' = i /\ inbox' = inbox \o <<Callback("CREATE", i), Callback("START", i)>>
    BY <1>1, <1>3 DEF StartService
  <2>4. inbox' = <<Callback("CREATE", i), Callback("START", i)>>
    BY <2>2, <2>3
  <2>. DEFINE create == Callback("CREATE", i)
              start == Callback("START", i)
  <2>5. \A n \in 1..Len(inbox') :
          inbox'[n] = start \/ (n = 1 /\ inbox'[n] = create)
    BY <2>4
  <2>6. Started(i)'
    BY <1>1, <2>2, <2>3, <2>5 DEF Started
  <2>. QED
    BY <2>1, <2>6 DEF OneOwner, Keeps, Owner
<1>4. CASE record # None
  <2>1. PICK i \in Instances : Started(i)
    BY <1>4 DEF OneOwner, NoOwner, Owner, Stopping, Destroying
  <2>2. record' = record /\ record = i /\ inbox' = Append(inbox, Callback("START", i))
    BY <1>1, <1>4, <2>1 DEF StartService, amsVars, Started
  <2>3. /\ Len(inbox') = Len(inbox) + 1
        /\ \A n \in 1..Len(inbox') :
             inbox'[n] = IF n = Len(inbox) + 1 THEN Callback("START", i) ELSE inbox[n]
    BY <1>2, <2>2, CallbackType
  <2>4. Started(i)'
    BY <1>1, <1>2, <2>1, <2>2, <2>3 DEF Started
  <2>5. \A j \in Instances : Owner(j) => j = i
    BY <2>1, UniqueOwner DEF Owner
  <2>. QED
    BY <2>4, <2>5 DEF OneOwner, Keeps, Owner
<1>. QED
  BY <1>3, <1>4

\* Everything that asks Android to stop the service does so while there is a
\* server thread.
LEMMA StopKeepsOwner ==
  ASSUME TypeInv, OneOwner, StopService, serverThread # None,
         UNCHANGED <<main, serverThread, timedOut>>
  PROVE  OneOwner' /\ Keeps
<1>1. inbox \in Seq(Callbacks)
  BY DEF TypeInv, LifecycleTypeOK
<1>2. CASE record = None
  BY <1>2, OwnerUnchanged DEF StopService, amsVars, ownerVars
<1>3. CASE record # None
  <2>1. PICK i \in Instances : Started(i)
    BY <1>3 DEF OneOwner, NoOwner, Owner, Stopping, Destroying
  <2>2. /\ record = i /\ serverThread = i /\ record' = None
        /\ inbox' = Append(inbox, Callback("DESTROY", i))
    BY <1>3, <2>1 DEF StopService, Started
  <2>3. /\ Len(inbox') = Len(inbox) + 1 /\ Len(inbox) \in Nat
        /\ \A n \in 1..Len(inbox') :
             inbox'[n] = IF n = Len(inbox') THEN Callback("DESTROY", i) ELSE inbox[n]
    BY <1>1, <2>2, CallbackType
  <2>4. \A n \in 1..Len(inbox) : inbox[n] = Callback("START", i)
    BY <2>1, <2>2, NoneAssumption DEF Started
  <2>5. Stopping(i)'
    BY <2>1, <2>2, <2>3, <2>4 DEF Started, Stopping
  <2>6. \A j \in Instances : Owner(j) => j = i
    BY <2>1, UniqueOwner DEF Owner
  <2>. QED
    BY <2>5, <2>6 DEF OneOwner, Keeps, Owner
<1>. QED
  BY <1>2, <1>3

LEMMA CallbackFields ==
  \A k, i : Callback(k, i).kind = k /\ Callback(k, i).inst = i
BY DEF Callback

\* Taking the first callback of the queue, seen from its owner.
LEMMA HeadOfQueue ==
  ASSUME TypeInv, inbox # <<>>
  PROVE  /\ Head(inbox) = inbox[1] /\ 1 \in 1..Len(inbox)
         /\ Len(Tail(inbox)) = Len(inbox) - 1 /\ Len(inbox) \in Nat
         /\ \A n \in 1..Len(Tail(inbox)) :
              Tail(inbox)[n] = inbox[n + 1] /\ n + 1 \in 1..Len(inbox)
BY DEF TypeInv, LifecycleTypeOK

LEMMA StartedHead ==
  ASSUME TypeInv, inbox # <<>>, NEW i \in Instances, Started(i)
  PROVE  /\ \/ Head(inbox) = Callback("START", i)
            \/ Head(inbox) = Callback("CREATE", i) /\ serverThread = None
         /\ \A n \in 1..Len(Tail(inbox)) : Tail(inbox)[n] = Callback("START", i)
<1>1. \/ inbox[1] = Callback("START", i)
      \/ inbox[1] = Callback("CREATE", i) /\ serverThread = None
  BY HeadOfQueue DEF Started
<1>2. ASSUME NEW n \in 1..Len(Tail(inbox))
      PROVE  Tail(inbox)[n] = Callback("START", i)
  <2>1. Tail(inbox)[n] = inbox[n + 1] /\ n + 1 \in 1..Len(inbox) /\ n + 1 # 1
    BY <1>2, HeadOfQueue
  <2>. QED
    BY <2>1 DEF Started
<1>. QED
  BY <1>1, <1>2, HeadOfQueue

LEMMA StoppingHead ==
  ASSUME TypeInv, inbox # <<>>, NEW i \in Instances, Stopping(i)
  PROVE  /\ Head(inbox) = IF Len(inbox) = 1 THEN Callback("DESTROY", i)
                                            ELSE Callback("START", i)
         /\ \A n \in 1..Len(Tail(inbox)) :
              Tail(inbox)[n] = IF n = Len(Tail(inbox)) THEN Callback("DESTROY", i)
                                                       ELSE Callback("START", i)
<1>1. inbox[1] = IF Len(inbox) = 1 THEN Callback("DESTROY", i)
                                   ELSE Callback("START", i)
  BY HeadOfQueue DEF Stopping
<1>2. ASSUME NEW n \in 1..Len(Tail(inbox))
      PROVE  Tail(inbox)[n] = IF n = Len(Tail(inbox)) THEN Callback("DESTROY", i)
                                                      ELSE Callback("START", i)
  <2>1. /\ Tail(inbox)[n] = inbox[n + 1] /\ n + 1 \in 1..Len(inbox)
        /\ n + 1 = Len(inbox) <=> n = Len(Tail(inbox))
    BY <1>2, HeadOfQueue
  <2>. QED
    BY <2>1 DEF Stopping
<1>. QED
  BY <1>1, <1>2, HeadOfQueue

LEMMA TailOfOne ==
  ASSUME TypeInv, Len(inbox) = 1 PROVE Tail(inbox) = <<>>
<1>1. inbox # <<>>
  BY EmptySeq
<1>2. Tail(inbox) \in Seq(Callbacks)
  BY <1>1 DEF TypeInv, LifecycleTypeOK
<1>3. Len(Tail(inbox)) = 0
  BY <1>1, HeadOfQueue
<1>. QED
  BY <1>2, <1>3, EmptySeq

LEMMA QueueHasOwner ==
  ASSUME TypeInv, OneOwner, inbox # <<>>
  PROVE  \E i \in Instances : Started(i) \/ Stopping(i)
BY DEF OneOwner, NoOwner, Owner, Destroying

\* onCreate, onStart and onDestroy take the owner's callbacks.
LEMMA CreateKeepsOwner ==
  ASSUME TypeInv, OneOwner, OnCreate
  PROVE  OneOwner' /\ Keeps /\ \A i \in Instances : i = Head(inbox).inst => Owner(i)'
<1>1. /\ main.pc = "idle" /\ inbox # <<>> /\ Head(inbox).kind = "CREATE"
      /\ inbox' = Tail(inbox) /\ UNCHANGED <<main, serverThread, record, timedOut>>
  BY DEF OnCreate, Handles, amsVars, threadVars
<1>2. PICK i \in Instances : Started(i) \/ Stopping(i)
  BY <1>1, QueueHasOwner
<1>3. Started(i) /\ Head(inbox) = Callback("CREATE", i)
  BY <1>1, <1>2, StartedHead, StoppingHead, CallbackFields
<1>4. Started(i)'
  BY <1>1, <1>3, HeadOfQueue DEF Started
<1>5. \A j \in Instances : Owner(j) => j = i
  BY <1>3, UniqueOwner DEF Owner
<1>6. Head(inbox).inst = i
  BY <1>3, CallbackFields
<1>. QED
  BY <1>4, <1>5, <1>6 DEF OneOwner, Keeps, Owner

LEMMA StartCallbackKeepsOwner ==
  ASSUME TypeInv, OneOwner, OnStart
  PROVE  OneOwner' /\ Keeps
<1>1. /\ main.pc = "idle" /\ inbox # <<>> /\ Head(inbox).kind = "START"
      /\ inbox' = Tail(inbox) /\ UNCHANGED <<serverThread, record, timedOut>>
      /\ main'.pc = "start_wait" /\ main'.inst = Head(inbox).inst
  BY DEF OnStart, Handles, amsVars
<1>2. PICK i \in Instances : Started(i) \/ Stopping(i)
  BY <1>1, QueueHasOwner
<1>3. \A j \in Instances : Owner(j) => j = i
  BY <1>2, UniqueOwner DEF Owner
<1>4. Head(inbox) = Callback("START", i)
  BY <1>1, <1>2, StartedHead, StoppingHead, CallbackFields
<1>5. Head(inbox).inst = i
  BY <1>4, CallbackFields
<1>6. CASE Started(i)
  <2>1. Started(i)'
    BY <1>1, <1>5, <1>6, HeadOfQueue DEF Started
  <2>. QED
    BY <1>3, <2>1 DEF OneOwner, Keeps, Owner
<1>7. CASE Stopping(i)
  <2>1. Callback("START", i) # Callback("DESTROY", i)
    BY DEF Callback
  <2>2. Len(inbox) # 1
    BY <1>1, <1>4, <1>7, <2>1, StoppingHead
  <2>3. Len(inbox') > 0
    <3>1. Len(inbox') = Len(inbox) - 1 /\ Len(inbox) \in Nat
      BY <1>1, HeadOfQueue
    <3>2. Len(inbox) > 0
      BY <1>7 DEF Stopping
    <3>. QED
      BY <2>2, <3>1, <3>2
  <2>4. Stopping(i)'
    BY <1>1, <1>7, <2>3, StoppingHead DEF Stopping
  <2>. QED
    BY <1>3, <2>4 DEF OneOwner, Keeps, Owner
<1>. QED
  BY <1>2, <1>6, <1>7

LEMMA DestroyCallbackKeepsOwner ==
  ASSUME TypeInv, OneOwner, OnDestroy
  PROVE  OneOwner' /\ Keeps
<1>1. /\ main.pc = "idle" /\ inbox # <<>> /\ Head(inbox).kind = "DESTROY"
      /\ inbox' = Tail(inbox) /\ UNCHANGED <<serverThread, record, timedOut>>
      /\ main'.pc = IF serverThread = None THEN "idle" ELSE "destroy_join"
      /\ main'.inst = Head(inbox).inst
  BY DEF OnDestroy, Handles, amsVars, TypeInv, LifecycleTypeOK
<1>2. PICK i \in Instances : Started(i) \/ Stopping(i)
  BY <1>1, QueueHasOwner
<1>3. \A j \in Instances : Owner(j) => j = i
  BY <1>2, UniqueOwner DEF Owner
<1>4. Stopping(i) /\ Head(inbox) = Callback("DESTROY", i) /\ Len(inbox) = 1
  BY <1>1, <1>2, StartedHead, StoppingHead, CallbackFields
<1>5. Head(inbox).inst = i
  BY <1>4, CallbackFields
<1>6. Tail(inbox) = <<>>
  BY <1>1, <1>4, TailOfOne
<1>7. Destroying(i)'
  BY <1>1, <1>4, <1>5, <1>6, NoneAssumption DEF Stopping, Destroying
<1>. QED
  BY <1>3, <1>7 DEF OneOwner, Keeps, Owner

\* The steps between: the wait of onStart, and onDestroy after its join.
LEMMA WaitKeepsOwner ==
  ASSUME TypeInv, OneOwner, OnStartWaits \/ OnStartGivesUp \/ OnStartSpawns
  PROVE  OneOwner' /\ Keeps
<1>. USE DEF TypeInv, LifecycleTypeOK
<1>1. /\ main.pc = "start_wait" /\ UNCHANGED <<inbox, record, timedOut>>
      /\ main'.pc \in {"idle", "start_wait"} /\ main'.inst = main.inst
  BY DEF OnStartWaits, OnStartGivesUp, OnStartSpawns, amsVars, threadVars
<1>2. serverThread' = IF OnStartSpawns THEN main.inst ELSE serverThread
  BY DEF OnStartWaits, OnStartGivesUp, OnStartSpawns
<1>3. PICK i \in Instances : Started(i) \/ Stopping(i)
  BY <1>1 DEF OneOwner, NoOwner, Owner, Destroying
<1>4. \A j \in Instances : Owner(j) => j = i
  BY <1>3, UniqueOwner DEF Owner
<1>5. CASE Started(i)
  <2>1. Started(i)'
    BY <1>1, <1>2, <1>5 DEF Started
  <2>. QED
    BY <1>4, <2>1 DEF OneOwner, Keeps, Owner
<1>6. CASE Stopping(i)
  <2>1. ~OnStartSpawns
    BY <1>6, NoneAssumption DEF Stopping, OnStartSpawns
  <2>2. Stopping(i)'
    BY <1>1, <1>2, <1>6, <2>1 DEF Stopping
  <2>. QED
    BY <1>4, <2>2 DEF OneOwner, Keeps, Owner
<1>. QED
  BY <1>3, <1>5, <1>6

\* The steps of onDestroy from its join to the last one.
DestroyGoesOn ==
  \/ OnDestroyJoins \/ OnDestroyTimesOut \/ OnDestroyCloses
  \/ OnDestroyReleasesWifiLock
  \/ OnDestroyChecksWifiLock /\ wifiLock.ref

\* The last step of onDestroy.
DestroyEnds == OnDestroyFinishes \/ (OnDestroyChecksWifiLock /\ ~wifiLock.ref)

LEMMA DestroyKeepsOwner ==
  ASSUME TypeInv, OneOwner, DestroyGoesOn
  PROVE  OneOwner' /\ Keeps
<1>. USE DEF TypeInv, LifecycleTypeOK
<1>1. /\ UNCHANGED <<inbox, record>> /\ main'.inst = main.inst
      /\ main.pc \in {"destroy_join", "destroy_close", "destroy_wifi", "destroy_release"}
      /\ main'.pc \in {"destroy_close", "destroy_wifi", "destroy_release", "destroy_null"}
  BY DEF DestroyGoesOn, OnDestroyJoins, OnDestroyTimesOut, OnDestroyCloses,
         OnDestroyChecksWifiLock, OnDestroyReleasesWifiLock, amsVars
<1>2. \/ main.pc = "destroy_join" /\ serverThread' = None /\ timedOut' = timedOut
      \/ main.pc = "destroy_join" /\ serverThread' = serverThread /\ timedOut'
      \/ main.pc # "destroy_join" /\ UNCHANGED <<serverThread, timedOut>>
  BY DEF DestroyGoesOn, OnDestroyJoins, OnDestroyTimesOut, OnDestroyCloses,
         OnDestroyChecksWifiLock, OnDestroyReleasesWifiLock, threadVars
<1>3. PICK i \in Instances : Destroying(i)
  BY <1>1 DEF OneOwner, NoOwner, Owner, Started, Stopping
<1>4. \A j \in Instances : Owner(j) => j = i
  BY <1>3, UniqueOwner DEF Owner
<1>5. (timedOut <=> serverThread # None)'
  BY <1>1, <1>2, <1>3, NoneAssumption DEF Destroying
<1>6. Destroying(i)'
  BY <1>1, <1>3, <1>5 DEF Destroying
<1>. QED
  BY <1>4, <1>6 DEF OneOwner, Keeps, Owner

LEMMA DestroyEndsOwnership ==
  ASSUME TypeInv, OneOwner, DestroyEnds
  PROVE  /\ OneOwner' /\ receivers' = receivers \ {main.inst}
         /\ \A i \in Instances : Owner(i) => i = main.inst
<1>. USE DEF TypeInv, LifecycleTypeOK
<1>1. /\ main.pc \in {"destroy_wifi", "destroy_null"} /\ main'.pc = "idle"
      /\ receivers' = receivers \ {main.inst}
      /\ UNCHANGED <<inbox, record, serverThread, timedOut>>
  BY DEF DestroyEnds, OnDestroyChecksWifiLock, OnDestroyFinishes, amsVars, threadVars
<1>2. PICK i \in Instances : Destroying(i)
  BY <1>1 DEF OneOwner, NoOwner, Owner, Started, Stopping
<1>3. NoOwner'
  BY <1>1, <1>2 DEF Destroying, NoOwner
<1>. QED
  BY <1>1, <1>2, <1>3, UniqueOwner DEF OneOwner, Owner, Destroying

\* There is always at most one owner, and only that step makes it end.
LEMMA OwnerStep ==
  ASSUME TypeInv, CurrentThread, OneOwner, LifecycleNext
  PROVE  OneOwner' /\ (Keeps \/ DestroyEnds)
<1>1. CASE ClickStart
  BY <1>1, StartKeepsOwner
<1>2. CASE ClickStop \/ UpdateUi \/ \E i \in Instances : MediaUnmounted(i)
  <2>1. UNCHANGED <<main, serverThread, timedOut>>
    BY <1>2 DEF ClickStop, UpdateUi, MediaUnmounted, threadVars
  <2>2. \/ UNCHANGED ownerVars
        \/ StopService /\ serverThread # None
    BY <1>2, <2>1
    DEF ClickStop, UpdateUi, MediaUnmounted, IsRunning, amsVars, ownerVars
  <2>. QED
    BY <2>1, <2>2, StopKeepsOwner, OwnerUnchanged
<1>3. CASE WifiChanges
  BY <1>3, OwnerUnchanged DEF WifiChanges, mainVars, amsVars, threadVars, ownerVars
<1>4. CASE OnCreate \/ OnStart \/ OnDestroy
  BY <1>4, CreateKeepsOwner, StartCallbackKeepsOwner, DestroyCallbackKeepsOwner
<1>5. CASE OnStartWaits \/ OnStartGivesUp \/ OnStartSpawns
  BY <1>5, WaitKeepsOwner
<1>6. CASE DestroyGoesOn
  BY <1>6, DestroyKeepsOwner
<1>7. CASE DestroyEnds
  BY <1>7, DestroyEndsOwnership
<1>8. CASE \/ OnDestroyJoins \/ OnDestroyTimesOut \/ OnDestroyCloses
           \/ OnDestroyChecksWifiLock \/ OnDestroyReleasesWifiLock
           \/ OnDestroyFinishes
  BY <1>6, <1>7, <1>8 DEF DestroyGoesOn, DestroyEnds
<1>9. CASE \E i \in Instances : StopsItself(i)
  <2>1. PICK i \in Instances : StopsItself(i)
    BY <1>9
  <2>2. serverThread # None
    BY <2>1, NoneAssumption DEF StopsItself, Goto, CurrentThread, Alive
  <2>. QED
    BY <2>1, <2>2, StopKeepsOwner DEF StopsItself
<1>10. CASE \E i \in Instances :
              \/ RunBegins(i) \/ BindSucceeds(i) \/ BindFails(i)
              \/ CreatesWifiLock(i) \/ AcquiresWifiLock(i) \/ GetsReady(i)
              \/ ChecksExit(i) \/ Supervises(i)
  <2>1. UNCHANGED ownerVars
    BY <1>10
    DEF RunBegins, BindSucceeds, BindFails, CreatesWifiLock, AcquiresWifiLock,
        GetsReady, ChecksExit, Supervises, mainVars, amsVars, ownerVars
  <2>. QED
    BY <2>1, OwnerUnchanged
<1>11. CASE \E i \in Instances :
              \/ Wakes(i) \/ Terminates(i) \/ QuitsListener(i) \/ Acknowledges(i)
              \/ ChecksWifiLock(i) \/ ReleasesWifiLock(i) \/ NullsWifiLock(i)
  <2>1. UNCHANGED ownerVars
    BY <1>11
    DEF Wakes, Terminates, QuitsListener, Acknowledges, ChecksWifiLock,
        ReleasesWifiLock, NullsWifiLock, mainVars, amsVars, ownerVars
  <2>. QED
    BY <2>1, OwnerUnchanged
<1>. QED
  BY StepCases, <1>1, <1>2, <1>3, <1>4, <1>5, <1>6, <1>7, <1>8, <1>9, <1>10, <1>11

\* The receivers come and go with onCreate and the end of onDestroy.
LEMMA ReceiverSteps ==
  ASSUME LifecycleNext
  PROVE  \/ receivers' = receivers
         \/ OnCreate /\ receivers' = receivers \cup {Head(inbox).inst}
         \/ DestroyEnds
<1>1. CASE \/ ClickStart \/ ClickStop \/ UpdateUi \/ WifiChanges
           \/ \E i \in Instances : MediaUnmounted(i)
  BY <1>1 DEF ClickStart, ClickStop, UpdateUi, WifiChanges, MediaUnmounted, mainVars
<1>2. CASE OnCreate
  BY <1>2 DEF OnCreate
<1>3. CASE OnStart \/ OnStartWaits \/ OnStartGivesUp \/ OnStartSpawns
  BY <1>3 DEF OnStart, OnStartWaits, OnStartGivesUp, OnStartSpawns
<1>4. CASE OnDestroy \/ OnDestroyJoins \/ OnDestroyTimesOut \/ OnDestroyCloses
  BY <1>4 DEF OnDestroy, OnDestroyJoins, OnDestroyTimesOut, OnDestroyCloses
<1>5. CASE \/ OnDestroyChecksWifiLock \/ OnDestroyReleasesWifiLock
           \/ OnDestroyFinishes
  BY <1>5 DEF DestroyEnds, OnDestroyChecksWifiLock, OnDestroyReleasesWifiLock
<1>6. CASE \E i \in Instances :
             \/ RunBegins(i) \/ BindSucceeds(i) \/ BindFails(i) \/ StopsItself(i)
             \/ CreatesWifiLock(i) \/ AcquiresWifiLock(i) \/ GetsReady(i)
             \/ ChecksExit(i) \/ Supervises(i)
  BY <1>6
  DEF RunBegins, BindSucceeds, BindFails, StopsItself, CreatesWifiLock,
      AcquiresWifiLock, GetsReady, ChecksExit, Supervises, mainVars
<1>7. CASE \E i \in Instances :
             \/ Wakes(i) \/ Terminates(i) \/ QuitsListener(i) \/ Acknowledges(i)
             \/ ChecksWifiLock(i) \/ ReleasesWifiLock(i) \/ NullsWifiLock(i)
  BY <1>7
  DEF Wakes, Terminates, QuitsListener, Acknowledges, ChecksWifiLock,
      ReleasesWifiLock, NullsWifiLock, mainVars
<1>. QED
  BY StepCases, <1>1, <1>2, <1>3, <1>4, <1>5, <1>6, <1>7

LEMMA ReceiversStep ==
  ASSUME TypeInv, CurrentThread, OneOwner, ReceiversOwned, LifecycleNext
  PROVE  ReceiversOwned'
<1>. SUFFICES ASSUME NEW i \in receivers' PROVE Owner(i)'
  BY DEF ReceiversOwned
<1>0. receivers \subseteq Instances
  BY DEF TypeInv, LifecycleTypeOK
<1>1. CASE receivers' = receivers /\ ~DestroyEnds
  BY <1>0, <1>1, OwnerStep DEF ReceiversOwned, Keeps
<1>2. CASE OnCreate /\ receivers' = receivers \cup {Head(inbox).inst}
  <2>1. Head(inbox).inst \in Instances
    BY <1>2, TakeCallback DEF OnCreate, TypeInv
  <2>2. CASE i \in receivers
    BY <1>0, <1>2, <2>2, CreateKeepsOwner DEF ReceiversOwned, Keeps
  <2>3. CASE i = Head(inbox).inst
    BY <1>2, <2>1, <2>3, CreateKeepsOwner
  <2>. QED
    BY <1>2, <2>2, <2>3
<1>3. CASE DestroyEnds
  \* Only the owner had a receiver, and it has just unregistered it.
  BY <1>0, <1>3, DestroyEndsOwnership DEF ReceiversOwned
<1>. QED
  BY <1>1, <1>2, <1>3, ReceiverSteps

\* Every way out of the loop gives the CPU lock back.
LEMMA WakeLockStep ==
  ASSUME TypeInv, CurrentThread, WakeLockInLoop, LifecycleNext
  PROVE  WakeLockInLoop'
<1>. USE DEF TypeInv, LifecycleTypeOK, WakeLockInLoop
<1>1. CASE \/ ClickStart \/ ClickStop \/ UpdateUi \/ WifiChanges
           \/ \E i \in Instances : MediaUnmounted(i)
  BY <1>1 DEF ClickStart, ClickStop, UpdateUi, WifiChanges, MediaUnmounted, threadVars
<1>2. CASE OnCreate \/ OnStart \/ OnStartWaits \/ OnStartGivesUp
  BY <1>2 DEF OnCreate, OnStart, OnStartWaits, OnStartGivesUp, threadVars
<1>3. CASE OnStartSpawns
  \* Nobody runs, so nobody holds the lock.
  <2>1. \A i \in Instances : ~wakeLock[i]
    BY <1>3, NoneAssumption DEF OnStartSpawns, CurrentThread, Alive
  <2>. QED
    BY <1>3, <2>1 DEF OnStartSpawns
<1>4. CASE \/ OnDestroy \/ OnDestroyJoins \/ OnDestroyTimesOut \/ OnDestroyCloses
           \/ OnDestroyChecksWifiLock \/ OnDestroyReleasesWifiLock
           \/ OnDestroyFinishes
  BY <1>4
  DEF OnDestroy, OnDestroyJoins, OnDestroyTimesOut, OnDestroyCloses,
      OnDestroyChecksWifiLock, OnDestroyReleasesWifiLock, OnDestroyFinishes, threadVars
<1>5. CASE \E i \in Instances :
             \/ RunBegins(i) \/ BindSucceeds(i) \/ BindFails(i) \/ StopsItself(i)
             \/ CreatesWifiLock(i) \/ AcquiresWifiLock(i)
  BY <1>5
  DEF RunBegins, BindSucceeds, BindFails, StopsItself, CreatesWifiLock,
      AcquiresWifiLock, Goto
<1>6. CASE \E i \in Instances :
             \/ GetsReady(i) \/ ChecksExit(i) \/ Supervises(i) \/ Wakes(i)
             \/ Terminates(i) \/ QuitsListener(i)
  BY <1>6
  DEF GetsReady, ChecksExit, Supervises, Wakes, Terminates, QuitsListener,
      TakeWakeLock, Goto
<1>7. CASE \E i \in Instances :
             \/ Acknowledges(i) \/ ChecksWifiLock(i) \/ ReleasesWifiLock(i)
             \/ NullsWifiLock(i)
  BY <1>7
  DEF Acknowledges, ChecksWifiLock, ReleasesWifiLock, NullsWifiLock,
      ReleaseWakeLock, Goto
<1>. QED
  BY StepCases, <1>1, <1>2, <1>3, <1>4, <1>5, <1>6, <1>7

LEMMA OwnerInvInit == LifecycleInit => OwnerInv
BY DEF LifecycleInit, OwnerInv, OneOwner, NoOwner, ReceiversOwned, WakeLockInLoop

LEMMA OwnerInvStep ==
  TypeInv /\ CurrentThread /\ OwnerInv /\ [LifecycleNext]_lifecycleVars => OwnerInv'
<1>. SUFFICES ASSUME TypeInv, CurrentThread, OwnerInv, [LifecycleNext]_lifecycleVars
              PROVE  OwnerInv'
  OBVIOUS
<1>1. CASE LifecycleNext
  BY <1>1, OwnerStep, ReceiversStep, WakeLockStep DEF OwnerInv
<1>2. CASE UNCHANGED lifecycleVars
  <2>1. UNCHANGED <<ownerVars, receivers, tpc, wakeLock>>
    BY <1>2 DEF lifecycleVars, mainVars, amsVars, threadVars, ownerVars
  <2>2. WakeLockInLoop'
    BY <2>1 DEF OwnerInv, WakeLockInLoop
  <2>3. OneOwner' /\ Keeps
    BY <2>1, OwnerUnchanged DEF OwnerInv
  <2>4. ReceiversOwned'
    BY <2>1, <2>3 DEF OwnerInv, ReceiversOwned, Keeps, TypeInv, LifecycleTypeOK
  <2>. QED
    BY <2>2, <2>3, <2>4 DEF OwnerInv
<1>. QED
  BY <1>1, <1>2

\* An instance that is retired owns nothing any more.
LEMMA RetiredOwnsNothing ==
  ASSUME TypeInv, NEW i \in Instances, Retired(i)
  PROVE  ~Owner(i)
<1>1. ~Started(i)
  BY DEF Retired, DestroyHandled, Started
<1>2. ~Stopping(i)
  <2>. SUFFICES ASSUME Stopping(i) PROVE FALSE
    OBVIOUS
  <2>1. inbox \in Seq(Callbacks) /\ Len(inbox) \in 1..Len(inbox)
    BY DEF TypeInv, LifecycleTypeOK, Stopping
  <2>2. inbox[Len(inbox)] = Callback("DESTROY", i)
    BY <2>1 DEF Stopping
  <2>3. Len(inbox) \in DOMAIN inbox
    BY <2>1
  <2>. QED
    BY <2>2, <2>3 DEF Retired, DestroyHandled
<1>3. ~Destroying(i)
  BY DEF Retired, Destroying
<1>. QED
  BY <1>1, <1>2, <1>3 DEF Owner

LEMMA OwnerInvSuffices ==
  ASSUME TypeInv, CurrentThread, OwnerInv PROVE RetiredHoldsNothing
<1>. SUFFICES ASSUME NEW i \in Instances, Retired(i)
              PROVE  /\ i \notin receivers
                     /\ Alive(i) \/ serverThread = i => timedOut
                     /\ wakeLock[i] => Alive(i)
  BY DEF RetiredHoldsNothing
<1>1. ~Owner(i)
  BY RetiredOwnsNothing
<1>2. serverThread = i => timedOut
  \* Whoever serverThread refers to is the owner, until a join runs out of time.
  BY <1>1, NoneAssumption
  DEF OwnerInv, OneOwner, NoOwner, Owner, Started, Stopping, Destroying
<1>3. Alive(i) => serverThread = i
  BY DEF CurrentThread
<1>. QED
  BY <1>1, <1>2, <1>3 DEF OwnerInv, ReceiversOwned, WakeLockInLoop, Alive

-----------------------------------------------------------------------------
(***************************************************************************)
(* The listening socket, in the composed service.                          *)
(***************************************************************************)
\* main comes to "destroy_wifi" only by the step that closes the socket.
LEMMA ClosedBefore ==
  ASSUME TypeInv, LifecycleStep, main'.pc = "destroy_wifi"
  PROVE  main.pc = "destroy_wifi"
<1>. USE DEF TypeInv, LifecycleTypeOK
<1>1. CASE Ui \/ UpdateUi
  BY <1>1
  DEF Ui, UpdateUi, ClickStart, ClickStop, WifiChanges, MediaUnmounted, mainVars
<1>2. CASE OnCreate \/ OnStart \/ OnStartWaits \/ OnStartGivesUp \/ OnStartSpawns
  BY <1>2 DEF OnCreate, OnStart, OnStartWaits, OnStartGivesUp, OnStartSpawns
<1>3. CASE OnDestroy \/ OnDestroyJoins \/ OnDestroyTimesOut
  BY <1>3 DEF OnDestroy, OnDestroyJoins, OnDestroyTimesOut
<1>4. CASE OnDestroyChecksWifiLock \/ OnDestroyReleasesWifiLock \/ OnDestroyFinishes
  BY <1>4
  DEF OnDestroyChecksWifiLock, OnDestroyReleasesWifiLock, OnDestroyFinishes
<1>5. CASE \E i \in Instances : ServerThread(i)
  BY <1>5
  DEF ServerThread, RunBegins, StopsItself, CreatesWifiLock, AcquiresWifiLock,
      GetsReady, ChecksExit, Wakes, Acknowledges, ChecksWifiLock,
      ReleasesWifiLock, NullsWifiLock, mainVars
<1>. QED
  BY <1>1, <1>2, <1>3, <1>4, <1>5 DEF LifecycleStep, MainThread

\* Listeners and sessions leave the listening sockets alone, and a listener that
\* there is does not become none.
LEMMA SocketStepShape ==
  ASSUME SocketStep
  PROVE  /\ listenSocket' = listenSocket
         /\ \/ listener' = listener
            \/ \E i \in Instances : /\ listener[i] # "none"
                                   /\ \E l : listener' = [listener EXCEPT ![i] = l]
<1>1. CASE \E i \in Instances : ListenerNext(i)
  BY <1>1 DEF ListenerNext, Accept, StartSession, RegisterSessionThread, ListenerDies
<1>2. CASE \E s \in Sessions : SessionNext(s)
  BY <1>2
  DEF SessionNext, AwaitsClient, OtherCommand, TakesLine, ConnectsData, GetsNoData,
      TransferEnds, SessionEnds, SetSession, listenerVars
<1>. QED
  BY <1>1, <1>2 DEF SocketStep

\* The activity manager's record changes with a click on start and with a stop.
LEMMA RecordSteps ==
  ASSUME [LifecycleNext]_lifecycleVars
  PROVE  ClickStart \/ (record' \in {record, None} /\ created' = created)
<1>1. CASE UNCHANGED lifecycleVars
  BY <1>1 DEF lifecycleVars, amsVars
<1>2. CASE ClickStop \/ UpdateUi \/ \E i \in Instances : MediaUnmounted(i)
  BY <1>2 DEF ClickStop, UpdateUi, MediaUnmounted, StopService, amsVars
<1>3. CASE \E i \in Instances : StopsItself(i)
  BY <1>3 DEF StopsItself, StopService, amsVars
<1>4. CASE \/ WifiChanges \/ OnCreate \/ OnStart \/ OnStartWaits \/ OnStartGivesUp
           \/ OnStartSpawns \/ OnDestroy \/ OnDestroyJoins \/ OnDestroyTimesOut
           \/ OnDestroyCloses \/ OnDestroyChecksWifiLock
           \/ OnDestroyReleasesWifiLock \/ OnDestroyFinishes
  BY <1>4
  DEF WifiChanges, OnCreate, OnStart, OnStartWaits, OnStartGivesUp, OnStartSpawns,
      OnDestroy, OnDestroyJoins, OnDestroyTimesOut, OnDestroyCloses,
      OnDestroyChecksWifiLock, OnDestroyReleasesWifiLock, OnDestroyFinishes, amsVars
<1>5. CASE \E i \in Instances :
              \/ RunBegins(i) \/ BindSucceeds(i) \/ BindFails(i)
              \/ CreatesWifiLock(i) \/ AcquiresWifiLock(i) \/ GetsReady(i)
              \/ ChecksExit(i) \/ Supervises(i) \/ Wakes(i) \/ Terminates(i)
              \/ QuitsListener(i) \/ Acknowledges(i)
              \/ ChecksWifiLock(i) \/ ReleasesWifiLock(i) \/ NullsWifiLock(i)
  BY <1>5
  DEF RunBegins, BindSucceeds, BindFails, CreatesWifiLock, AcquiresWifiLock,
      GetsReady, ChecksExit, Supervises, Wakes, Terminates, QuitsListener,
      Acknowledges, ChecksWifiLock, ReleasesWifiLock, NullsWifiLock, amsVars
<1>. QED
  BY StepCases, <1>1, <1>2, <1>3, <1>4, <1>5

\* An instance is started at most once: serverThread is null for the current
\* instance only until its thread is made.
Unstarted(i) == i \notin created \/ (record = i /\ serverThread = None)

FreshStarts ==
  /\ record \in created \cup {None}
  /\ \A i \in Instances : Unstarted(i) => tpc[i] = "new"

LEMMA SpawnsFresh ==
  ASSUME TypeInv, OneOwner, FreshStarts, OnStartSpawns
  PROVE  tpc[main.inst] = "new" /\ record = main.inst /\ main.inst \in Instances
<1>1. main.pc = "start_wait" /\ serverThread = None /\ main.inst \in Instances
  BY DEF OnStartSpawns, TypeInv, BusyInstance
<1>2. record = main.inst
  BY <1>1, NoneAssumption DEF OneOwner, NoOwner, Owner, Started, Stopping, Destroying
<1>. QED
  BY <1>1, <1>2 DEF FreshStarts, Unstarted

LEMMA FreshStep ==
  ASSUME TypeInv, OneOwner, FreshStarts, [LifecycleNext]_lifecycleVars
  PROVE  FreshStarts'
<1>. USE NoneAssumption DEF TypeInv, LifecycleTypeOK
<1>1. CASE ClickStart
  <2>1. UNCHANGED <<tpc, serverThread>> /\ StartService
    BY <1>1 DEF ClickStart, threadVars
  <2>2. \/ record' = record /\ created' = created
        \/ \E i \in Instances \ created : record' = i /\ created' = created \cup {i}
    BY <2>1 DEF StartService, amsVars
  <2>. QED
    BY <2>1, <2>2 DEF FreshStarts, Unstarted
<1>2. CASE record' \in {record, None} /\ created' = created
  <2>1. CASE OnStartSpawns
    <3>1. /\ UNCHANGED <<record, created>> /\ serverThread' = main.inst
          /\ tpc' = [tpc EXCEPT ![main.inst] = "begin"]
      BY <2>1 DEF OnStartSpawns, amsVars
    <3>2. record = main.inst /\ main.inst \in Instances
      BY <2>1, SpawnsFresh
    <3>. QED
      BY <3>1, <3>2 DEF FreshStarts, Unstarted
  <2>2. CASE OnDestroyJoins
    <3>1. main.pc = "destroy_join" /\ UNCHANGED <<record, created, tpc>>
      BY <2>2 DEF OnDestroyJoins, amsVars, threadVars
    <3>2. record = None
      BY <3>1 DEF OneOwner, NoOwner, Owner, Started, Stopping, Destroying
    <3>. QED
      BY <3>1, <3>2 DEF FreshStarts, Unstarted
  <2>3. CASE \E j \in Instances : ThreadStep(j)
    BY <1>2, <2>3 DEF ThreadStep, Alive, FreshStarts, Unstarted
  <2>4. CASE UNCHANGED <<tpc, serverThread>>
    BY <1>2, <2>4 DEF FreshStarts, Unstarted
  <2>. QED
    BY StepShapes, <2>1, <2>2, <2>3, <2>4
<1>. QED
  BY RecordSteps, <1>1, <1>2

\* The steps of the lifecycle that leave sockets and sessions alone: a thread comes
\* past the loop only from past it or from before it, and it never comes back.
BeforeListener == {"new", "begin", "bind", "stop_service", "wifi_create",
                   "wifi_acquire", "ready"}
AfterListener == {"finish", "release_check", "release", "release_null", "exited"}

LEMMA LoopIsBetween ==
  ASSUME TypeInv, OneOwner, FreshStarts, LifecycleStep, NEW i \in Instances
  PROVE  /\ tpc'[i] \in BeforeListener => tpc[i] \in BeforeListener
         /\ tpc'[i] \in AfterListener => tpc[i] \in AfterListener \cup BeforeListener
<1>. USE DEF TypeInv, LifecycleTypeOK, BeforeListener, AfterListener
<1>1. CASE Ui \/ UpdateUi
  BY <1>1
  DEF Ui, UpdateUi, ClickStart, ClickStop, WifiChanges, MediaUnmounted, threadVars
<1>2. CASE OnCreate \/ OnStart \/ OnStartWaits \/ OnStartGivesUp
  BY <1>2 DEF OnCreate, OnStart, OnStartWaits, OnStartGivesUp, threadVars
<1>3. CASE OnStartSpawns
  BY <1>3, SpawnsFresh DEF OnStartSpawns
<1>4. CASE \/ OnDestroy \/ OnDestroyJoins \/ OnDestroyTimesOut
           \/ OnDestroyChecksWifiLock \/ OnDestroyReleasesWifiLock
           \/ OnDestroyFinishes
  BY <1>4
  DEF OnDestroy, OnDestroyJoins, OnDestroyTimesOut, OnDestroyChecksWifiLock,
      OnDestroyReleasesWifiLock, OnDestroyFinishes, threadVars
<1>5. CASE \E j \in Instances : ServerThread(j)
  BY <1>5
  DEF ServerThread, RunBegins, StopsItself, CreatesWifiLock, AcquiresWifiLock,
      GetsReady, ChecksExit, Wakes, Acknowledges, ChecksWifiLock,
      ReleasesWifiLock, NullsWifiLock, Goto
<1>. QED
  BY <1>1, <1>2, <1>3, <1>4, <1>5 DEF LifecycleStep, MainThread

LEMMA SocketInit == Init => SocketOwned /\ ListenerQuits /\ FreshStarts
BY DEF Init, LifecycleInit, SessionInit, SocketOwned, ListenerQuits, FreshStarts, Unstarted

LEMMA ListenerQuitsStep ==
  ASSUME TypeInv, OneOwner, FreshStarts, SessionTypeOK, ListenerQuits, [Next]_vars
  PROVE  ListenerQuits'
<1>. USE DEF ListenerQuits, TypeInv, LifecycleTypeOK, SessionTypeOK
<1>1. CASE UNCHANGED vars
  BY <1>1 DEF vars, lifecycleVars, threadVars, sessionVars, listenerVars
<1>2. CASE LifecycleStep
  BY <1>2, LoopIsBetween
  DEF BeforeListener, AfterListener, LifecycleStep, sessionVars, listenerVars
<1>3. CASE \E j \in Instances : RunOnSockets(j)
  <2>1. PICK j \in Instances : RunOnSockets(j)
    BY <1>3
  <2>2. CASE RunBindsListener(j)
    BY <2>2 DEF RunBindsListener, BindSucceeds, Goto, SetupListener
  <2>3. CASE RunFailsToBind(j)
    BY <2>3 DEF RunFailsToBind, BindFails, Goto, SetupListenerFails
  <2>4. CASE RunSupervises(j)
    BY <2>4 DEF RunSupervises, Supervises, Goto, SuperviseListener
  <2>5. CASE RunTerminatesSessions(j)
    BY <2>5 DEF RunTerminatesSessions, Terminates, Goto, TerminateAllSessions, listenerVars
  <2>6. CASE RunQuitsListener(j)
    BY <2>6 DEF RunQuitsListener, QuitsListener, Goto, QuitListener
  <2>. QED
    BY <2>1, <2>2, <2>3, <2>4, <2>5, <2>6 DEF RunOnSockets
<1>4. CASE DestroyClosesListener
  <2>1. UNCHANGED <<tpc, listener>>
    BY <1>4 DEF DestroyClosesListener, OnDestroyCloses, CloseListenSocket, threadVars
  <2>2. \A i \in Instances : listenSocket[i] = "closed" => listenSocket'[i] = "closed"
    BY <1>4 DEF DestroyClosesListener, CloseListenSocket
  <2>. QED
    BY <2>1, <2>2
<1>5. CASE SocketStep
  <2>1. tpc' = tpc /\ listenSocket' = listenSocket
    BY <1>5, SocketStepShape DEF SocketStep, lifecycleVars, threadVars
  <2>2. \A i \in Instances : listener[i] = "none" => listener'[i] = "none"
    BY <1>5, SocketStepShape
  <2>. QED
    BY <2>1, <2>2
<1>. QED
  BY <1>1, <1>2, <1>3, <1>4, <1>5 DEF Next

LEMMA SocketOwnedStep ==
  ASSUME TypeInv, LockInv, OwnerInv, SessionInv, SocketOwned, Next
  PROVE  SocketOwned'
<1>. SUFFICES ASSUME NEW i \in Instances, listenSocket'[i] \notin {"null", "closed"},
                     ~timedOut'
              PROVE  Owner(i)' /\ main'.pc # "destroy_wifi"
  BY DEF SocketOwned
<1>0. ~timedOut
  BY StepMaps, TimedOutStays
<1>1. CASE ~crashed /\ LifecycleStep
  <2>1. Owner(i) /\ main.pc # "destroy_wifi"
    BY <1>0, <1>1 DEF LifecycleStep, sessionVars, listenerVars, SocketOwned
  <2>2. LifecycleNext
    BY <1>1 DEF LifecycleStep, LifecycleNext
  <2>3. ~DestroyEnds
    BY <1>0, <2>1
    DEF DestroyEnds, OnDestroyChecksWifiLock, OnDestroyFinishes, LockInv, DestroyRunsAlone
  <2>. QED
    BY <1>1, <2>1, <2>2, <2>3, OwnerStep, ClosedBefore DEF OwnerInv, LockInv, Keeps
<1>2. CASE \E j \in Instances : RunOnSockets(j)
  <2>1. PICK j \in Instances : RunOnSockets(j)
    BY <1>2
  <2>2. Alive(j) /\ UNCHANGED ownerVars
    BY <2>1
    DEF RunOnSockets, RunBindsListener, RunFailsToBind, RunSupervises,
        RunTerminatesSessions, RunQuitsListener, BindSucceeds, BindFails,
        Supervises, Terminates, QuitsListener, Goto, Alive, mainVars, amsVars,
        ownerVars
  <2>3. Keeps /\ main' = main
    BY <2>2, OwnerUnchanged DEF OwnerInv, ownerVars
  <2>4. CASE listenSocket'[i] = listenSocket[i]
    BY <1>0, <2>3, <2>4 DEF SocketOwned, Keeps
  <2>5. CASE listenSocket'[i] # listenSocket[i]
    \* Only the running thread binds, and its instance is the owner.
    <3>1. i = j
      BY <2>1, <2>5
      DEF RunOnSockets, RunBindsListener, RunFailsToBind, RunSupervises,
          RunTerminatesSessions, RunQuitsListener, SetupListener,
          SetupListenerFails, SuperviseListener, TerminateAllSessions,
          QuitListener, listenerVars, SessionInv, SessionTypeOK
    <3>2. serverThread = i
      BY <2>2, <3>1 DEF LockInv, CurrentThread
    <3>3. Owner(i) /\ main.pc # "destroy_wifi"
      BY <1>0, <3>2, NoneAssumption
      DEF OwnerInv, OneOwner, NoOwner, Owner, Started, Stopping, Destroying
    <3>. QED
      BY <2>3, <3>3 DEF Keeps
  <2>. QED
    BY <2>4, <2>5
<1>3. CASE DestroyClosesListener
  <2>1. main.pc = "destroy_close" /\ CloseListenSocket(main.inst)
    BY <1>3 DEF DestroyClosesListener, OnDestroyCloses
  <2>2. i # main.inst /\ listenSocket'[i] = listenSocket[i]
    BY <2>1 DEF CloseListenSocket, SessionInv, SessionTypeOK
  <2>3. Owner(i)
    BY <1>0, <2>2 DEF SocketOwned
  <2>. QED
    BY <2>1, <2>2, <2>3 DEF Owner, Started, Stopping, Destroying
<1>4. CASE SocketStep
  <2>1. UNCHANGED ownerVars
    BY <1>4 DEF SocketStep, lifecycleVars, mainVars, amsVars, threadVars, ownerVars
  <2>2. listenSocket' = listenSocket
    BY <1>4, SocketStepShape
  <2>3. Keeps /\ main' = main
    BY <2>1, OwnerUnchanged DEF OwnerInv, ownerVars
  <2>. QED
    BY <1>0, <2>2, <2>3 DEF SocketOwned, Keeps
<1>. QED
  BY <1>1, <1>2, <1>3, <1>4 DEF Next

RetirementInv ==
  /\ TypeInv /\ LockInv /\ OwnerInv /\ FreshStarts
  /\ SessionInv /\ SocketOwned /\ ListenerQuits

LEMMA RetirementStep == RetirementInv /\ [Next]_vars => RetirementInv'
<1>. SUFFICES ASSUME RetirementInv, [Next]_vars PROVE RetirementInv'
  OBVIOUS
<1>1. TypeInv' /\ LockInv' /\ OwnerInv' /\ SessionInv'
  BY StepMaps, TypeStep, LockStep, OwnerInvStep, ServiceStep DEF RetirementInv, LockInv
<1>2. FreshStarts' /\ ListenerQuits'
  BY StepMaps, FreshStep, ListenerQuitsStep DEF RetirementInv, OwnerInv, SessionInv
<1>3. SocketOwned'
  <2>1. CASE Next
    BY <2>1, SocketOwnedStep DEF RetirementInv
  <2>2. CASE UNCHANGED vars
    <3>1. UNCHANGED ownerVars /\ listenSocket' = listenSocket
      BY <2>2
      DEF vars, lifecycleVars, sessionVars, listenerVars, mainVars, amsVars,
          threadVars, ownerVars
    <3>2. Keeps /\ main' = main /\ timedOut' = timedOut
      BY <3>1, OwnerUnchanged DEF RetirementInv, OwnerInv, ownerVars
    <3>. QED
      BY <3>1, <3>2 DEF RetirementInv, SocketOwned, Keeps
  <2>. QED
    BY <2>1, <2>2
<1>. QED
  BY <1>1, <1>2, <1>3 DEF RetirementInv

\* A destroyed instance has left nothing behind, whichever way its server
\* thread and onDestroy went: no receiver, and no thread, no CPU lock, no
\* reference in serverThread and no open listening socket, unless a join of
\* onDestroy ran out of time; and then the CPU lock is held by a thread that
\* runs, and the socket kept by one that runs or never made its listener.
THEOREM NothingIsLeftBehind == Spec => []RetiredLeavesNothing
<1>1. Init => RetirementInv
  BY TypeInit, LockInit, OwnerInvInit, SessionInvInit, SocketInit DEF Init, RetirementInv
<1>2. RetirementInv /\ [Next]_vars => RetirementInv'
  BY RetirementStep
<1>3. RetirementInv => RetiredLeavesNothing
  <2>. SUFFICES ASSUME RetirementInv PROVE RetiredLeavesNothing
    OBVIOUS
  <2>1. RetiredHoldsNothing
    BY OwnerInvSuffices DEF RetirementInv, LockInv
  <2>2. ASSUME NEW i \in Instances, Retired(i), listenSocket[i] \notin {"null", "closed"}
        PROVE  timedOut /\ (Alive(i) \/ listener[i] = "none")
    <3>1. timedOut
      BY <2>2, RetiredOwnsNothing DEF RetirementInv, SocketOwned
    <3>2. ~Alive(i) => listener[i] = "none"
      BY <2>2 DEF RetirementInv, ListenerQuits, Alive
    <3>. QED
      BY <3>1, <3>2
  <2>. QED
    BY <2>1, <2>2 DEF RetiredLeavesNothing
<1>. QED
  BY <1>1, <1>2, <1>3, PTL DEF Spec
=============================================================================
