# A TLA+ model of FileFTPServerForAndroid

The repository holds two programs, and this directory models both.

* **The server**: an FTP server that runs inside an Android application, a
  foreground service (`FTPServerService`) with a server thread, a listener thread
  and one thread per client, started and stopped from a button. Paths that begin
  with `fileftpserver/` or `swiftp/` are relative to
  `src/FileFTPServer/app/src/main/java/com/dq/`.
* **Freeline**: the Python build tool the project is built with. It builds the
  application cleanly with gradle, or compiles what has changed and patches the
  application that runs on a device. Python files are relative to
  `src/FileFTPServer/freeline_core/`; `src/FileFTPServer/freeline/freeline_core/`
  holds the same files byte for byte.

Neither has tests beyond the generated templates. The server's state is shared
between threads without locks; Freeline's is a pool of threads, and a cache
directory that outlives builds that fail or are killed. What the modules look at
is therefore order: who may close, null, restart, record or miss what, whether
everything that must end does end, and whether what is remembered is true.

## 1. Inventory

### The server

| part | state | operations | interacts with | hard behaviour |
|---|---|---|---|---|
| service lifecycle, `fileftpserver/FTPServerService.java` | static: `serverThread`, `wifiLock`, `port`; per object: `shouldExit`, `listenSocket`, `wakeLock`, `wifiListener`, `sessionThreads` | `onCreate`, `onStart`, `onDestroy` on the main thread, `run` on the server thread | Android's activity manager, main screen, listener, sessions | two threads and the activity manager's queue; a ten second join that may run out of time; static fields shared by successive objects |
| main screen, `fileftpserver/MainActivityFragment.kt` | state of the button | click, `updateUi` | reads `serverThread`, calls `startService` and `stopService` | decides from a state that changes after it was read |
| listener, `swiftp/TcpListener.java` | its thread | `run`, `quit` | accepts, starts and registers sessions | races with the shutdown |
| session registry (in `FTPServerService`) | `sessionThreads` | `registerSessionThread`, `terminateAllSessions` | listener, server thread, sessions | which sessions a shutdown reaches |
| session, `swiftp/SessionThread.java`, `swiftp/FtpCmd.java`, `swiftp/Cmd*.java` | sockets, login, working directory, transfer mode, rename source | one per FTP command | data sockets, file system, server thread | sockets closed by another thread, command sequences, pipelined lines |
| data sockets, `swiftp/*DataSocketFactory.java` | passive server socket, active address | `onPasv`, `onPort`, `onTransfer` | session | what one transfer leaves for the next; waits without timeout |
| file system (external), used by `swiftp/Cmd*.java` | files and directories | STOR, APPE, RETR, DELE, RNFR/RNTO, MKD, RMD | all sessions at once | check-then-act on shared files, half-done transfers |
| proxy, `swiftp/ProxyConnector.java` | connection state, usage counter, command socket | `run`, `quit`, `pasvListen`, `pasvAccept` | server thread, sessions | failover, restart timing, shared counters; switched off in this build |
| storage volumes, `swiftp/DefaultStorageManager.java` | mount map, list of roots | background refresh, queries | main thread, worker thread | readers without the writers' lock |
| handler list, `swiftp/UiUpdater.java` | `clients` | register, unregister, update | every thread | list changed while iterated |

What makes each part correct:

* lifecycle: one server thread at a time; a stop is never lost and ends the
  thread; nothing is left held afterwards; no thread follows a field another
  one has set to null; no server without a network.
* listener and registry: every running session is known or about to be; the
  shutdown reaches all of them; the listening socket is closed on every way
  out; a crashed listener comes back.
* session and data sockets: no use of a socket field that the server thread has
  cleared; a transfer uses the mode asked for last; every socket is closed.
* file commands: a failed transfer leaves what the replies say; two sessions
  never mix bytes in a file; a rename moves the file that was named.
* proxy: state CONNECTED means a live command socket; restarts keep their two
  rates; the usage counter counts.
* storage and handler list: a reader sees an old or a new map, never half of
  one; no update is lost to a registration.

### Freeline

| part | state | operations | interacts with | hard behaviour |
|---|---|---|---|---|
| task engine, `task_engine.py`, `task.py` | queue, pool of workers, status and parents of the tasks | `add_root_task`, `start`, `finish`, `execute`, `notify`, `wait` | all builders, dispatcher | lost notifies, workers occupied by waiting tasks, failures beside the last success, a second start |
| clean build, `gradle_clean_build.py`, `gradle_tools.py`, `builder.py` | cache directory, ticket, outputs of gradle, backup directory | nine tasks | gradle, adb, task engine | tasks side by side on the same files; builds that stop between installation and clean-up; outputs of other variants |
| scan and policy, `gradle_tools.py`, `android_tools.py` | stat and md5 of every source file | scan, `is_need_clean_build`, `UpdateStatTask` | developer, both builds | equal times, restored files, edits while a build runs |
| incremental build, `gradle_inc_build.py`, `android_tools.py` | marker files, packs, dexes | aapt, javac, dx, merge, push, clean-up | task engine, sync client | markers that survive a failure; one marker for all modules |
| resources, `gradle_inc_build.py`, `android_tools.py`, `gradle_tools.py` | `public.xml`, `ids.xml`, processed copies, list of changed files | `_get_aapt_args`, `process_databinding`, `check_ids_change`, `_refresh_public_files` | aapt, data binding tool | ids are numbers in code not compiled again; a list under two names |
| classes, `gradle_inc_build.py` | patch directory, copies of R files, caches of annotated files | `run_apt_only`, `run_javac_task`, `run_retrolambda`, `append_r_file` | javac, retrolambda, dx | times of files, caches that name deleted files |
| project information, `gradle_tools.py` | modules and their dependencies | `get_project_info`, `get_local_dependency` | all of the above | lists extended while they are read |
| sync client, `sync_client.py` | local tickets, ports | `connect_device`, `push_*`, `sync_state` | the Freeline server in the application | lost answers, kills between two writes, an application installed by somebody else |
| dispatcher and logger, `dispatcher.py`, `logger.py`, `build_commands.py` | commands, queues of messages, footer | `call_command`, `_exec_command`, `LoggerWorker.run` | engine, terminal | a retry inside an exception handler; a join of a thread that may be blocked |
| terminal, `terminal.py`, `cursor.py` | cursor, attributes, nested blocks | names of stylings, `location`, `fullscreen`, `hidden_cursor` | logger | two threads on one cursor; one remembered position |

What makes each part correct:

* engine: a task works once and after its parents; `start` returns when all tasks
  have ended and raises when one has failed; no worker waits for a task that cannot be taken up.
* clean build: an edit the device lacks is found by the next scan; a patch has the
  manifest, the ids and the classes of the application it is for.
* scan: it finds what is not built, and nothing else.
* incremental build, resources, classes: what the application does not run the
  next scan finds; an id stays the id of its resource; what is packed and compiled
  is what the developer's files say.
* sync client: only the application the caches describe is patched, and one is
  refused only when something has gone wrong.
* dispatcher, logger, terminal: one retry, one footer, no message twice or out of
  order, an end; the screen is left as it was.

`PROJECT.json` lists the components with what is modelled, and under `hazards`
the places of the code where one of these could go wrong. Smaller ones that no
property covers are: the copy of a library's R file that is not refreshed
(`gradle_inc_build.py:861`); a `merged.dex` of an earlier failure
(`android_tools.py:326`, harmless since it is overwritten or sent); tickets that
agree by chance because two builds began at the same microsecond of a second
(`sync_client.py:256`); and, in the server, the ones of the components section 6
names.

## 2. Modules

    The server
    ServiceInstances          the names all modules share
      ServiceLifecycle        main thread, activity manager, server thread
      ListenerSessions        listening socket, listener, sessions, registry
        FtpService            both, joined in six steps
          MCFtpService        for TLC: symmetry, and a constraint for the liveness run
    DataSocketFactory         what a factory of data connections promises
      NormalDataSocketFactory the one for clients on the same network
        SessionData           one session's data connection and two threads
    FileSystem                files and directories, as java.io shows them
      FileCommands            the commands on files, of sessions that share them
    AsciiTransfer             line ends of ASCII transfers
        MCSession             SessionData with the two: a session as its client sees it
    FtpServiceProofs          theorems about ServiceLifecycle and FtpService
    SessionProofs             theorems about FileCommands, as MCSession has it, and
                              about SessionData and its factory

    Freeline
    TaskGraph                 what the engine promises to the builders
      TaskEngine              the engine; implements TaskGraph
        MCTaskEngine          task graphs for TLC
        TaskEngineProofs      theorems about TaskEngine
    BuildOutputs              which outputs of gradle a build works with
      CleanBuild              the tasks of a clean build and the cache directory
        MCBuilds              both
          BuildsProofs        theorems about both
    ChangeScan, ProjectInfo, BuildScript
        MCProject             the three: what is known before a build
          ProjectProofs       theorems about the three
    SyncClient                tickets of client and application
      IncrementalBuild        the tasks of an incremental build
        MCPatch               both
          PatchProofs         theorems about both
          MCIncremental       MCPatch and MCResources: the incremental build
    ResourceIds, DataBinding, ResourceOverlay, PatchClasses, LibraryR, AptInputs
        MCResources           the six: what goes into a patch
          ResourcesProofs     theorems about the six
          MCIncremental       see above
    Dispatcher, ProgressLog, Terminal
        MCConsole             the three: a call as its user sees it
          ConsoleProofs       theorems about the three

The modules `MCSession`, `MCBuilds`, `MCProject`, `MCPatch`, `MCResources`,
`MCIncremental` and `MCConsole` each check several components that share no variable. A
variable `part` says which component a behaviour is about; that component's variables
change by its own `Next`, those of the others rest at `None`. The instances are put in
with `INSTANCE ... WITH`, a variable whose name two components use gets a prefix, and
`PartsAssumption` makes TLC evaluate the assumptions on the constants of all of
them. `MCIncremental` `EXTENDS` two of these modules, which share `part` and `None`
through `Parts`; the theorems are about each of the two. An invariant of such a module is
a conjunction: the type invariant of a component and properties its module states one by
one, with the exceptions they have and why.

### ServiceLifecycle

Three parties take turns. The *main thread* (`main`) is idle or inside one
callback of one instance; clicks, refreshes and callbacks run one after the
other on it. The *activity manager* is external: `record` is the current
instance, `inbox` the callbacks it has posted, first in first out, as
`startService` and `stopService` promise. The *server thread* of instance `i`
is the program counter `tpc[i]` through `FTPServerService.run`.

| variable | in the code |
|---|---|
| `serverThread`, `wifiLock` | the static fields; `wifiLock.ref` is the reference, `wifiLock.held` the lock of the system |
| `shouldExit[i]`, `wakeLock[i]` | the fields of instance `i` |
| `failedBinds[i]` | the local `atmp` of `run` |
| `main.attempts` | the local `attempts` of `onStart` |
| `receivers` | instances whose `mReceiver` is registered |
| `ui` | wifi is up and has an address; a refresh is queued; the button is enabled |
| `crashed` | an uncaught exception has ended the process |
| `timedOut` | history: a join of `onDestroy` has run out of time |

A check of a shared field and the use that follows are two steps
(`OnDestroyChecksWifiLock`, `OnDestroyReleasesWifiLock`; `ChecksWifiLock`,
`ReleasesWifiLock`, `NullsWifiLock`), so the other thread may come between
them. Reads of `shouldExit`, which is not volatile, are taken to be
sequentially consistent: every turn of the loop sleeps.

Instance and server thread share a name because `onStart` starts at most one
thread per instance: it starts one only while `serverThread` is null, and only
`onDestroy` makes it null.

### ListenerSessions

The socket, the listener thread and the sessions of each instance. Of a session
it keeps what decides about its end: waiting for a command, waiting for the
client of a passive transfer, or transferring, its two sockets, and how many lines its
reader has taken from the command socket (`ahead`). The blocks under `synchronized
(this)` are single steps, since nothing in them waits.
`List<SessionThread>` is a set: order and repetition do not matter.

Nothing in the code asks whether the command socket is still open before a command is
served: a line that was read ahead is served after `terminateAllSessions` too, and may
wait for a data client, or open a data connection, that nobody closes any more. The
close of a data socket is one step here; `SessionData` takes it apart.

### FtpService

`EXTENDS` both and joins the steps that touch both: a bind that succeeds or
fails, the supervision of the listener, `terminateAllSessions`,
`TcpListener.quit`, and the close of the socket in `onDestroy`. Every other step
leaves the variables of the other module alone.

### DataSocketFactory, NormalDataSocketFactory

`DataSocketFactory` is the promise a session relies on: `mode` is what the
client asked for last and is still in force, and a transfer uses it or fails.
`NormalDataSocketFactory` has the fields of the class (`server`; `remote` for
`remoteAddr` and `remotePort`), the number of server sockets that are `listening`, and
two history variables: `asked`, the last request, and `via`, how the last
connection was made. `KeepsPromise` is the refinement, with `Mode` for `mode`.

### SessionData

One session, whose command thread runs PASV, PORT and transfers, and the server thread,
which runs `terminateAllSessions` once, at any time. Each check and each use of
`dataSocket` and `dataOutputStream` is a step (`pc` for the session thread, `closing[t]`
for `closeDataSocket` in either thread), so every interleaving of the two is a behaviour.
The factory's accept or connect (`GetsConnection`) and the assignment of what it returns
(`AssignsSocket`) are two steps as well, with the connection in `got` between them.
`made`, `open` name and count the connections; `mark` remembers how many had been assigned
when termination began. What a transfer moves is left out: a send or a receive works,
fails, or meets a null.

### FileSystem, FileCommands, AsciiTransfer

`FileSystem` (external) is a tree of paths, each a directory or the number of a
file, and the contents by number, so that a stream keeps its file when the name is
deleted, replaced or moved. `File.delete` takes files and empty directories,
`renameTo` is rename(2), an appending stream writes at the end and another one at
its own position, leaving a hole where a second stream has emptied the file. A path
is a sequence of names; "emulated/0" is one name, "0", and only what is below it can
be changed. Names have no "..", so `violatesChroot` is always false.

`FileCommands` runs the commands of several sessions over that tree. Each call whose
answer a command acts on later is a step (`cmd[s].pc`): STOR asks `isDirectory`,
then `exists`, then deletes, then opens, and only then wants its data connection;
`recursiveDelete` has a stack of `frames`. Commands of one call are one step. A
step of a transfer is one buffer, and a connection is refused, ends or breaks at any
moment. History variables say what the replies have promised: `wanted[p]` is what
`p` must hold (`Unknown` where commands that overlapped leave it open), `alone`
whether another session was at work on the same path, `writers[f]` the STORs that
opened a file, `raced` the files that got a name a STOR had just found free or had
made free.

`FilesAreAsSent` follows contents through STOR, APPE, RETR, renames and deletions,
also when transfers fail. `SessionsStayApart` says how far the missing lock can
hurt: two STORs share a file only where one made it after the other had looked, and
a process ends in `recursiveDelete` only for a directory another session took away
(or that cannot be listed).

`AsciiTransfer` is the conversion of RETR and STOR on texts read in any buffers.
`AsciiIsFaithful` needs the CR remembered from one buffer to the next.

### TaskGraph, TaskEngine

`TaskGraph` is the abstract specification: a task is taken up, begins when its
parents have ended, and ends. `TaskEngine` is `task_engine.py` and `task.py`: the
queue ordered by depth (`Prepare`, `PutTask`), the workers (`TakeTask`), the
`is_all_parent_finished` a worker asks before it waits (`ChecksParents`, `Waits`,
two steps: a notify in between is lost), `notify` from the parents
(`NotifyChild`), `_pass_interrupted_exception`, the last task that wakes the main
thread (`ChecksLast`, `WakesMain`), and `StartAgain`, the retry of the dispatcher
with new tasks while workers of the first start are still about. `DependencyOrder`
is the refinement.

### CleanBuild, BuildOutputs

`CleanBuild` takes one clean build apart: `pc[t]` is the step of each of the nine
tasks, the disk is `stat` (the stat of each module, or an empty or half-written
file), `apktime` and `syncid` (the two tickets), `files` (the caches), `config`,
and `device` the application with the ticket it was built with. `_save_cache` is
four steps (check, remove, open, dump), because two tasks run it side by side.
The developer edits meanwhile. Whatever happens to the process, the disk stays as
it is, so the properties are stated of every state. `InstallApk` may return without having
installed anything, since adb's exit code is not looked at.

`BuildOutputs` looks across builds: gradle's output for each variant it ever
built, the manifest and ids in the backup directory, and the description of the
project, which each task that needs it reads again (`gradle_tools.py:676`). Clean builds
stop at any task; `Incremental` makes a patch from what the finder finds.

### ChangeScan, ProjectInfo, BuildScript

`ChangeScan` has the developer's `disk` (content and time of each file), the
recorded `stat` and `md5`, what is `built`, and a coarse clock. An incremental build
compiles what has changed but the jars of the libs directory, which it only records
(`unused`). The scan
reads file after file (`ScanFile`), with edits between; `Sees` is
`__check_changes`, which compares some kinds of file for equality, others by
order, and roots by md5.
`ProjectInfo` and `BuildScript` are sequential algorithms: the extension of the
dependency lists while they are read, the search through the description, and the
counting of braces; they are compared with a reference (`Reachable`,
`BalancedBraces` against the blocks of the script).

### IncrementalBuild, SyncClient

`IncrementalBuild` follows an edit to the application: `version` (the developer's
files), `changed` (what the scan has found), `pack`, `patch`, `dex`, `merged`
(outputs of the tools), `pushed`, `running`, and the `Markers`. The jars of a module are
among what can change. `UpdateStat` empties the stat file and `WriteStat` fills it; a
build killed in between leaves a file that reads as empty (`whole`), with which every
build ends in a `KeyError` (`BuildWithoutStat`). Tasks start when
their parents have ended, as `TaskGraph` has it, may raise, and what they pass on
interrupts the tasks that have not started. `BuildEnds` is the end or a kill at
any point; only files remain.

`SyncClient` has the local tickets (`apktime`, `syncid`), what the local caches
take the application for (`believed`), and the application. A step of the
client is a request that is answered, lost, or answered with the answer lost; the
process is killed, the application stops, or is installed anew, at any step. A
ticket's file is emptied (`OpenTicket`) before it is written (`WriteTicket`).

### ResourceIds, DataBinding, ResourceOverlay, PatchClasses, LibraryR, AptInputs

`ResourceIds`: the names the developer's files define, the keeper's `public.xml`
and `ids.xml`, the `pack` and the ids compiled `code` holds; one build is aapt and
the rest, each of which may fail. `DataBinding`: the list of changed files from
the scan through `check_ids_change`, `process_databinding`, aapt and
`recover_original_file_path` to `UpdateStatTask`; an item is a file and the place
its path is in. `ResourceOverlay`: the orders of directories of the two aapt
commands. `PatchClasses`: the classes with their times through javac, retrolambda
and dx. The annotation processor runs inside javac, and when layouts have changed in a
run of its own before, which compiles into the patch directory as well (`RunAptOnly`). It
is given the `Related` files each time; a file it has once generated is taken to be
generated again, with any content. `LibraryR`: the copies of R files `append_r_file` and
`modify_other_modules_r` make. `AptInputs`: what `run_apt_only` gives the
annotation processor out of which cache.

### Dispatcher, ProgressLog, Terminal

`Dispatcher`: `main` walks through `call_command`, the list of commands (`todo`),
the handlers of `_exec_command` (`handlers` is the stack of those that wait for a
retry) and `_flush_footer`; `worker` is `LoggerWorker.run` with the queue of debug
messages. `ProgressLog`: the same two threads drawing on rows, with a saved cursor
position. `Terminal`: names of stylings resolved to codes, and the blocks that
change the terminal and undo it.

### Faults

Definitions marked *Fault* are variants of the definition that follows them, with a
plausible mistake put in. They are used nowhere in the specification; each is
the answer to the question which change of the code a property would notice.
`PROJECT.json` pairs them with the properties. Each conjunct of the composed
invariants was broken in this way by a fault of its own before the conjuncts were
put together; one per invariant is kept.

## 3. Runs

In the server's runs `Instances` is the number of service objects made during a
behaviour, `Sessions` the number of clients, `StartAttempts` stands for 20,
`BindAttempts` for 10, `MaxPending` limits clicks while callbacks are queued
(`ClickStart` is off at that length). Two instances are enough for everything one
leaves for the next, since the activity manager keeps one record at a time; two
sessions give one that is registered before and one that is registered after the
shutdown looks, and one finished session to clean up. What ends eventually is asked of
behaviours of two kinds, which `Apart` (`MCFtpService`) tells from others: those with two
service objects or a bind that is tried again, and no session; and those with one
service object whose first bind works, and a session. A session
shares nothing with another one, or with another object's thread, that could
keep either from ending. `MaxAhead` is the number of lines a session has read ahead,
which only its end depends on: one line is one that is answered or that waits for a
data client. `StartAttempts` is 0 there, since a wait of `onStart` only delays.

Three file commands are a STOR that fails with the APPE and the RETR that follow it,
RNFR and RNTO with a transfer between them or at work, or two STORs and a rename onto
their target; two can be at work at once. The parameters are a relative name, two
absolute ones and the root, of which a removal goes down three directories. One buffer
is enough for a second stream to find the file shorter or longer than it left it.

In Freeline's runs the bounds count edits, builds and troubles. Two or three
builds are a clean one, one that fails, and one that meets what the failed one
has left; an edit more than builds gives one during a build. Two modules, one
depending on the other, give a list that is not the main module's, a module whose
marker is taken away by another, and a library compiled before its user.

| run | instance | what is asked | answer |
|---|---|---|---|
| `service_safety` | two service objects, two sessions, joins may run out of time | is there one server thread at most, are running sessions known, what does a retired service leave behind, which sessions does the shutdown miss, when is the lock used through null? | one thread; the shutdown misses at most the session being registered; a thread, its port and a null lock only after a join that ran out of time |
| `service_liveness` | two service objects without a session, or one with a session that has read one line ahead; joins may run out of time; fair threads | does every stop end the thread, and every loss of the network the server; do terminated sessions end, is there a listener as long as and no longer than a server? | yes, except sessions whose line makes them use a data connection |
| `is_running` | one service object, one bind that may fail | `isRunning`: "return true if and only if a server Thread is running" | violated: also for a thread that has ended |
| `session` | `SessionData`: three connections, one before, one during, one after termination; `FileCommands`: three commands of two sessions, one buffer per transfer, two names two deep; `AsciiTransfer`: texts of five bytes in all buffers | what do failed transfers and the termination leave open, with the termination between the factory's accept and the assignment too; does a transfer use what was asked for; do files hold what the replies say; how do sessions disturb each other; are line ends right? | at most one connection, which a late `dataSocket = null` throws away; files are right but for two ways in which sessions disturb each other |
| `data_socket_race` | the same | `receiveFromDataSocket`: "-2 if the data socket was not connected, 0 if there was a read error"; `sendViaDataSocket`: "Whether the send completed successfully" | violated: neither returns |
| `task_engine` | two roots with a common child, two workers, two starts, any task failing | order of the tasks, truth of `start`, failures that were passed on, free workers | holds |
| `engine_failure` | the same, one start | `start` raises when a task has failed | violated |
| `engine_hang` | the same, fair threads | "task engine occurs exception, engine will exit." | violated: a notify comes before the wait it is for |
| `builds` | `CleanBuild`: a project that gains a module, one edit; `BuildOutputs`: two flavors, three packages, two edits, two builds | is an edit taken for built (`CleanBuildIsKnown`), does a patch fit the application? | no, yes, with the exceptions `late` and `cut` of the modules |
| `project` | `ChangeScan`: a source, a resource, a jar, and two scripts of which one is the root's; three contents, clock up to 3; `ProjectInfo`: all projects of four modules without a circle, with two dependencies each at most and one module at most in a subdirectory; `BuildScript`: all scripts of seven tokens | is what is not built found, are all modules below a module found, are the blocks read? | yes |
| `incremental` | `IncrementalBuild`: two modules, a resource, a jar, a native library and two sources, two edits, two builds; `SyncClient`: three ports, two transfers, two builds, three troubles; the six of `MCResources`: three names, four edits and three builds for the ids; three directories; two sources, one with annotations, and a generated file; two libraries and four builds; two modules with data binding | is an edit forgotten, is the wrong application patched, a right one refused, a restart for nothing; do ids, copies, directories, R files, processor inputs and classes agree from build to build? | no; yes; with the exceptions of the modules |
| `console` | three messages; three tasks in two builds on six rows; blocks two deep and names of two words | one retry and one footer, messages in order, a clean screen, an end | yes |

Runs that do not check for deadlock are those of systems that stop: in
`service_safety` and `service_liveness` the use of the wifi lock after a null ends the
process; a session ends; an engine, a call and the reading of a
project end; the other runs of Freeline end with their bounds on edits and builds.

`part` multiplies nothing: the state spaces of a suite are disjoint, so each is
explored as it would be alone.

### What the code does otherwise than it says

Four comments, docstrings and messages have a run that shows a counterexample:

1. *Stopping the server during a transfer can end the process*
   (`data_socket_race`). The server thread nulls `dataOutputStream` and
   `dataSocket` between the check and the use in the session thread; no one
   catches the `NullPointerException`.
2. *The engine can return from a build that failed* (`engine_failure`). A task
   that fails sets its status before its exception reaches the engine; the
   success of the last other task may end the engine in between. When the
   exception has been passed on, `start` raises (`PassedFailureIsKept`).
3. *A server that has ended is reported as running* (`is_running`). `isRunning()` looks
   at the reference and not at the thread, which may have ended because no port could
   be bound. Only an `onDestroy` whose join succeeds clears the reference. After a
   join that ran out of time there is no `onDestroy` to come: the button calls
   `stopService`, for which there is no record any more, and never starts a server again.
4. *The engine can wait for ever* (`engine_hang`). `start` queues the tasks before it
   waits, and neither its `wait` nor that of a task asks first whether what it waits for is
   still to come: a notify that is early is lost, and the build hangs, whether its
   tasks have ended or failed.

Others were met while modelling and are part of the modules as exceptions of
the properties or as history variables:

* *Gradle runs beside the task that should precede it.* The comment of
  `gradle_clean_build.py:40` orders the tasks "1. generate file stat / check before clean
  build 2. clean build", but `generate_stat_task` and the parent of the build are both
  roots of the graph; an edit that gradle has read before and the stat records after it is
  taken for built (`late` in `CleanBuild`).
* *A stopped server can end the process.* After a join that ran out of time
  `onDestroy` releases and nulls the wifi lock the server thread still uses
  (`timedOut`, `NullLockNeedsTimeOut`).
* *`onStart` waits for what cannot happen.* Only `onDestroy` nulls
  `serverThread`, on the thread that `onStart` occupies. A second START blocks the
  main thread for ten seconds and gives up.
* *The root can be removed.* `CmdRMD.java:57` refuses the root of the device, "/",
  with "550 Won't RMD the root directory"; what a client calls "/" is the chroot
  directory (`FtpCmd.java:199`), and what `violatesChroot` lets pass is never "/". RMD
  of the client's root deletes all it may (`BeginRmd`).
* *Names are read in two ways.* STOR, DELE, MKD, RNFR, RNTO and RMD resolve a name in
  the working directory or below the chroot directory, RETR and CWD always below the
  storage directory (`InputPathToChrootedFile`, `StoragePath`): after a CWD a file
  stored under a name is not the one RETR finds under it, and CWD does not accept
  what PWD answers.
* `CmdAbstractStore.java:66-86`: STOR has deleted the file before it knows whether
  there is a data connection; a 425 leaves an empty one. An empty directory is
  deleted as well, where one appears after `isDirectory`.
* `CmdRETR.java:106-132`: in ASCII mode failed sends are not noticed; the reply is 226.
* *A session registered after the shutdown survives it*, and so does *a session
  that waits for a passive connection*, or comes to wait for one or to open one with a
  line it had read before: neither socket that `terminateAllSessions` closes is the one
  it waits on. A data connection made while the shutdown runs, and not yet assigned, stays
  open until its transfer ends.
* `android_tools.py:69`: adb's exit code is not looked at. An installation that fails
  without the word "Failure" ends as a success, with the old application on the device
  and caches that describe a new one. It accepts no patch, so the next build is a clean
  one (`CleanBuildIsKnown`).
* `android_tools.py:175`: a changed jar is recorded as built, and no incremental build
  has used it (`unused` in `ChangeScan` and `IncrementalBuild`).
* `utils.py:137`: a build killed while the stat is written leaves it empty. The scan then
  finds nothing in any module, and each incremental build ends in a `KeyError`
  (`gradle_inc_build.py:75`) until a clean build has made the stat anew (`whole` in
  `IncrementalBuild`).
* `dispatcher.py:139`: in debug mode the end of the logger worker is not awaited
  but given 0.1 seconds; messages said last may be lost.
* `gradle_inc_build.py:541`: a class whose source is gone stays in the patch
  directory, against the comment at line 532: the branch that would delete it is
  not reached.
* `gradle_clean_build.py:53`: installation and the emptying of the cache run side by
  side. A build that stops between them leaves a new application whose ticket agrees with
  manifest and ids of an old one (`cut` in `BuildOutputs`).
* `gradle_inc_build.py:615`: a module whose data binding generated nothing new
  removes the marker of changed sources of all modules (`dropped` in
  `IncrementalBuild`).
* `terminal.py:271`: a location inside another one overwrites the one position the
  terminal remembers, so the outer does not return to where it was
  (`InnermostReturns` is stated of the innermost).

### Fairness

Server: weak fairness of the callbacks and, separately, of the refreshes on the
main thread: the looper is a queue, first in first out, so it starves neither. Weak
fairness of each server thread, and of a listener or a session where its step
depends on no peer: `ListenerProgress` (start and register; `accept` on a
closed socket), `SessionProgress` (a line that was read ahead, which is served without
asking the client, and an operation on a socket that was closed).
Nothing is assumed of clients, the network, clicks, or the failure of a bind or
a join.

Freeline: weak fairness of the main thread and of each worker of the engine, whose
tasks call tools that end; of the main thread of a call and of its logger worker.
The operating system schedules threads that are ready, and a command that never
ends is a call that never ends in the code as well. Nothing is assumed of the
developer, the device, or of failures.

## 4. Theorems

TLAPS proves these for any values of the constants that satisfy the modules'
assumptions. One condition goes beyond those, where a theorem states it: `NoCircle` of
`TaskEngine`.

**The server.** `OneServer`: the inductive invariant is `CurrentThread`, whoever
runs is the thread `serverThread` refers to. It survives `onStart`, which starts a
thread only when the field is null, and `onDestroy`, which clears the field only
for a thread that has ended; a join that runs out of time changes neither.

`NullLockTakesTimeOut` and `WifiLockReturned`: the history variable `timedOut` is set by
a join of `onDestroy` that runs out of time, and once it is set both properties are
silent. Until then the invariant `LockInv` says that the reference exists exactly between
creation and release by the running thread (`LockOwned`), that the lock is released before
the reference goes (`LockFreed`), and that `onDestroy` runs alone after its join
(`DestroyRunsAlone`), so that it finds no lock to release.

`ServiceImplementsLifecycle`: every step of `FtpService` is a step of
`ServiceLifecycle` or leaves its variables unchanged. What is proved of the
lifecycle is thus proved of the service (`OneServerInService`, half of
`TypeCorrect`).

`SessionsAreKnown`: `SessionInv` follows a session from `accept` to the list. The
listener holds it exactly while it starts and registers it (`HandOver`), and a
session that lives is held or listed (`SessionsKnown`); the clean-up in
`registerSessionThread` removes only sessions that have ended.
`TerminationIsNearlyComplete` is the consequence for the shutdown: whoever is
not being registered at that moment is closed.

`NothingIsLeftBehind` (property `RetiredLeavesNothing`): at any time one instance at most
owns the main thread, the queue of callbacks, the record of the activity manager and
`serverThread` (`OneOwner`). It is `Started`, with nothing but its own CREATE and STARTs
queued; or `Stopping`, with its DESTROY behind them, last; or `Destroying`, with an empty
queue. A stop is asked for only while there is a server thread, so the DESTROY never
precedes the start it is to undo, and the early return of `onDestroy` is not taken. What
an instance holds it holds as the owner (`ReceiversOwned`, `SocketOwned`; `CurrentThread`
for the thread, `WakeLockInLoop` for the CPU lock), and `OwnerStep` says that only the
last step of `onDestroy` ends ownership. When its join ran out of time, `serverThread`
refers to its thread for ever, and the button, which asks `isRunning()`, starts no other
instance. A socket cannot be opened after `onDestroy` has closed it because by then nobody
runs who could bind one; after such a join somebody may, and what it leaves is bounded by
where its thread is: the listener it made is told to quit before it ends
(`ListenerQuits`), and an instance whose start is still queued has no thread yet
(`FreshStarts`).

`FactoryKeepsPromise`, `OnePort`: only the factory's methods change its variables
(`FactorySteps`), so its invariants (`FactoryInv`, `Consistent`: a server socket
means PASV was asked for last, an address means PORT) and the refinement are
proved of the methods alone.

`NoCrashAlone` follows from `Alone`: until termination begins the only connection open is
the one `dataSocket` refers to, or the one in `got` that is about to be assigned, and at
every use of a field the check before it still holds. `TerminationIsEffective` follows
from `Terminating`: a connection that had been assigned when termination began, and was
open, stays the one `dataSocket` refers to until it is closed, because the session thread must
close it before it can make another; so the server thread, which looks at
`dataSocket` last, finds it. Where the fields are null in the meantime the process
has ended, which the theorem does not exclude.

`LosesFew` (property `LosesAtMostOne`): a lost connection is open and no longer
the one `dataSocket` refers to (`Parted`). `Losing` says that the session thread
parts nothing: where it overwrites `dataSocket`, the field is null or its
connection closed. The server thread overwrites it once, in its last step, and
parts the one connection it refers to. `TransfersAreClosed` (property
`CommandClosesData`) follows from it: between two commands `dataSocket` is null, so what
is open is what was lost.

`StoresAndRemovals` (property `SessionsStayApart`): a file that a STOR makes is
numbered by the STOR, and a STOR that has not opened its file yet has a number no file
bears (`Named`). What lies under a name that a STOR has found free came there since, and
is in `raced` (`FoundFree`); so it is when the STOR opens it, which is the only way to a
second writer. The proof found `raced` itself to be wrong at first: it did not say of a
renamed *directory* that it takes a file to such a name, which needs four commands and
was out of the run's bounds. For the removals, `Apart` says that a command that was never
disturbed overlaps with no other that changes something; what is taken away at or below
one target is then not at or below the other (`OthersKeepTheirs`), and the directory an
RMD is about to list is still there (`Listing`).

`FilesHoldWhatWasSent` (property `FilesAreAsSent`): the property itself is far from
inductive, for while a command is at work it is silent about the paths around it. The
invariant `ContentInv` says what holds meanwhile. `Held` is the property for single
paths: of a path that no command *affects* (RMD affects what is below its target, others
only the target) what is promised is there. `Reached` says of a command that is alone
what its next steps rely on: STOR, APPE and DELE that have changed nothing find what was
promised (`Untouched`); a STOR that has found its name free, or made it so, can make the
file (`Freed`), for otherwise its refusal would have lost one; a STOR that receives is the
only one to write its file, which holds the bytes received, an APPE's file has those bytes
behind the old ones (`Receiving`); a RETR has read a beginning of the file (`Sending`). The
file of a transfer may be renamed meanwhile. It then changes under a name that the command
knows nothing of, so nothing may be promised there (`Astray`), and a file that a STOR is
yet to make must be empty and open nowhere (`Numbered`). `IsTree` says that every file has
one name and what is above it is a directory. Most steps keep all of this for one reason,
which is stated once: they touch one path that their command affects, and reply what is
true of it (`Quiet`, `QuietKeeps`). Opening a file, MKD and RNTO, which give a name to
something, have proofs of their own. For all this the constants that stand for "no file"
and "not known" must not be texts, which `CommandsAssumption` says.

`TextsAreFaithful` (property `AsciiIsFaithful`): what is sent does not depend on how the
text was cut into buffers. `AsciiInv` relates what is sent to the text as a whole: the CR
that RETR remembers is the last byte of the text, whatever the last buffer is
(`CRBefore`), and the counts and the text without CRs agree (`SentWell`). A read adds one
byte to the text, and to what is sent that byte, or a CR and an LF.

**The engine.** `EngineImplementsGraph` (property `DependencyOrder`): the invariant
`OrderInv` says that a worker past `ChecksParents` found all parents of its task
ended, and that no task is taken twice. `StartIsTrue` follows from `EndInv`, which
ties what wakes the main thread to the tasks that have ended or failed; its
exception, a worker of an earlier start that comes late, is in the property.
`FailureIsCarried` (property `PassedFailureIsKept`): a worker that passes its
exception on forgets no task of its start that has not ended (`PassesOn`). When it
leaves without being the last, such a task has the exception, and the worker of
that task carries it further (`FailureKept`).
`AnyNumberOfWorkers` (property `NoStarvation`): the parents of a queued task precede it
in the queue or were taken before it (`ParentsAhead`), while tasks are put into the
queue none of the graph is missing (`NoneMissing`), and a task that was taken and has
not ended is in the hands of a worker (`InHands`). It assumes `NoCircle`: no task comes
before its own parents. Then a task is deeper than its parents (`DepthGrows`), so that
sorting by depth puts these first. TLC evaluates the condition for the graph of the run
(`JoinHasNoCircle`).

**The clean build.** `PatchesFit` and `PatchesCompiled`: `IInv` of
`BuildsProofs` follows what the current build has done so far (`Order`).
From its first step the new ticket makes the installed application foreign
(`Tickets`), so nothing can be patched until the build has installed its own
(`SameApk`); by then the outputs (`Outputs`) and the emptied backup directory
(`Emptied`, `Backup`) are of that application, or `cut` says that they are not.

`CleanBuildsAreKnown` (property `CleanBuildIsKnown`): the stat of a module may be no newer
than what the application was compiled from. `Limit` is the bound at every moment: the
sources until gradle reads them, what gradle has read from then on, and the apk once it is
built. The stat that `generate_stat` holds keeps to the sources (`StatIsTaken`); when it
is on the disk gradle has not begun, unless it was early (`StatEnds`), and from there on
it keeps to the limit (`StatIsInTime`) through the file, what `append_stat` reads of it,
and the file again. That `append_stat` cannot raise the stat of a module is what makes it
sound to run it after the compilation. `CleanTickets` says that nothing but this build
gives its ticket, so an application that accepts a patch is the one this build has
compiled, and one that adb did not replace accepts none; `Left` what each task that
returned has left on the disk.

**Before a build.** `WhatIsNotBuiltIsFound` (property `ScanIsExact`): a file the
application lacks must differ from its record in a way the next scan still sees, whatever
the developer does before it (`Differs`). Times only pass (`TimesPass`), so a save makes a
difference that no later save takes away; only an older time does, and what was saved
while a build ran, which the property excepts; so does a jar that was recorded without
having been built, from when it is recorded until a clean build. The md5 the scan compares
with is that of what was built (`Md5IsBuilt`), and a running build holds every file its
scan has found (`BuildHolds`). `QuietFiles` says of a build without a save meanwhile that
its records are those of the disk.

`ModulesAndScriptsAreRead` (property `ProjectIsRead`): `ListsHold` bounds a list from both
sides, by what its module declares and by what is below the module. The items the loop has
passed have brought what they depend on (`Passed`), so at its end the list is closed
(`CompletedClosed`), and what is closed and has what the module declares has everything
below. The lists it was extended by may be anything in between, which is why the order of
the modules does not matter. `SearchHolds` is the same of the search from a description. The
braces: `balanced_braces` counts with a recursive function. That there is such a function,
and that its value at every position is the number of braces opened and not closed
(`DepthCounts`), needs an induction over the script. It is done by looking at the least
position where the claim would fail (`LeastNat`), since the library's induction theorems
cannot be instantiated.

**The tickets.** `PatchesTheRightOne` and `RefusesWithCause`: `Counts` and `InStep`
of `PatchProofs` relate four numbers. The local ticket is at least the number
of patches the client believes in (`LocalCount`), the application's is at most the
number it has (`DeviceCount`), and between the two writes of a transfer one is the
other or its successor (`Writing`). Equal tickets then mean equal patches, unless
one of the three troubles has happened that the numbers cannot tell. Until a
kill, a lost answer or an installation the two tickets go in step, through the
rollback after a failure too.

`PatchForgetsNothing` (property `NothingIsForgotten`): `IncInv` says of every changed item
where it is. What the stat takes for built is the same in every cache and in the
application (`RecordedIsEverywhere`); a changed resource, source or library is in the
caches its tasks have filled, and its marker is there until the application has it
(`ResComes`, `SrcComes`, `SoComes`); a job that is waiting is sent (`JobIsSent`); markers
go only when everything has been transferred (`MarkersGo`). The order of the tasks has the
stat recorded last, along the line `MainLine` of tasks that each wait for the one before
(`Order`). The file reads as empty while the stat is being written (`whole`), and if the
build is killed then, only builds without a stat can follow, which change nothing. The
modules may depend on each other in any way without a circle (`NoCircle`, which the
assumption of `IncrementalBuild` states as: every non-empty set of modules has one that
depends on no other of the set).

**What goes into a patch.** `ResourcesProofs` has an invariant per component.

`ResourceIdsStayTrue` (property `IdsStayTrue`): the keeper is never behind the pack. It holds
the pack's ids, or they are in the `R.java` it will be made from (`IdsInv`), also when a
build fails between writing the two; so an id that code holds keeps its resource.

`EveryPackIsCurrent` (property `PacksAreCurrent`) has two parts. With data binding
(`BindingInv`) a copy that is behind its file belongs to a file that counts as changed and
is waiting to be processed (`FileInv`), under one of its two names on the list of changed
files; the copies are where the clean build made them (`CopiesMade`), and the lists of the
modules lose nothing that is not packed (`ListsKept`). For the order of the directories
(`OverlayInv`) a lemma about sequences does the work: which directory is the first to
define a resource does not depend on the order of two groups when one of them does not
define it (`FirstJoined`).

`CompiledCodeIsCurrent` (property `CodeIsCurrent`) has three. Classes (`PatchInv`): one that
is not younger than its recorded time is one retrolambda has written (`Lowered`), what a
build compiles is of the sources as they are (`IsCompiled`), whichever of its two runs of
javac has written it last, and what it does not compile is what the dex has
(`SourceBuilt`); of the generated files that is so as long as no build has failed
(`GeneratedBuilt`). R files (`LibRInv`): a library compiled in
this build was given the copies there are now. Annotations (`AptInv`): the cache is what
its maker collected, and the processor is given what exists of it.
`LaterBuildsKeepWhatWasBuilt` (property `LaterBuildsAgree`, of steps) follows from the same
invariants.

**The call.** `EveryCallIsAnswered` (property `CallIsAnswered`): `OneRetry` says that the
clean build which answers a failed build contains no command that raises what is
answered, and raises none of it itself; so `handlers` has one entry at most. `Progress`
ties the footer to the stop event and to what was raised, `WorkerRuns` the worker to
both, `Kept` the backup queue to what has been logged. The messages printed, taken and
queued are at any time the numbers of those logged, in their order.

`TheScreenIsClean` (property `ScreenIsClean`) and `TheCursorIsFound` (property
`CursorIsFound`) rest on an invariant for the log and one for the terminal. `LogInv` holds
for any height, any tasks and any number of messages, as long as none of the two troubles
has happened in which the threads meet: it says where the cursor and the saved row are at
every step of either thread (`Places`), that the rows counted are enough for what is about
to be drawn (`Fits`), what each row shows (`Shows`), and that the last drawing is the last
one (`LastDrawing`). That the terminal has room for a line per task, the messages and the
footer is the assumption `ProgressAssumption`; a log that is taller scrolls the saved row
away. `TtyInv` says that each change of the terminal has an open block that will undo it
(`Undone`), that the device remembers the position of a location as long as no other was
opened in it (`Remembered`), and that text is shown as the names of its block say. A
compound name like `bold_red_on_bright_green` is split into words, which are put together
to names again, and these are looked up: joining and splitting are inverse (`SplitsBack`),
and the codes of the parts make the device show what the parts mean (`ShownAsMeant`),
provided that no color or style is named like another one or like the prefixes `on` and
`bright` (`TerminalAssumption`). Both are inductions over the sequence of parts, done by
the least position where the claim would fail (`LeastNat`).

The type invariants are proved along the way.

Only model-checked: everything under fairness (liveness is out of the prover's
reach). Every other property of the runs is stated by a theorem.

## 5. Plan

Done: the server's lifecycle, listener, registry, data connections and file commands;
Freeline from the command line to the application on the device. Left, in this order:

1. `Session`: dispatch, login, transfer mode, QUIT with pipelined lines; composed
   with the factory and `FileCommands`.
2. The listings over `FileSystem`.
3. `ProxyDataSocketFactory` against `DataSocketFactory`, and `Proxy`.
4. `Storage` and `UiClients`.

## 6. Not modelled

*Outside both programs, and taken for what the code that uses them relies on*
(external in the map): Android's activity manager, looper and locks; sockets;
gradle, whose outputs are there for each variant it ever built; aapt, which takes
the first directory that defines a resource, writes the ids it has given back
into the file of `-P`, and refuses public names that are undefined or in conflict;
the data binding tool, javac, retrolambda, dx, adb; the Freeline server in the
application, of which `pushDex` replaces the dex sent before; the terminal, which
remembers one cursor position. The resource directories of a project are taken
not to be beginnings of each other, as a comment in `process_databinding` asks
for. `GradleGenerateProjectInfoTask` and `GenerateAptFilesStatTask`, which follow
each other without anything in between that reads what they write, are one step.

*The server*: the notification, texts and colours; logging; settings and
constants; the end of the activity (the main screen is taken to stay alive); the
process being killed by the system, after which everything starts from `Init`;
code that is commented out (`WifiStateReceiver`); files that cannot be read although
they exist, the notification of the media store, and SIZE, which only reads. Planned
(section 5) are command dispatch and login, the listings, the proxy (switched off in
this build: `acceptNet` is false), storage volumes and the list of handlers of
`UiUpdater`. Their hazards are: lines read ahead that are dispatched
after QUIT; a PORT socket taken for a PASV one
(`swiftp/ProxyDataSocketFactory.java:132`); a connector that clears its successor
(`swiftp/ProxyConnector.java:187`).

*Freeline*: `backup_res_files` and its helpers, whose calls are commented out;
`init.py`, which no flag reaches; the lookup of tools and directories in
`builder.py`; `version.py` and `hackwindows.py`; the lookups of maven archives,
which nothing calls; the methods of abstract base classes that Gradle's classes
override; the numbers of the terminal's colors and the size of its window; what
command lines contain besides the files and directories the properties are about.
