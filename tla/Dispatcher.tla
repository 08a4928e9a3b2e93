----------------------------- MODULE Dispatcher -----------------------------
(***************************************************************************)
(* One call of Freeline's command line: the main thread chooses a command, *)
(* executes the commands it is made of, answers what they raise - by one   *)
(* more clean build or by a footer - and ends.  A daemon thread prints     *)
(* what is logged; it dies with the main thread.                           *)
(*                                                                         *)
(* A message is its number.  In debug mode the worker prints the messages  *)
(* of a queue; otherwise it redraws the progress (module ProgressLog).     *)
(***************************************************************************)
EXTENDS Naturals, Sequences

CONSTANTS
  MaxMessages, \* bound on the messages logged
  IsWindows    \* the platform, where the progress cannot be drawn

\* What the constants may be.
DispatcherAssumption == MaxMessages \in Nat /\ IsWindows \in BOOLEAN

VARIABLES
  args,      \* the command line flags that are given
  main,      \* program counter of the main thread
  todo,      \* commands still to be executed
  raised,    \* what the running command has raised, or "nothing"
  handlers,  \* the is_exception of each _exec_command waiting in its handler
  debuggable,\* Logger.debuggable
  stop,      \* the stop event
  worker,    \* program counter of the logger worker
  queue,     \* Logger.debug_messages_queue
  backup,    \* Logger.temp_backup_queue
  taken,     \* the message the worker has taken and not yet printed
  printed,   \* history: the messages printed
  said,      \* history: number of the last message logged
  errorLog,  \* history: the messages of the error log written last
  footers    \* history: the footers printed, by the kind of end

log == <<queue, backup, said>>
thread == <<worker, taken, printed>>
vars == <<args, main, todo, raised, handlers, debuggable, stop, log, thread, errorLog, footers>>

Flags == {"version", "cleanBuild", "clean", "debug"}
CleanBuild == <<"check_build_environment", "find_dependencies_of_tasks", "generate_build_tasks",
                "update_apk_created_time", "execute_clean_build">>
IncrementalBuild == <<"check_build_environment", "generate_build_tasks", "execute_incremental_build">>

\* What leaves execute() of a command.  Only the scan and the tasks of the
\* incremental build raise what is answered by a clean build.
Retried == {"CheckSyncState", "NoInstallation", "FileMissed"}
Raises(c) ==
  {"KeyboardInterrupt", "other"} \cup
  CASE c = "scan" -> {"FileMissed"}
    [] c = "execute_incremental_build" -> {"CheckSyncState", "NoInstallation", "Freeline"}
    [] c = "execute_clean_build" -> {"Freeline"}
    [] OTHER -> {}

TypeOK ==
  /\ args \subseteq Flags
  /\ main \in {"calls", "executes", "resets", "stops", "waits", "prints", "returns", "ended", "exited"}
  /\ \A i \in DOMAIN todo : todo[i] \in {"scan", "clean_all_cache"} \cup {CleanBuild[j] : j \in 1..5}
                                          \cup {"execute_incremental_build"}
  /\ raised \in {"nothing", "KeyboardInterrupt", "other", "Freeline"} \cup Retried
  /\ handlers \in Seq(BOOLEAN)
  /\ debuggable \in BOOLEAN /\ stop \in BOOLEAN
  /\ worker \in {"new", "tests", "gets", "prints", "updates", "flushes", "flushPrints", "ended", "dead"}
  /\ queue \in Seq(1..MaxMessages) /\ backup \in Seq(1..MaxMessages)
  /\ taken \in Seq(1..MaxMessages) /\ Len(taken) <= 1
  /\ printed \in Seq(1..MaxMessages) /\ said \in 0..MaxMessages
  /\ errorLog \in Seq(1..MaxMessages)
  /\ \A i \in DOMAIN footers : footers[i] \in {"done", "KeyboardInterrupt", "other", "Freeline"}

Init ==
  /\ args \in SUBSET Flags
  /\ main = "calls" /\ todo = <<>> /\ raised = "nothing" /\ handlers = <<>>
  /\ debuggable = FALSE /\ stop = FALSE
  /\ worker = "new" /\ taken = <<>> /\ printed = <<>>
  /\ queue = <<>> /\ backup = <<>> /\ said = 0
  /\ errorLog = <<>> /\ footers = <<>>

\* Logger.debug, by the main thread or a task it waits for.
Say ==
  /\ said < MaxMessages
  /\ said' = said + 1
  /\ queue' = Append(queue, said + 1)
  /\ backup' = Append(backup, said + 1)

-----------------------------------------------------------------------------
\* The flags are asked in this order; -v alone prints the version and leaves,
\* with -f it only keeps the worker from being started.
Commands ==
  CASE "cleanBuild" \in args -> CleanBuild
    [] "clean" \in args -> <<"clean_all_cache">>
    [] OTHER -> <<"scan">>

CallCommand ==
  /\ main = "calls"
  /\ debuggable' = (IsWindows \/ "debug" \in args)
  /\ worker' = IF "version" \in args THEN worker ELSE "tests"
  /\ IF "version" \in args /\ "cleanBuild" \notin args
       THEN main' = "ended" /\ UNCHANGED todo
       ELSE main' = "executes" /\ todo' = Commands
  /\ UNCHANGED <<args, raised, handlers, stop, log, taken, printed, errorLog, footers>>

\* read_freeline_config leaves the process when the project was never described;
\* neither the worker nor a command has been started.
NoConfig ==
  /\ main = "calls"
  /\ main' = "exited"
  /\ UNCHANGED <<args, todo, raised, handlers, debuggable, stop, log, thread, errorLog, footers>>

\* A command logs while it runs.
Log ==
  /\ main = "executes" /\ todo # <<>> /\ raised = "nothing"
  /\ Say
  /\ UNCHANGED <<args, main, todo, raised, handlers, debuggable, stop, thread, errorLog, footers>>

\* What a MacroCommand has left after command c; the scan is followed by the build
\* that the changes it has found call for.
Remaining(c) == IF c = "scan" THEN {CleanBuild, IncrementalBuild} ELSE {Tail(todo)}

\* A command of the list has done what its builder does for it.
Execute ==
  /\ main = "executes" /\ todo # <<>> /\ raised = "nothing"
  /\ todo' \in Remaining(Head(todo))
  /\ UNCHANGED <<args, main, raised, handlers, debuggable, stop, log, thread, errorLog, footers>>

ExecuteRaises ==
  /\ main = "executes" /\ todo # <<>> /\ raised = "nothing"
  /\ raised' \in Raises(Head(todo))
  /\ UNCHANGED <<args, main, todo, handlers, debuggable, stop, log, thread, errorLog, footers>>

\* write_error_log takes the messages out of the backup queue.
WriteErrorLog == errorLog' = backup /\ backup' = <<>>

\* The exception handlers of _exec_command, and its end without one.
ExecEnds ==
  /\ main = "executes" /\ (todo = <<>> \/ raised # "nothing")
  /\ main' = IF raised \in Retried THEN "resets" ELSE "stops"
  /\ handlers' = IF raised \in Retried THEN Append(handlers, TRUE) ELSE handlers
  /\ IF raised = "other" THEN WriteErrorLog ELSE UNCHANGED <<errorLog, backup>>
  /\ UNCHANGED <<args, todo, raised, debuggable, stop, queue, said, thread, footers>>

\* _retry_clean_build, which logs and executes a clean build inside the handler.
\* Fault: the build that failed is tried again.
RetrySame ==
  /\ main = "resets"
  /\ (Say \/ (said = MaxMessages /\ UNCHANGED log))
  /\ todo' = <<"scan">> /\ raised' = "nothing" /\ main' = "executes"
  /\ UNCHANGED <<args, handlers, debuggable, stop, thread, errorLog, footers>>

RetryCleanBuild ==
  /\ main = "resets"
  /\ (Say \/ (said = MaxMessages /\ UNCHANGED log))
  /\ todo' = CleanBuild /\ raised' = "nothing" /\ main' = "executes"
  /\ UNCHANGED <<args, handlers, debuggable, stop, thread, errorLog, footers>>

\* _flush_footer: stop the worker, wait for it, print.
SetStop ==
  /\ main = "stops"
  /\ stop' = TRUE /\ main' = "waits"
  /\ UNCHANGED <<args, todo, raised, handlers, debuggable, log, thread, errorLog, footers>>

\* In debug mode a sleep of 0.1 seconds stands for the wait: the worker may be
\* at any point when it is over.
\* Fault: the worker is joined in debug mode too.
JoinAlways ==
  /\ main = "waits"
  /\ "version" \in args \/ worker = "ended"
  /\ main' = "prints"
  /\ UNCHANGED <<args, todo, raised, handlers, debuggable, stop, log, thread, errorLog, footers>>

Join ==
  /\ main = "waits"
  /\ debuggable \/ "version" \in args \/ worker = "ended"
  /\ main' = "prints"
  /\ UNCHANGED <<args, todo, raised, handlers, debuggable, stop, log, thread, errorLog, footers>>

PrintFooter ==
  /\ main = "prints"
  /\ footers' = Append(footers, IF raised = "nothing" THEN "done" ELSE raised)
  /\ main' = "returns"
  /\ UNCHANGED <<args, todo, raised, handlers, debuggable, stop, log, thread, errorLog>>

\* A call of _exec_command returns into the handler of the one outside it,
\* which ends with a footer of its own unless is_exception is set; the last
\* return ends the process and with it the daemon thread.
Return ==
  /\ main = "returns"
  /\ IF handlers = <<>>
       THEN /\ main' = "ended"
            /\ worker' = IF worker = "ended" THEN worker ELSE "dead"
            /\ UNCHANGED handlers
       ELSE /\ main' = IF handlers[Len(handlers)] THEN "returns" ELSE "stops"
            /\ handlers' = SubSeq(handlers, 1, Len(handlers) - 1)
            /\ UNCHANGED worker
  /\ UNCHANGED <<args, todo, raised, debuggable, stop, log, taken, printed, errorLog, footers>>

-----------------------------------------------------------------------------
\* LoggerWorker.run.  A get() on the empty queue blocks.
Worker(from, to) ==
  /\ worker = from /\ worker' = to
  /\ UNCHANGED <<args, main, todo, raised, handlers, debuggable, stop, backup, said, errorLog, footers>>

TestStop ==
  /\ Worker("tests", IF stop THEN (IF debuggable THEN "flushes" ELSE "ended")
                      ELSE IF debuggable THEN "gets" ELSE "updates")
  /\ UNCHANGED <<queue, taken, printed>>

Get ==
  /\ queue # <<>>
  /\ Worker("gets", "prints")
  /\ taken' = <<Head(queue)>> /\ queue' = Tail(queue)
  /\ UNCHANGED printed

PrintMessage ==
  /\ Worker("prints", "tests")
  /\ printed' = printed \o taken
  /\ taken' = <<>>
  /\ UNCHANGED queue

Update ==
  /\ Worker("updates", "tests")
  /\ UNCHANGED <<queue, taken, printed>>

\* flush_debug_messages: empty() and get() in turn.
Flush ==
  \/ /\ queue # <<>>
     /\ Worker("flushes", "flushPrints")
     /\ taken' = <<Head(queue)>> /\ queue' = Tail(queue)
     /\ UNCHANGED printed
  \/ /\ queue = <<>>
     /\ Worker("flushes", "ended")
     /\ UNCHANGED <<queue, taken, printed>>
  \/ /\ Worker("flushPrints", "flushes")
     /\ printed' = printed \o taken /\ taken' = <<>>
     /\ UNCHANGED queue

MainStep ==
  \/ CallCommand \/ NoConfig \/ Execute \/ ExecEnds \/ RetryCleanBuild
  \/ SetStop \/ Join \/ PrintFooter \/ Return
WorkerStep == TestStop \/ Get \/ PrintMessage \/ Update \/ Flush

Next == MainStep \/ Log \/ ExecuteRaises \/ WorkerStep

Spec == Init /\ [][Next]_vars

-----------------------------------------------------------------------------
\* dispatcher.py:97-107 - a failed check of the application, or a missing
\* cache, costs one clean build and no more: nothing the clean build raises is
\* answered by another one, whatever the build it replaces has raised.
RetriesOnce ==
  /\ Len(handlers) <= 1
  /\ handlers # <<>> => raised \notin Retried \/ main = "resets"

\* dispatcher.py:126, 137-145 - through the nested calls of _exec_command one
\* footer is printed, for the build that was last, and only when the worker
\* has been told to stop: what is drawn after it would be written over it.
OneFooterAtTheEnd ==
  /\ Len(footers) <= 1
  /\ footers # <<>> => stop /\ footers[1] = (IF raised = "nothing" THEN "done" ELSE raised)
  /\ main = "ended" => footers # <<>> \/ "version" \in args
  /\ (footers # <<>> /\ ~debuggable) => worker \in {"new", "ended", "dead"}

\* logger.py:31-42, 121-125 - the messages reach the terminal in the order in
\* which they were logged and none twice; one is missing only behind all the
\* printed ones, with the thread killed or never started.
Numbers(n) == [i \in 1..n |-> i]
PrintedInOrder == printed \o taken \o queue = Numbers(said)

\* logger.py:42 - the worker does not end by itself in debug mode before
\* everything that was logged has been printed.
WorkerLeavesNothing == (worker = "ended" /\ debuggable) => printed = Numbers(said)

\* logger.py:128-148 - the error log of a build holds every message of the call,
\* those of a build that was tried before and those printed already included.
ErrorLogIsWhole == (main \in {"stops", "waits", "prints"} /\ raised = "other") => errorLog = Numbers(said)

=============================================================================
