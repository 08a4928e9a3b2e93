----------------------------- MODULE TaskEngine -----------------------------
(***************************************************************************)
(* Freeline's task engine: the main thread hands a graph of tasks to a     *)
(* pool of workers through one queue and waits for the last of them.  A    *)
(* worker waits inside its task until the parents have ended.  When a      *)
(* start raises, the dispatcher starts the engine again with new tasks     *)
(* while workers of the first start may still be on their way out.         *)
(*                                                                         *)
(* Reads of Python lists and fields are atomic; what a thread does between *)
(* two accesses to shared state is one step.                               *)
(***************************************************************************)
EXTENDS Naturals, Sequences, FiniteSets

CONSTANTS
  Names,       \* the tasks of one graph
  NameParents, \* NameParents[n]: the parents of n in the graph
  Workers,     \* the threads of the pool (six in the code)
  MaxStarts,   \* bound on the starts of the engine
  None

Starts == 1..MaxStarts
Tasks == Starts \X Names
Parents == [t \in Tasks |-> {<<t[1], n>> : n \in NameParents[t[2]]}]
Children(t) == {c \in Tasks : t \in Parents[c]}

ASSUME EngineAssumption ==
  /\ MaxStarts \in Nat \ {0}
  /\ IsFiniteSet(Names)
  /\ NameParents \in [Names -> SUBSET Names]
  /\ None \notin Tasks

VARIABLES
  status,      \* task.status
  interrupted, \* tasks whose interrupted_exception is set
  start,       \* number of the current start
  main,        \* program counter of the main thread
  roots,       \* engine.root_tasks is filled
  tasksDict,   \* the values of engine.tasks_dict
  toAdd,       \* sorted_tasks still to be put into the pool's queue
  raising,     \* engine._interrupt_exception is set
  queue,       \* the queue of the pool
  pc,          \* program counter of each worker
  task,        \* the task each worker executes
  todo,        \* tasks a worker still has to notify
  late         \* history: a worker of an earlier start has touched a later one

engine == <<roots, tasksDict, toAdd, raising>>
workers == <<pc, task, todo>>
vars == <<status, interrupted, start, main, engine, queue, workers, late>>

TypeOK ==
  /\ status \in [Tasks -> {"READY", "WAITING", "WORKING", "SUCCESS", "FAILURE"}]
  /\ interrupted \subseteq Tasks
  /\ start \in Starts
  /\ main \in {"adds", "prepares", "queues", "waits", "asleep", "woken", "returned", "raised"}
  /\ roots \in BOOLEAN
  /\ tasksDict \subseteq Tasks
  /\ toAdd \subseteq Tasks
  /\ raising \in BOOLEAN
  /\ queue \in Seq(Tasks)
  /\ pc \in [Workers -> {"idle", "checks", "waits", "asleep", "begins", "runs", "executes", "ended", "passes",
                         "notifies", "lastAfterFailure", "last", "interrupts", "finishes", "wakesMain"}]
  /\ task \in [Workers -> Tasks \cup {None}]
  /\ todo \in [Workers -> SUBSET Tasks]
  /\ late \in BOOLEAN

Init ==
  /\ status = [t \in Tasks |-> "READY"]
  /\ interrupted = {}
  /\ start = 1
  /\ main = "adds"
  /\ roots = FALSE /\ tasksDict = {} /\ toAdd = {} /\ raising = FALSE
  /\ queue = <<>>
  /\ pc = [w \in Workers |-> "idle"]
  /\ task = [w \in Workers |-> None]
  /\ todo = [w \in Workers |-> {}]
  /\ late = FALSE

Ended(t) == status[t] \in {"SUCCESS", "FAILURE"}
\* Fault: the loop over the parents returns at the first one.
first_parent_finished(t) == Parents[t] = {} \/ Ended(CHOOSE p \in Parents[t] : TRUE)
is_all_parent_finished(t) == \A p \in Parents[t] : Ended(p)
\* Fault: only a task that is being executed counts as unfinished.
no_task_works == \A t \in tasksDict : status[t] # "WORKING"

is_all_tasks_finished == \A t \in tasksDict : Ended(t)
get_running_tasks == {t \in tasksDict : ~Ended(t)}

\* The names visited on the way up from a task, its own included.
Ancestors(n) ==
  {a \in Names : \A S \in SUBSET Names : n \in S /\ (\A b \in S : NameParents[b] \subseteq S) => a \in S}
calculate_task_depth(t) == Cardinality(Ancestors(t[2]))

\* No task comes before its own parents.
NoCircle == \A n \in Names : \A p \in NameParents[n] : n \notin Ancestors(p)

-----------------------------------------------------------------------------
(* The main thread *)

\* add_root_task
AddRoots ==
  /\ main = "adds"
  /\ roots' = TRUE
  /\ main' = "prepares"
  /\ UNCHANGED <<status, interrupted, start, tasksDict, toAdd, raising, queue, workers, late>>

\* start() forgets the last exception; _prepare collects what the roots reach.
Prepare ==
  /\ main = "prepares"
  /\ raising' = FALSE
  /\ tasksDict' = IF roots THEN {t \in Tasks : t[1] = start} ELSE {}
  /\ toAdd' = tasksDict'
  /\ main' = "queues"
  /\ UNCHANGED <<status, interrupted, start, roots, queue, workers, late>>

\* Fault: the tasks are put into the queue as they come.
PutTaskUnsorted ==
  /\ main = "queues"
  /\ \/ /\ toAdd = {}
        /\ main' = "waits"
        /\ UNCHANGED <<toAdd, queue>>
     \/ \E t \in toAdd :
          /\ toAdd' = toAdd \ {t}
          /\ queue' = Append(queue, t)
          /\ main' = main
  /\ UNCHANGED <<status, interrupted, start, roots, tasksDict, raising, workers, late>>

\* _prepare puts the tasks into the queue of the pool, the least deep first.
PutTask ==
  /\ main = "queues"
  /\ \/ /\ toAdd = {}
        /\ main' = "waits"
        /\ UNCHANGED <<toAdd, queue>>
     \/ \E t \in toAdd :
          /\ \A u \in toAdd : calculate_task_depth(t) <= calculate_task_depth(u)
          /\ toAdd' = toAdd \ {t}
          /\ queue' = Append(queue, t)
          /\ main' = main
  /\ UNCHANGED <<status, interrupted, start, roots, tasksDict, raising, workers, late>>

\* TaskEngine.wait()
MainWaits ==
  /\ main = "waits"
  /\ main' = "asleep"
  /\ UNCHANGED <<status, interrupted, start, engine, queue, workers, late>>

\* start() goes on: it raises the exception a worker has left, or returns.
MainGoesOn ==
  /\ main = "woken"
  /\ main' = IF raising THEN "raised" ELSE "returned"
  /\ UNCHANGED <<status, interrupted, start, engine, queue, workers, late>>

\* The dispatcher answers some exceptions with a clean build on the same engine.
StartAgain ==
  /\ main = "raised"
  /\ start < MaxStarts
  /\ start' = start + 1
  /\ main' = "adds"
  /\ UNCHANGED <<status, interrupted, engine, queue, workers, late>>

Main == AddRoots \/ Prepare \/ PutTask \/ MainWaits \/ MainGoesOn \/ StartAgain

-----------------------------------------------------------------------------
(* The workers *)

\* The worker takes a task from the queue and starts ExecutableTask.execute().
TakeTask(w) ==
  /\ pc[w] = "idle"
  /\ queue # <<>>
  /\ task' = [task EXCEPT ![w] = Head(queue)]
  /\ queue' = Tail(queue)
  /\ status' = [status EXCEPT ![Head(queue)] = "WAITING"]
  /\ pc' = [pc EXCEPT ![w] = "checks"]
  /\ UNCHANGED <<interrupted, start, main, engine, todo, late>>

ChecksParents(w) ==
  /\ pc[w] = "checks"
  /\ pc' = [pc EXCEPT ![w] = IF is_all_parent_finished(task[w]) THEN "begins" ELSE "waits"]
  /\ UNCHANGED <<status, interrupted, start, main, engine, queue, task, todo, late>>

\* Task.wait(): takes the lock of the condition and waits, without asking again.
Waits(w) ==
  /\ pc[w] = "waits"
  /\ pc' = [pc EXCEPT ![w] = "asleep"]
  /\ UNCHANGED <<status, interrupted, start, main, engine, queue, task, todo, late>>

Begins(w) ==
  /\ pc[w] = "begins"
  /\ status' = [status EXCEPT ![task[w]] = "WORKING"]
  /\ pc' = [pc EXCEPT ![w] = "runs"]
  /\ UNCHANGED <<interrupted, start, main, engine, queue, task, todo, late>>

\* The exception of another task keeps this one from being executed.
Runs(w) ==
  /\ pc[w] = "runs"
  /\ IF task[w] \in interrupted
     THEN /\ status' = [status EXCEPT ![task[w]] = "FAILURE"]
          /\ pc' = [pc EXCEPT ![w] = "ended"]
     ELSE /\ pc' = [pc EXCEPT ![w] = "executes"]
          /\ UNCHANGED status
  /\ UNCHANGED <<interrupted, start, main, engine, queue, task, todo, late>>

\* task.execute() returns, or raises: then the exception becomes the task's own.
\* The exception of another task may have come meanwhile.
RunEnds(w) ==
  /\ pc[w] = "executes"
  /\ \/ /\ status' = [status EXCEPT ![task[w]] = "SUCCESS"]
        /\ UNCHANGED interrupted
     \/ /\ status' = [status EXCEPT ![task[w]] = "FAILURE"]
        /\ interrupted' = interrupted \cup {task[w]}
  /\ pc' = [pc EXCEPT ![w] = "ended"]
  /\ UNCHANGED <<start, main, engine, queue, task, todo, late>>

\* After the run: with an exception it goes to all running tasks, else the
\* children are notified.
AfterRun(w) ==
  /\ pc[w] = "ended"
  /\ IF task[w] \in interrupted
     THEN /\ pc' = [pc EXCEPT ![w] = "passes"]
          /\ todo' = [todo EXCEPT ![w] = get_running_tasks]
     ELSE /\ pc' = [pc EXCEPT ![w] = "notifies"]
          /\ todo' = [todo EXCEPT ![w] = Children(task[w])]
  /\ UNCHANGED <<status, interrupted, start, main, engine, queue, task, late>>

\* notify() on the condition of task t: it wakes the worker that waits there, if it
\* does; a worker that has asked and does not wait yet learns nothing.
Notified(t) == pc' = [v \in Workers |-> IF task[v] = t /\ pc[v] = "asleep" THEN "checks" ELSE pc[v]]

\* _pass_interrupted_exception, one running task.
PassException(w) ==
  /\ pc[w] = "passes"
  /\ \E t \in todo[w] :
       /\ interrupted' = interrupted \cup {t}
       /\ Notified(t)
       /\ todo' = [todo EXCEPT ![w] = @ \ {t}]
       /\ late' = (late \/ t[1] # task[w][1])
  /\ UNCHANGED <<status, start, main, engine, queue, task>>

NotifyChild(w) ==
  /\ pc[w] = "notifies"
  /\ \E t \in todo[w] :
       /\ Notified(t)
       /\ todo' = [todo EXCEPT ![w] = @ \ {t}]
  /\ UNCHANGED <<status, interrupted, start, main, engine, queue, task, late>>

\* Fault: an interrupted task ends the engine like any other.
ChecksLastForgets(w) ==
  /\ pc[w] \in {"passes", "notifies"}
  /\ todo[w] = {}
  /\ pc' = [pc EXCEPT ![w] = IF is_all_tasks_finished THEN "finishes" ELSE "idle"]
  /\ task' = IF is_all_tasks_finished THEN task ELSE [task EXCEPT ![w] = None]
  /\ UNCHANGED <<status, interrupted, start, main, engine, queue, todo, late>>

\* The worker has notified all and asks whether its task was the last one.
ChecksLast(w) ==
  /\ pc[w] \in {"passes", "notifies"}
  /\ todo[w] = {}
  /\ pc' = [pc EXCEPT ![w] = IF is_all_tasks_finished
                             THEN IF pc[w] = "passes" THEN "interrupts" ELSE "finishes"
                             ELSE "idle"]
  /\ task' = IF is_all_tasks_finished THEN task ELSE [task EXCEPT ![w] = None]
  /\ UNCHANGED <<status, interrupted, start, main, engine, queue, todo, late>>

\* engine.interrupt()
Interrupts(w) ==
  /\ pc[w] = "interrupts"
  /\ raising' = TRUE
  /\ late' = (late \/ task[w][1] # start)
  /\ pc' = [pc EXCEPT ![w] = "finishes"]
  /\ UNCHANGED <<status, interrupted, start, main, roots, tasksDict, toAdd, queue, task, todo>>

\* engine.finish(): _init_attr() forgets the graph.  A late finish may hit the
\* preparation of the next start.
Finishes(w) ==
  /\ pc[w] = "finishes"
  /\ roots' = FALSE
  /\ tasksDict' = {}
  /\ late' = (late \/ task[w][1] # start)
  /\ pc' = [pc EXCEPT ![w] = "wakesMain"]
  /\ UNCHANGED <<status, interrupted, start, main, toAdd, raising, queue, task, todo>>

\* engine.notify(), and the worker is done with the task.
WakesMain(w) ==
  /\ pc[w] = "wakesMain"
  /\ main' = IF main = "asleep" THEN "woken" ELSE main
  /\ late' = (late \/ task[w][1] # start)
  /\ pc' = [pc EXCEPT ![w] = "idle"]
  /\ task' = [task EXCEPT ![w] = None]
  /\ UNCHANGED <<status, interrupted, start, engine, queue, todo>>

Worker(w) ==
  \/ TakeTask(w) \/ ChecksParents(w) \/ Waits(w) \/ Begins(w)
  \/ Runs(w) \/ RunEnds(w) \/ AfterRun(w)
  \/ PassException(w) \/ NotifyChild(w) \/ ChecksLast(w)
  \/ Interrupts(w) \/ Finishes(w) \/ WakesMain(w)

Next == Main \/ \E w \in Workers : Worker(w)

\* Threads are scheduled, and the external commands of a task end.
Fairness == WF_vars(Main) /\ \A w \in Workers : WF_vars(Worker(w))

Spec == Init /\ [][Next]_vars
FairSpec == Spec /\ Fairness

-----------------------------------------------------------------------------
(* Properties *)

Graph == INSTANCE TaskGraph

\* The pool implements the graph: a task is executed once, and only after all
\* its parents have ended (the loop around Task.wait in ExecutableTask.execute).
DependencyOrder == Graph!Spec

\* A task that waits in a worker never waits for one that is still in the queue:
\* sorting by depth makes any number of workers enough (_prepare).
NoStarvation ==
  \A w \in Workers : pc[w] \in {"checks", "waits", "asleep"} =>
    \A p \in Parents[task[w]] : Ended(p) \/ \E v \in Workers : task[v] = p

\* start() goes on only when every task of its graph has ended, unless a worker
\* of an earlier start came late with its finish() (TaskEngine.finish).
EndsAfterAllTasks ==
  main \in {"woken", "returned", "raised"} /\ ~late => \A n \in Names : Ended(<<start, n>>)

\* start() raises only what a task of this start has raised.
RaisesOnlyAfterFailure ==
  main = "raised" /\ ~late => \E n \in Names : status[<<start, n>>] = "FAILURE"

\* Both together: what the main thread learns of a start is true of it.
StartTellsTheTruth == EndsAfterAllTasks /\ RaisesOnlyAfterFailure

\* When the main thread is woken without an exception although a task has
\* failed, some worker is just on its way to leave one: a failure is lost only to
\* a last task that ends at the same time (_pass_interrupted_exception).
PassedFailureIsKept ==
  main = "woken" /\ ~raising /\ ~late /\ (\E n \in Names : status[<<start, n>>] = "FAILURE") =>
    \E w \in Workers : /\ pc[w] \in {"ended", "passes", "interrupts"}
                       /\ task[w][1] = start /\ task[w] \in interrupted

\* A failed task makes start() raise: "task engine occurs exception, engine will
\* exit" (TaskEngine.interrupt).
FailureIsReported ==
  main = "returned" => \A n \in Names : status[<<start, n>>] # "FAILURE"

\* The engine that a worker has interrupted exits: start() comes to its end, "task
\* engine occurs exception, engine will exit" (TaskEngine.interrupt).
InterruptedEngineExits == raising ~> main \in {"returned", "raised"}
=============================================================================
