-------------------------- MODULE TaskEngineProofs --------------------------
(***************************************************************************)
(* Theorems about TaskEngine, for any graph, any number of workers and any *)
(* number of starts: the pool implements the task graph, start() goes on   *)
(* only after all tasks and raises only after a failure; a failure is      *)
(* carried on until all have left, and no worker waits for a queued task.  *)
(***************************************************************************)
EXTENDS TaskEngine, FiniteSetTheorems, SequenceTheorems, TLAPS

\* Tasks of a start that has not handed them to the pool yet are untouched.
Unused(t) == t[1] > start \/ (t[1] = start /\ main \in {"adds", "prepares"})

Queued(t) == \E i \in 1..Len(queue) : queue[i] = t

Untouched ==
  \A t \in Tasks : Unused(t) => status[t] = "READY" /\ ~Queued(t)

\* What is to be put into the queue is new to it.
StillToAdd ==
  /\ toAdd # {} => main = "queues"
  /\ \A t \in toAdd : t[1] = start /\ status[t] = "READY" /\ ~Queued(t)

\* The queue holds a task once, and nobody has taken it before.
QueueIsNew ==
  /\ \A i \in 1..Len(queue) : status[queue[i]] = "READY"
  /\ \A i, j \in 1..Len(queue) : queue[i] = queue[j] => i = j

\* A worker that is not idle has a task of its own ...
OwnTask ==
  /\ \A w \in Workers : pc[w] # "idle" => task[w] \in Tasks
  /\ \A v, w \in Workers : pc[v] # "idle" /\ pc[w] # "idle" /\ task[v] = task[w] => v = w

\* ... whose status says how far the worker is.
Progress ==
  \A w \in Workers :
    /\ pc[w] \in {"checks", "waits", "asleep", "begins"} => status[task[w]] = "WAITING"
    /\ pc[w] \in {"runs", "executes"} => status[task[w]] = "WORKING"
    /\ pc[w] \notin {"idle", "checks", "waits", "asleep", "begins", "runs", "executes"} =>
         status[task[w]] \in {"SUCCESS", "FAILURE"}

\* A worker begins only when the parents are done, and they stay so.
ParentsFirst ==
  \A w \in Workers : pc[w] = "begins" => is_all_parent_finished(task[w])

IdleIsFree == \A w \in Workers : pc[w] = "idle" => task[w] = None

OrderInv ==
  TypeOK /\ Untouched /\ StillToAdd /\ QueueIsNew /\ OwnTask /\ IdleIsFree /\ Progress /\ ParentsFirst

\* Every task of the current start has ended, one has failed.
AllEnded == \A n \in Names : Ended(<<start, n>>)
SomeFailed(s) == \E n \in Names : status[<<s, n>>] = "FAILURE"
HandedOver == main \notin {"adds", "prepares"}

\* While no worker of an earlier start has come late, the engine holds the graph
\* of the current start, and is left with it complete.
GraphIsKept ==
  ~late =>
    /\ main = "prepares" => roots
    /\ HandedOver => tasksDict = {t \in Tasks : t[1] = start} \/ AllEnded

LastOneEnds ==
  \A w \in Workers :
    ~late /\ pc[w] \in {"interrupts", "finishes", "wakesMain"} /\ task[w][1] = start => AllEnded

\* An exception that travels comes from a task of the same start that has failed.
FailureTravels ==
  /\ ~late => \A t \in interrupted : SomeFailed(t[1])
  /\ \A w \in Workers : pc[w] \in {"passes", "interrupts"} => task[w] \in interrupted
  /\ ~late /\ raising /\ HandedOver => SomeFailed(start)

EndInv == GraphIsKept /\ LastOneEnds /\ EndsAfterAllTasks /\ FailureTravels /\ RaisesOnlyAfterFailure

-----------------------------------------------------------------------------
(* The graph, the queue and the types *)

LEMMA TaskOf == ASSUME NEW t \in Tasks PROVE t[1] \in Starts /\ t[2] \in Names /\ t = <<t[1], t[2]>>
BY DEF Tasks

LEMMA OfStart == ASSUME NEW s \in Starts, NEW n \in Names
                 PROVE  <<s, n>> \in Tasks /\ <<s, n>>[1] = s
BY DEF Tasks

LEMMA ParentsAreTasks == ASSUME NEW t \in Tasks PROVE Parents[t] \subseteq Tasks
<1>1. NameParents[t[2]] \subseteq Names
  BY EngineAssumption, TaskOf
<1>2. Parents[t] = {<<t[1], n>> : n \in NameParents[t[2]]}
  BY DEF Parents
<1> QED BY <1>1, <1>2, TaskOf, OfStart

LEMMA NoneIsNoTask == None \notin Tasks
BY EngineAssumption

LEMMA HeadAndTail ==
  ASSUME queue \in Seq(Tasks), queue # <<>>
  PROVE  /\ Head(queue) = queue[1] /\ 1 \in 1..Len(queue) /\ Head(queue) \in Tasks
         /\ Tail(queue) \in Seq(Tasks) /\ Len(Tail(queue)) = Len(queue) - 1
         /\ \A i \in 1..Len(Tail(queue)) : Tail(queue)[i] = queue[i + 1] /\ i + 1 \in 1..Len(queue)
BY HeadTailProperties, EmptySeq

LEMMA Appended ==
  ASSUME queue \in Seq(Tasks), NEW t \in Tasks
  PROVE  /\ Append(queue, t) \in Seq(Tasks)
         /\ Len(Append(queue, t)) = Len(queue) + 1
         /\ \A i \in 1..Len(queue) : Append(queue, t)[i] = queue[i]
         /\ Append(queue, t)[Len(queue) + 1] = t
BY AppendProperties

LEMMA FirstStart == 1 \in Starts
BY EngineAssumption DEF Starts

LEMMA TypeInit == Init => TypeOK
<1> SUFFICES ASSUME Init PROVE TypeOK
  OBVIOUS
<1>1. queue \in Seq(Tasks)
  BY EmptySeq DEF Init
<1> QED BY <1>1, FirstStart DEF Init, TypeOK

LEMMA TypeStep == ASSUME TypeOK, OwnTask, [Next]_vars PROVE TypeOK'
<1> USE DEF TypeOK, OwnTask
<1>1. CASE AddRoots BY <1>1 DEF AddRoots, workers
<1>2. CASE Prepare BY <1>2 DEF Prepare, workers
<1>3. CASE PutTask
  <2>1. UNCHANGED <<status, interrupted, start, roots, tasksDict, raising, pc, task, todo, late>>
    BY <1>3 DEF PutTask, workers
  <2>2. CASE main' = "waits" /\ UNCHANGED <<toAdd, queue>> BY <2>1, <2>2
  <2>3. ASSUME NEW t \in toAdd, toAdd' = toAdd \ {t}, queue' = Append(queue, t), main' = main PROVE TypeOK'
    <3>1. queue' \in Seq(Tasks)
      BY <2>3, Appended
    <3> QED BY <2>1, <2>3, <3>1
  <2> QED BY <1>3, <2>2, <2>3 DEF PutTask
<1>4. CASE MainWaits BY <1>4 DEF MainWaits, engine, workers
<1>5. CASE MainGoesOn BY <1>5 DEF MainGoesOn, engine, workers
<1>6. CASE StartAgain BY <1>6, EngineAssumption DEF StartAgain, engine, workers, Starts
<1>7. ASSUME NEW w \in Workers, Worker(w) PROVE TypeOK'
  <2>1. CASE TakeTask(w) BY <2>1, HeadAndTail DEF TakeTask, engine
  <2>2. CASE ChecksParents(w) BY <2>2 DEF ChecksParents, engine
  <2>3. CASE Waits(w) BY <2>3 DEF Waits, engine
  <2>4. CASE Begins(w) BY <2>4 DEF Begins, engine
  <2>5. CASE Runs(w) BY <2>5 DEF Runs, engine
  <2>6. CASE RunEnds(w) BY <2>6 DEF RunEnds, engine
  <2>7. CASE AfterRun(w)
    <3>1. get_running_tasks \subseteq Tasks /\ Children(task[w]) \subseteq Tasks
      BY DEF get_running_tasks, Children
    <3> QED BY <2>7, <3>1 DEF AfterRun, engine
  <2>8. CASE PassException(w) BY <2>8 DEF PassException, Notified, engine
  <2>9. CASE NotifyChild(w) BY <2>9 DEF NotifyChild, Notified, engine
  <2>10. CASE ChecksLast(w) BY <2>10 DEF ChecksLast, engine
  <2>11. CASE Interrupts(w) BY <2>11 DEF Interrupts
  <2>12. CASE Finishes(w) BY <2>12 DEF Finishes
  <2>13. CASE WakesMain(w) BY <2>13 DEF WakesMain, engine
  <2> QED BY <1>7, <2>1, <2>2, <2>3, <2>4, <2>5, <2>6, <2>7, <2>8, <2>9, <2>10, <2>11, <2>12, <2>13 DEF Worker
<1>8. CASE UNCHANGED vars BY <1>8 DEF vars, engine, workers
<1> QED BY <1>1, <1>2, <1>3, <1>4, <1>5, <1>6, <1>7, <1>8 DEF Next, Main

-----------------------------------------------------------------------------
(* The invariant of the order *)

LEMMA OrderInit == Init => OrderInv
<1> SUFFICES ASSUME Init PROVE OrderInv
  OBVIOUS
<1>1. Len(queue) = 0
  BY EmptySeq DEF Init
<1>2. Untouched /\ StillToAdd /\ QueueIsNew
  BY <1>1 DEF Init, Untouched, StillToAdd, QueueIsNew, Queued
<1>3. OwnTask /\ IdleIsFree /\ Progress /\ ParentsFirst
  BY DEF Init, OwnTask, IdleIsFree, Progress, ParentsFirst
<1> QED BY <1>2, <1>3, TypeInit DEF OrderInv

\* A step of the main thread leaves the workers alone.
LEMMA MainOrderStep == ASSUME OrderInv, TypeOK', Main PROVE OrderInv'
<1> USE DEF OrderInv
<1>1. UNCHANGED <<status, workers>>
  BY DEF Main, AddRoots, Prepare, PutTask, MainWaits, MainGoesOn, StartAgain
<1>2. OwnTask' /\ IdleIsFree' /\ Progress' /\ ParentsFirst'
  BY <1>1 DEF OwnTask, IdleIsFree, Progress, ParentsFirst, workers, is_all_parent_finished, Ended
<1>3. ASSUME UNCHANGED <<queue, toAdd>>, Untouched', toAdd # {} => main' = "queues" /\ start' = start
      PROVE  OrderInv'
  <2>1. StillToAdd' /\ QueueIsNew'
    BY <1>1, <1>3 DEF StillToAdd, QueueIsNew, Queued
  <2> QED BY <1>2, <1>3, <2>1
<1>4. CASE AddRoots
  <2>1. Untouched'
    BY <1>1, <1>4 DEF AddRoots, Untouched, Unused, Queued
  <2> QED BY <1>3, <1>4, <2>1 DEF AddRoots, StillToAdd
<1>5. CASE Prepare
  <2>1. Untouched'
    BY <1>1, <1>5 DEF Prepare, Untouched, Unused, Queued
  <2>2. QueueIsNew'
    BY <1>1, <1>5 DEF Prepare, QueueIsNew
  <2>3. \A t \in toAdd' : t \in Tasks /\ t[1] = start
    BY <1>5 DEF Prepare
  <2>4. StillToAdd'
    BY <1>1, <1>5, <2>3 DEF Prepare, StillToAdd, Untouched, Unused, Queued
  <2> QED BY <1>2, <2>1, <2>2, <2>4
<1>6. CASE PutTask
  <2>1. CASE toAdd = {} /\ UNCHANGED <<toAdd, queue>> /\ main' = "waits"
    <3>1. Untouched'
      BY <1>1, <1>6, <2>1 DEF PutTask, Untouched, Unused, Queued
    <3> QED BY <1>3, <2>1, <3>1
  <2>2. ASSUME NEW t \in toAdd, toAdd' = toAdd \ {t}, queue' = Append(queue, t), main' = main
        PROVE  OrderInv'
    <3>1. t \in Tasks /\ main = "queues" /\ start' = start /\ t[1] = start /\ start \in Nat
      BY <1>6, <2>2 DEF PutTask, StillToAdd, TypeOK, Starts
    <3>2. /\ Len(queue') = Len(queue) + 1 /\ Len(queue) \in Nat
          /\ \A i \in 1..Len(queue) : queue'[i] = queue[i]
          /\ queue'[Len(queue) + 1] = t
      BY <2>2, <3>1, Appended DEF TypeOK
    <3>3. \A i \in 1..Len(queue') : i \in 1..Len(queue) \/ i = Len(queue) + 1
      BY <3>2
    <3>4. \A u : Queued(u)' => Queued(u) \/ u = t
      BY <3>2, <3>3 DEF Queued
    <3>5. status[t] = "READY" /\ ~Queued(t)
      BY <2>2 DEF StillToAdd
    <3>6. Untouched'
      BY <1>1, <2>2, <3>1, <3>4 DEF Untouched, Unused
    <3>7. StillToAdd'
      BY <1>1, <2>2, <3>1, <3>4 DEF StillToAdd
    <3>8. QueueIsNew'
      BY <1>1, <3>2, <3>3, <3>5 DEF QueueIsNew, Queued
    <3> QED BY <1>2, <3>6, <3>7, <3>8
  <2> QED BY <1>6, <2>1, <2>2 DEF PutTask
<1>7. CASE MainWaits
  <2>1. Untouched'
    BY <1>1, <1>7 DEF MainWaits, Untouched, Unused, Queued
  <2> QED BY <1>3, <1>7, <2>1 DEF MainWaits, StillToAdd, engine
<1>8. CASE MainGoesOn
  <2>1. Untouched'
    BY <1>1, <1>8 DEF MainGoesOn, Untouched, Unused, Queued
  <2> QED BY <1>3, <1>8, <2>1 DEF MainGoesOn, StillToAdd, engine
<1>9. CASE StartAgain
  <2>1. start \in Nat /\ \A t \in Tasks : t[1] \in Nat
    BY TaskOf DEF TypeOK, Starts
  <2>2. Untouched'
    BY <1>1, <1>9, <2>1 DEF StartAgain, Untouched, Unused, Queued
  <2> QED BY <1>3, <1>9, <2>2 DEF StartAgain, StillToAdd, engine
<1> QED BY <1>4, <1>5, <1>6, <1>7, <1>8, <1>9 DEF Main

\* The task at the head of the queue has not been taken by anyone.
LEMMA TakeTaskStep == ASSUME OrderInv, TypeOK', NEW w \in Workers, TakeTask(w) PROVE OrderInv'
<1> USE DEF OrderInv
<1> DEFINE t == Head(queue)
<1>1. /\ t = queue[1] /\ 1 \in 1..Len(queue) /\ t \in Tasks
      /\ Len(queue') = Len(queue) - 1 /\ Len(queue) \in Nat
      /\ \A i \in 1..Len(queue') : queue'[i] = queue[i + 1] /\ i + 1 \in 1..Len(queue)
  BY HeadAndTail DEF TakeTask, TypeOK
<1>2. /\ pc[w] = "idle" /\ pc' = [pc EXCEPT ![w] = "checks"] /\ task' = [task EXCEPT ![w] = t]
      /\ status' = [status EXCEPT ![t] = "WAITING"]
      /\ UNCHANGED <<start, main, toAdd>>
  BY DEF TakeTask, engine
<1>3. status[t] = "READY" /\ Queued(t)
  BY <1>1 DEF QueueIsNew, Queued
<1>4. \A u : Queued(u)' => Queued(u) /\ u # t
  BY <1>1 DEF Queued, QueueIsNew
<1> HIDE DEF t
<1>5. \A u \in Tasks : u # t => status'[u] = status[u]
  BY <1>1, <1>2 DEF TypeOK
<1>6. Untouched' /\ StillToAdd'
  BY <1>2, <1>3, <1>4, <1>5 DEF Untouched, Unused, StillToAdd, TypeOK
<1>7. QueueIsNew'
  <2>1. \A i \in 1..Len(queue') : queue'[i] \in Tasks /\ queue'[i] # t /\ status'[queue'[i]] = "READY"
    <3>1. ASSUME NEW i \in 1..Len(queue')
          PROVE  queue[i + 1] \in Tasks /\ queue[i + 1] # t /\ status[queue[i + 1]] = "READY"
      BY <1>1 DEF QueueIsNew, TypeOK
    <3> QED BY <1>1, <1>5, <3>1
  <2>2. \A i, j \in 1..Len(queue') : queue'[i] = queue'[j] => i = j
    BY <1>1 DEF QueueIsNew
  <2> QED BY <2>1, <2>2 DEF QueueIsNew
<1>8. \A v \in Workers : pc[v] # "idle" => task[v] \in Tasks /\ task[v] # t
  BY <1>3 DEF OwnTask, Progress, TypeOK
<1>9. OwnTask' /\ IdleIsFree'
  BY <1>1, <1>2, <1>8 DEF OwnTask, IdleIsFree, TypeOK
<1>10. Progress'
  <2>1. ASSUME NEW v \in Workers, v # w, pc[v] # "idle"
        PROVE  pc'[v] = pc[v] /\ task'[v] = task[v] /\ status'[task'[v]] = status[task[v]]
    BY <1>2, <1>5, <1>8, <2>1 DEF TypeOK
  <2>2. pc'[w] = "checks" /\ status'[task'[w]] = "WAITING"
    BY <1>1, <1>2 DEF TypeOK
  <2>3. ASSUME NEW v \in Workers, v # w PROVE pc'[v] = pc[v]
    BY <1>2, <2>3 DEF TypeOK
  <2> QED BY <2>1, <2>2, <2>3 DEF Progress
<1>11. ParentsFirst'
  <2>1. ASSUME NEW p \in Tasks, Ended(p) PROVE Ended(p)'
    BY <1>3, <1>5, <2>1 DEF Ended
  <2>2. ASSUME NEW v \in Workers, pc'[v] = "begins" PROVE pc[v] = "begins" /\ task'[v] = task[v] /\ task[v] \in Tasks
    BY <1>2, <2>2 DEF TypeOK, OwnTask
  <2> QED BY <2>1, <2>2, ParentsAreTasks DEF ParentsFirst, is_all_parent_finished
<1> QED BY <1>6, <1>7, <1>9, <1>10, <1>11

\* Any other step of a worker leaves the queue alone and touches no new task.
LEMMA QueueStays ==
  ASSUME OrderInv, UNCHANGED <<queue, start, toAdd>>,
         main' = main \/ (main = "asleep" /\ main' = "woken"),
         \A t \in Tasks : status[t] = "READY" => status'[t] = "READY"
  PROVE  Untouched' /\ StillToAdd' /\ QueueIsNew'
<1> USE DEF OrderInv
<1>1. Untouched' /\ StillToAdd'
  BY DEF Untouched, Unused, StillToAdd, Queued, TypeOK
<1>2. \A i \in 1..Len(queue) : queue[i] \in Tasks
  BY DEF TypeOK
<1> QED BY <1>1, <1>2 DEF QueueIsNew

\* A worker that changes the status of its own task disturbs no other.
LEMMA OwnStatus ==
  ASSUME OrderInv, NEW w \in Workers, pc[w] # "idle",
         NEW s \in {"WORKING", "SUCCESS", "FAILURE"}, NEW c \in {"runs", "ended"}, c = "runs" <=> s = "WORKING",
         status' = [status EXCEPT ![task[w]] = s],
         UNCHANGED <<task, queue, start, toAdd, main>>, pc' = [pc EXCEPT ![w] = c],
         status[task[w]] \notin {"READY", "SUCCESS", "FAILURE"},
         TypeOK'
  PROVE  OrderInv'
<1> USE DEF OrderInv
<1>1. task[w] \in Tasks
  BY DEF OwnTask
<1>2. \A t \in Tasks : t # task[w] => status'[t] = status[t]
  BY DEF TypeOK
<1>3. Untouched' /\ StillToAdd' /\ QueueIsNew'
  BY <1>2, QueueStays
<1>4. \A v \in Workers : v # w => pc'[v] = pc[v]
  BY DEF TypeOK
<1>5. pc'[w] = c /\ status'[task[w]] = s
  BY <1>1 DEF TypeOK
<1>6. OwnTask' /\ IdleIsFree'
  BY <1>4, <1>5 DEF OwnTask, IdleIsFree
<1>7. Progress'
  <2>1. ASSUME NEW v \in Workers, v # w, pc[v] # "idle" PROVE status'[task[v]] = status[task[v]]
    BY <1>2, <2>1 DEF OwnTask
  <2> QED BY <1>4, <1>5, <2>1 DEF Progress
<1>8. ParentsFirst'
  <2>1. \A p \in Tasks : Ended(p) => Ended(p)'
    BY <1>2 DEF Ended
  <2>2. \A v \in Workers : pc'[v] = "begins" => pc[v] = "begins" /\ task[v] \in Tasks
    BY <1>4, <1>5 DEF OwnTask
  <2> QED BY <2>1, <2>2, ParentsAreTasks DEF ParentsFirst, is_all_parent_finished
<1> QED BY <1>3, <1>6, <1>7, <1>8

\* Where the statuses stay, a worker may move, sleep, wake others or let its task go.
LEMMA WorkerMoves ==
  ASSUME OrderInv, TypeOK', UNCHANGED <<status, queue, start, toAdd>>,
         main' = main \/ (main = "asleep" /\ main' = "woken"),
         \A v \in Workers :
           \/ task'[v] = task[v] /\ pc'[v] = pc[v]
           \/ task'[v] = task[v] /\ pc[v] \in {"checks", "waits", "asleep"} /\ pc'[v] \in {"checks", "waits", "asleep"}
           \/ task'[v] = task[v] /\ pc[v] = "checks" /\ pc'[v] = "begins" /\ is_all_parent_finished(task[v])
           \/ task'[v] = task[v] /\ pc[v] = "runs" /\ pc'[v] = "executes"
           \/ task'[v] = task[v] /\ pc[v] \in {"ended", "passes", "notifies", "interrupts", "finishes"}
                                 /\ pc'[v] \in {"passes", "notifies", "interrupts", "finishes", "wakesMain"}
           \/ task'[v] = None /\ pc[v] # "idle" /\ pc'[v] = "idle"
  PROVE  OrderInv'
<1> USE DEF OrderInv
<1>1. Untouched' /\ StillToAdd' /\ QueueIsNew'
  BY QueueStays
<1>2. \A v \in Workers : pc'[v] # "idle" => pc[v] # "idle" /\ task'[v] = task[v]
  OBVIOUS
<1>3. OwnTask'
  BY <1>2 DEF OwnTask
<1>4. IdleIsFree'
  BY DEF IdleIsFree
<1>5. Progress'
  BY DEF Progress
<1>6. ParentsFirst'
  BY DEF ParentsFirst, is_all_parent_finished, Ended
<1> QED BY <1>1, <1>3, <1>4, <1>5, <1>6

LEMMA WorkerOrderStep == ASSUME OrderInv, TypeOK', NEW w \in Workers, Worker(w) PROVE OrderInv'
<1>0. TypeOK
  BY DEF OrderInv
<1> USE DEF TypeOK
<1>1. CASE TakeTask(w)
  BY <1>1, TakeTaskStep
<1>2. CASE ChecksParents(w)
  BY <1>0, <1>2, WorkerMoves DEF ChecksParents, engine
<1>3. CASE Waits(w)
  BY <1>0, <1>3, WorkerMoves DEF Waits, engine
<1>4. CASE Begins(w)
  <2>1. status[task[w]] = "WAITING"
    BY <1>4 DEF Begins, OrderInv, Progress
  <2>2. /\ pc[w] # "idle" /\ status' = [status EXCEPT ![task[w]] = "WORKING"] /\ pc' = [pc EXCEPT ![w] = "runs"]
        /\ UNCHANGED <<task, queue, start, toAdd, main>>
    BY <1>4 DEF Begins, engine
  <2>3. TypeOK'
    OBVIOUS
  <2> HIDE DEF TypeOK
  <2> QED BY <2>1, <2>2, <2>3, OwnStatus
<1>5. CASE Runs(w)
  <2>1. status[task[w]] = "WORKING"
    BY <1>5 DEF Runs, OrderInv, Progress
  <2>2. CASE task[w] \in interrupted
    BY <1>5, <2>1, <2>2, OwnStatus DEF Runs, engine
  <2>3. CASE task[w] \notin interrupted
    BY <1>0, <1>5, <2>3, WorkerMoves DEF Runs, engine
  <2> QED BY <2>2, <2>3
<1>6. CASE RunEnds(w)
  <2>1. status[task[w]] = "WORKING"
    BY <1>6 DEF RunEnds, OrderInv, Progress
  <2> QED BY <1>6, <2>1, OwnStatus DEF RunEnds, engine
<1>7. CASE AfterRun(w)
  BY <1>0, <1>7, WorkerMoves DEF AfterRun, engine
<1>8. CASE PassException(w)
  <2>1. UNCHANGED <<status, queue, start, toAdd, main, task>>
    BY <1>8 DEF PassException, engine
  <2>2. PICK t \in Tasks : Notified(t)
    BY <1>0, <1>8 DEF PassException
  <2> QED BY <1>0, <2>1, <2>2, WorkerMoves DEF Notified
<1>9. CASE NotifyChild(w)
  <2>1. UNCHANGED <<status, queue, start, toAdd, main, task>>
    BY <1>9 DEF NotifyChild, engine
  <2>2. PICK t \in Tasks : Notified(t)
    BY <1>0, <1>9 DEF NotifyChild
  <2> QED BY <1>0, <2>1, <2>2, WorkerMoves DEF Notified
<1>10. CASE ChecksLast(w)
  <2>1. CASE is_all_tasks_finished
    BY <1>0, <1>10, <2>1, WorkerMoves DEF ChecksLast, engine
  <2>2. CASE ~is_all_tasks_finished
    BY <1>0, <1>10, <2>2, WorkerMoves DEF ChecksLast, engine
  <2> QED BY <2>1, <2>2
<1>11. CASE Interrupts(w)
  BY <1>0, <1>11, WorkerMoves DEF Interrupts
<1>12. CASE Finishes(w)
  BY <1>0, <1>12, WorkerMoves DEF Finishes
<1>13. CASE WakesMain(w)
  BY <1>0, <1>13, WorkerMoves DEF WakesMain, engine
<1> QED BY <1>1, <1>2, <1>3, <1>4, <1>5, <1>6, <1>7, <1>8, <1>9, <1>10, <1>11, <1>12, <1>13 DEF Worker

LEMMA OrderStep == OrderInv /\ [Next]_vars => OrderInv'
<1> SUFFICES ASSUME OrderInv, [Next]_vars PROVE OrderInv'
  OBVIOUS
<1>1. TypeOK'
  BY TypeStep DEF OrderInv
<1>2. CASE Main
  BY <1>1, <1>2, MainOrderStep
<1>3. CASE \E w \in Workers : Worker(w)
  BY <1>1, <1>3, WorkerOrderStep
<1>4. CASE UNCHANGED vars
  BY <1>1, <1>4 DEF vars, engine, workers, OrderInv, Untouched, Unused, Queued, StillToAdd, QueueIsNew, OwnTask,
                    IdleIsFree, Progress, ParentsFirst, is_all_parent_finished, Ended
<1> QED BY <1>2, <1>3, <1>4 DEF Next

LEMMA OrderAlways == Spec => []OrderInv
BY OrderInit, OrderStep, PTL DEF Spec

\* The state of the engine stays well formed, whatever graph is started however often.
THEOREM TypeCorrect == Spec => []TypeOK
<1>1. OrderInv => TypeOK
  BY DEF OrderInv
<1> QED BY <1>1, OrderAlways, PTL

-----------------------------------------------------------------------------
(* The pool implements the graph *)

\* Each step is a step of the graph or leaves the statuses alone.
LEMMA GraphStep == OrderInv /\ [Next]_vars => [Graph!Next]_status
<1> SUFFICES ASSUME OrderInv, [Next]_vars PROVE [Graph!Next]_status
  OBVIOUS
<1> USE DEF Graph!Next, Graph!TakeUp, Graph!Begin, Graph!End, Graph!Ended
<1>1. CASE Main
  BY <1>1 DEF Main, AddRoots, Prepare, PutTask, MainWaits, MainGoesOn, StartAgain
<1>2. ASSUME NEW w \in Workers, Worker(w) PROVE [Graph!Next]_status
  <2>1. CASE TakeTask(w)
    <3>1. Head(queue) \in Tasks /\ status[Head(queue)] = "READY"
      BY <2>1, HeadAndTail DEF TakeTask, OrderInv, TypeOK, QueueIsNew
    <3>2. Graph!TakeUp(Head(queue))
      BY <2>1, <3>1 DEF TakeTask
    <3> QED BY <3>1, <3>2
  <2>2. CASE Begins(w)
    <3>1. /\ task[w] \in Tasks /\ status[task[w]] = "WAITING"
          /\ \A p \in Parents[task[w]] : status[p] \in {"SUCCESS", "FAILURE"}
      BY <2>2 DEF Begins, OrderInv, OwnTask, Progress, ParentsFirst, is_all_parent_finished, Ended
    <3>2. Graph!Begin(task[w])
      BY <2>2, <3>1 DEF Begins
    <3> QED BY <3>1, <3>2
  <2>3. CASE Runs(w)
    <3>1. task[w] \in Tasks /\ status[task[w]] = "WORKING"
      BY <2>3 DEF Runs, OrderInv, OwnTask, Progress
    <3>2. Graph!End(task[w]) \/ UNCHANGED status
      BY <2>3, <3>1 DEF Runs
    <3> QED BY <3>1, <3>2
  <2>4. CASE RunEnds(w)
    <3>1. task[w] \in Tasks /\ status[task[w]] = "WORKING"
      BY <2>4 DEF RunEnds, OrderInv, OwnTask, Progress
    <3>2. Graph!End(task[w])
      BY <2>4, <3>1 DEF RunEnds
    <3> QED BY <3>1, <3>2
  <2>5. CASE ~(TakeTask(w) \/ Begins(w) \/ Runs(w) \/ RunEnds(w))
    BY <1>2, <2>5 DEF Worker, ChecksParents, Waits, AfterRun, PassException, NotifyChild, ChecksLast,
                      Interrupts, Finishes, WakesMain
  <2> QED BY <2>1, <2>2, <2>3, <2>4, <2>5
<1>3. CASE UNCHANGED vars
  BY <1>3 DEF vars
<1> QED BY <1>1, <1>2, <1>3 DEF Next

\* For any graph, any number of workers and of starts: a task works once, and
\* only after its parents have ended (ExecutableTask.execute).
THEOREM EngineImplementsGraph == Spec => DependencyOrder
<1>1. Init => Graph!Init
  BY DEF Init, Graph!Init
<1> QED BY <1>1, OrderAlways, GraphStep, PTL DEF Spec, DependencyOrder, Graph!Spec

-----------------------------------------------------------------------------
(* How a start ends *)

\* A task that has ended stays as it is.
LEMMA EndedStays ==
  ASSUME OrderInv, [Next]_vars
  PROVE  \A t \in Tasks : Ended(t) => status'[t] = status[t] /\ Ended(t)'
<1>1. [Graph!Next]_status
  BY GraphStep
<1>2. status \in [Tasks -> {"READY", "WAITING", "WORKING", "SUCCESS", "FAILURE"}]
  BY DEF OrderInv, TypeOK
<1> QED BY <1>1, <1>2 DEF Graph!Next, Graph!TakeUp, Graph!Begin, Graph!End, Ended

LEMMA EndingsStay ==
  ASSUME OrderInv, [Next]_vars
  PROVE  /\ \A s \in Starts : SomeFailed(s) => SomeFailed(s)'
         /\ start' = start /\ AllEnded => AllEnded'
<1>1. start \in Starts
  BY DEF OrderInv, TypeOK
<1>2. \A s \in Starts, n \in Names : status[<<s, n>>] = "FAILURE" => status'[<<s, n>>] = "FAILURE"
  BY EndedStays, OfStart DEF Ended
<1>3. ASSUME NEW n \in Names, Ended(<<start, n>>) PROVE status'[<<start, n>>] \in {"SUCCESS", "FAILURE"}
  <2>1. <<start, n>> \in Tasks
    BY <1>1, OfStart
  <2> QED BY <1>3, <2>1, EndedStays DEF Ended
<1>4. start' = start /\ AllEnded => AllEnded'
  BY <1>3 DEF AllEnded, Ended
<1> QED BY <1>2, <1>4 DEF SomeFailed

\* The task of a worker is one of a start that has handed its tasks over.
LEMMA TakenIsUsed ==
  ASSUME OrderInv, NEW w \in Workers, pc[w] # "idle"
  PROVE  task[w] \in Tasks /\ task[w][1] \in Starts /\ task[w][1] <= start /\ (task[w][1] = start => HandedOver)
<1>1. task[w] \in Tasks /\ status[task[w]] # "READY"
  BY DEF OrderInv, OwnTask, Progress, TypeOK
<1>2. ~Unused(task[w])
  BY <1>1 DEF OrderInv, Untouched
<1>3. task[w][1] \in Starts /\ start \in Starts
  BY <1>1, TaskOf DEF OrderInv, TypeOK
<1>4. \A a, b \in Starts : ~(a > b) => a <= b
  BY EngineAssumption DEF Starts
<1> QED BY <1>1, <1>2, <1>3, <1>4 DEF Unused, HandedOver

LEMMA EndInit == Init => EndInv
BY DEF Init, EndInv, GraphIsKept, HandedOver, LastOneEnds, EndsAfterAllTasks, FailureTravels, RaisesOnlyAfterFailure

\* Where start, graph, exception and history stay, the invariant depends on the workers only.
LEMMA NothingEnds ==
  ASSUME OrderInv, EndInv, [Next]_vars, UNCHANGED <<start, main, roots, tasksDict, raising, late, interrupted>>,
         \A v \in Workers : pc'[v] \in {"interrupts", "finishes", "wakesMain"} =>
           \/ pc[v] \in {"interrupts", "finishes", "wakesMain"} /\ task'[v] = task[v]
           \/ ~late /\ task'[v][1] = start => AllEnded,
         \A v \in Workers : pc'[v] \in {"passes", "interrupts"} => task'[v] \in interrupted
  PROVE  EndInv'
<1> USE DEF EndInv
<1>1. AllEnded => AllEnded'
  BY EndingsStay
<1>2. start \in Starts /\ \A t \in interrupted : t[1] \in Starts
  BY TaskOf DEF OrderInv, TypeOK
<1>3. \A s \in Starts : SomeFailed(s) => SomeFailed(s)'
  BY EndingsStay
<1>4. GraphIsKept'
  BY <1>1 DEF GraphIsKept, HandedOver
<1>5. LastOneEnds'
  BY <1>1 DEF LastOneEnds
<1>6. EndsAfterAllTasks'
  BY <1>1 DEF EndsAfterAllTasks, AllEnded
<1>7. FailureTravels'
  BY <1>2, <1>3 DEF FailureTravels, HandedOver
<1>8. RaisesOnlyAfterFailure'
  BY <1>2, <1>3 DEF RaisesOnlyAfterFailure, SomeFailed
<1> QED BY <1>4, <1>5, <1>6, <1>7, <1>8

LEMMA MainEndStep == ASSUME OrderInv, EndInv, Main PROVE EndInv'
<1> USE DEF EndInv
<1>0. [Next]_vars
  BY DEF Next
<1>1. UNCHANGED <<pc, task, late, interrupted>>
  BY DEF Main, AddRoots, Prepare, PutTask, MainWaits, MainGoesOn, StartAgain, workers
<1>2. AllEnded /\ start' = start => AllEnded'
  BY <1>0, EndingsStay
<1>3. start \in Starts /\ \A t \in interrupted : t[1] \in Starts
  BY TaskOf DEF OrderInv, TypeOK
<1>4. \A s \in Starts : SomeFailed(s) => SomeFailed(s)'
  BY <1>0, EndingsStay
<1>5. LastOneEnds'
  <2>1. CASE StartAgain
    <3>1. \A w \in Workers : pc[w] # "idle" => task[w][1] # start + 1
      <4>1. \A a \in Starts : a <= start => a # start + 1
        BY EngineAssumption, <1>3 DEF Starts
      <4> QED BY <4>1, TakenIsUsed
    <3>2. start' = start + 1
      BY <2>1 DEF StartAgain
    <3> QED BY <1>1, <3>1, <3>2 DEF LastOneEnds
  <2>2. CASE ~StartAgain
    <3>1. start' = start
      BY <2>2 DEF Main, AddRoots, Prepare, PutTask, MainWaits, MainGoesOn
    <3> QED BY <1>1, <1>2, <3>1 DEF LastOneEnds
  <2> QED BY <2>1, <2>2
<1>6. GraphIsKept' /\ EndsAfterAllTasks' /\ FailureTravels' /\ RaisesOnlyAfterFailure'
  <2> USE DEF GraphIsKept, EndsAfterAllTasks, FailureTravels, RaisesOnlyAfterFailure, HandedOver
  <2>1. CASE AddRoots
    BY <1>1, <1>3, <1>4, <2>1 DEF AddRoots
  <2>2. CASE Prepare
    BY <1>1, <1>3, <1>4, <2>2 DEF Prepare
  <2>3. CASE PutTask
    BY <1>1, <1>2, <1>3, <1>4, <2>3 DEF PutTask
  <2>4. CASE MainWaits
    BY <1>1, <1>2, <1>3, <1>4, <2>4 DEF MainWaits, engine
  <2>5. CASE MainGoesOn
    <3>1. start' = start /\ UNCHANGED <<roots, tasksDict, raising>> /\ main = "woken" /\ main' \in {"raised", "returned"}
          /\ (main' = "raised" => raising)
      BY <2>5 DEF MainGoesOn, engine
    <3>2. ~late => AllEnded /\ AllEnded'
      BY <1>2, <3>1 DEF AllEnded
    <3>3. EndsAfterAllTasks' /\ GraphIsKept'
      BY <1>1, <3>1, <3>2 DEF AllEnded
    <3>4. FailureTravels' /\ RaisesOnlyAfterFailure'
      BY <1>1, <1>3, <1>4, <3>1 DEF SomeFailed
    <3> QED BY <3>3, <3>4
  <2>6. CASE StartAgain
    BY <1>1, <1>3, <1>4, <2>6 DEF StartAgain, engine
  <2> QED BY <2>1, <2>2, <2>3, <2>4, <2>5, <2>6 DEF Main
<1> QED BY <1>5, <1>6

LEMMA WorkerEndStep == ASSUME OrderInv, EndInv, NEW w \in Workers, Worker(w) PROVE EndInv'
<1> USE DEF EndInv
<1>0. [Next]_vars /\ TypeOK
  BY DEF Next, OrderInv, TypeOK
<1>1. AllEnded /\ start' = start => AllEnded'
  BY <1>0, EndingsStay
<1>2. start \in Starts /\ \A t \in interrupted : t \in Tasks /\ t[1] \in Starts
  BY TaskOf DEF OrderInv, TypeOK
<1>3. \A s \in Starts : SomeFailed(s) => SomeFailed(s)'
  BY <1>0, EndingsStay
<1>4. pc[w] # "idle" => task[w] \in Tasks /\ task[w][1] \in Starts /\ (task[w][1] = start => HandedOver)
  BY TakenIsUsed
<1>5. CASE TakeTask(w)
  BY <1>0, <1>5, NothingEnds DEF TakeTask, engine, TypeOK, FailureTravels
<1>6. CASE ChecksParents(w)
  BY <1>0, <1>6, NothingEnds DEF ChecksParents, engine, TypeOK, FailureTravels
<1>7. CASE Waits(w)
  BY <1>0, <1>7, NothingEnds DEF Waits, engine, TypeOK, FailureTravels
<1>8. CASE Begins(w)
  BY <1>0, <1>8, NothingEnds DEF Begins, engine, TypeOK, FailureTravels
<1>9. CASE Runs(w)
  BY <1>0, <1>9, NothingEnds DEF Runs, engine, TypeOK, FailureTravels
<1>10. CASE AfterRun(w)
  BY <1>0, <1>10, NothingEnds DEF AfterRun, engine, TypeOK, FailureTravels
<1>11. CASE NotifyChild(w)
  <2>1. PICK t \in Tasks : Notified(t)
    BY <1>0, <1>11 DEF NotifyChild, TypeOK
  <2> QED BY <1>0, <1>11, <2>1, NothingEnds DEF NotifyChild, Notified, engine, TypeOK, FailureTravels
<1>12. CASE ChecksLast(w)
  <2>1. ~late /\ task[w][1] = start /\ is_all_tasks_finished => AllEnded
    <3>1. ASSUME tasksDict = {t \in Tasks : t[1] = start}, is_all_tasks_finished PROVE AllEnded
      BY <1>2, <3>1, OfStart DEF AllEnded, is_all_tasks_finished
    <3> QED BY <1>4, <1>12, <3>1 DEF ChecksLast, GraphIsKept
  <2>2. UNCHANGED <<start, main, roots, tasksDict, raising, late, interrupted>>
    BY <1>12 DEF ChecksLast, engine
  <2>3. \A v \in Workers : v # w => pc'[v] = pc[v] /\ task'[v] = task[v]
    BY <1>0, <1>12 DEF ChecksLast, TypeOK
  <2>4. pc'[w] \in {"interrupts", "finishes", "idle"}
    BY <1>0, <1>12 DEF ChecksLast, TypeOK
  <2>5. pc'[w] \in {"interrupts", "finishes"} => is_all_tasks_finished /\ task'[w] = task[w]
    BY <1>0, <1>12 DEF ChecksLast, TypeOK
  <2>6. pc'[w] = "interrupts" => pc[w] = "passes"
    BY <1>0, <1>12 DEF ChecksLast, TypeOK
  <2> QED BY <1>0, <2>1, <2>2, <2>3, <2>4, <2>5, <2>6, NothingEnds DEF FailureTravels
<1>13. CASE RunEnds(w)
  <2>1. UNCHANGED <<start, main, roots, tasksDict, raising, late, task>> /\ pc' = [pc EXCEPT ![w] = "ended"]
    BY <1>13 DEF RunEnds, engine
  <2>2. GraphIsKept' /\ LastOneEnds'
    BY <1>0, <1>1, <2>1 DEF GraphIsKept, LastOneEnds, HandedOver, TypeOK
  <2>3. EndsAfterAllTasks' /\ RaisesOnlyAfterFailure'
    BY <1>1, <1>2, <1>3, <2>1 DEF EndsAfterAllTasks, RaisesOnlyAfterFailure, AllEnded, SomeFailed
  <2>4. \A t \in interrupted' : t \in interrupted \/ SomeFailed(t[1])'
    <3>1. interrupted' # interrupted => interrupted' = interrupted \cup {task[w]} /\ status'[task[w]] = "FAILURE"
      BY <1>0, <1>4, <1>13 DEF RunEnds, TypeOK
    <3>2. task[w] = <<task[w][1], task[w][2]>> /\ task[w][2] \in Names
      BY <1>4, <1>13, TaskOf DEF RunEnds
    <3>3. interrupted' # interrupted => SomeFailed(task[w][1])'
      BY <2>1, <3>1, <3>2 DEF SomeFailed
    <3> QED BY <2>1, <3>1, <3>3 DEF SomeFailed
  <2>5. interrupted \subseteq interrupted'
    BY <1>13 DEF RunEnds
  <2>6. FailureTravels'
    BY <1>0, <1>2, <1>3, <2>1, <2>4, <2>5 DEF FailureTravels, HandedOver, TypeOK
  <2> QED BY <2>2, <2>3, <2>6
<1>14. CASE PassException(w)
  <2>1. PICK t \in Tasks : /\ interrupted' = interrupted \cup {t} /\ Notified(t)
                           /\ late' = (late \/ t[1] # task[w][1])
    BY <1>0, <1>14 DEF PassException, TypeOK
  <2>2. UNCHANGED <<start, main, roots, tasksDict, raising, task>> /\ pc[w] = "passes"
    BY <1>14 DEF PassException, engine
  <2>3. late => late'
    BY <2>1
  <2>4. \A v \in Workers : pc'[v] = pc[v] \/ pc'[v] = "checks"
    BY <2>1 DEF Notified
  <2>5. GraphIsKept' /\ LastOneEnds'
    BY <1>1, <2>2, <2>3, <2>4 DEF GraphIsKept, LastOneEnds, HandedOver
  <2>6. EndsAfterAllTasks' /\ RaisesOnlyAfterFailure'
    BY <1>1, <1>2, <1>3, <2>2, <2>3 DEF EndsAfterAllTasks, RaisesOnlyAfterFailure, AllEnded, SomeFailed
  <2>7. ~late' => ~late /\ SomeFailed(t[1])'
    BY <1>3, <1>4, <2>1, <2>2 DEF FailureTravels
  <2>8. FailureTravels'
    BY <1>2, <1>3, <2>1, <2>2, <2>3, <2>4, <2>7 DEF FailureTravels, HandedOver
  <2> QED BY <2>5, <2>6, <2>8
<1>15. CASE Interrupts(w)
  <2>1. /\ UNCHANGED <<start, main, roots, tasksDict, interrupted, task, status>> /\ pc[w] = "interrupts"
        /\ pc' = [pc EXCEPT ![w] = "finishes"] /\ late' = (late \/ task[w][1] # start)
    BY <1>15 DEF Interrupts
  <2>2. ~late' => ~late /\ task[w][1] = start
    BY <2>1
  <2>3. GraphIsKept' /\ LastOneEnds'
    BY <1>0, <1>1, <2>1, <2>2 DEF GraphIsKept, LastOneEnds, HandedOver, TypeOK
  <2>4. EndsAfterAllTasks' /\ RaisesOnlyAfterFailure'
    BY <1>1, <1>2, <1>3, <2>1, <2>2 DEF EndsAfterAllTasks, RaisesOnlyAfterFailure, AllEnded, SomeFailed
  <2>5. ~late' => SomeFailed(start)'
    BY <1>2, <1>3, <2>1, <2>2 DEF FailureTravels
  <2>6. \A v \in Workers : pc'[v] \in {"passes", "interrupts"} => pc'[v] = pc[v]
    BY <1>0, <2>1 DEF TypeOK
  <2>7. FailureTravels'
    BY <1>2, <1>3, <2>1, <2>2, <2>5, <2>6 DEF FailureTravels, SomeFailed
  <2> QED BY <2>3, <2>4, <2>7
<1>16. CASE Finishes(w)
  <2>1. /\ UNCHANGED <<start, main, raising, interrupted, task, status>> /\ pc[w] = "finishes"
        /\ pc' = [pc EXCEPT ![w] = "wakesMain"] /\ late' = (late \/ task[w][1] # start)
    BY <1>16 DEF Finishes
  <2>2. ~late' => ~late /\ task[w][1] = start /\ HandedOver
    BY <1>4, <2>1
  <2>3. ~late' => AllEnded'
    BY <1>1, <2>1, <2>2 DEF LastOneEnds
  <2>4. GraphIsKept' /\ LastOneEnds'
    BY <2>1, <2>2, <2>3 DEF GraphIsKept, LastOneEnds, HandedOver
  <2>5. EndsAfterAllTasks' /\ RaisesOnlyAfterFailure'
    BY <1>1, <1>2, <1>3, <2>1, <2>2 DEF EndsAfterAllTasks, RaisesOnlyAfterFailure, AllEnded, SomeFailed
  <2>6. \A v \in Workers : pc'[v] \in {"passes", "interrupts"} => pc'[v] = pc[v]
    BY <1>0, <2>1 DEF TypeOK
  <2>7. FailureTravels'
    BY <1>2, <1>3, <2>1, <2>2, <2>6 DEF FailureTravels, HandedOver
  <2> QED BY <2>4, <2>5, <2>7
<1>17. CASE WakesMain(w)
  <2>1. /\ UNCHANGED <<start, roots, tasksDict, raising, interrupted, status>> /\ pc[w] = "wakesMain"
        /\ pc' = [pc EXCEPT ![w] = "idle"] /\ task' = [task EXCEPT ![w] = None]
        /\ late' = (late \/ task[w][1] # start)
        /\ (main' = main \/ (main = "asleep" /\ main' = "woken"))
    BY <1>17 DEF WakesMain, engine
  <2>2. ~late' => ~late /\ task[w][1] = start
    BY <2>1
  <2>3. ~late' => AllEnded /\ AllEnded'
    BY <1>1, <2>1, <2>2 DEF LastOneEnds
  <2>4. \A v \in Workers : pc'[v] # "idle" => pc'[v] = pc[v] /\ task'[v] = task[v]
    BY <1>0, <2>1 DEF TypeOK
  <2>5. GraphIsKept' /\ LastOneEnds'
    BY <2>1, <2>2, <2>3, <2>4 DEF GraphIsKept, LastOneEnds, HandedOver
  <2>6. EndsAfterAllTasks'
    BY <2>3 DEF EndsAfterAllTasks, AllEnded
  <2>7. RaisesOnlyAfterFailure'
    BY <1>2, <1>3, <2>1, <2>2 DEF RaisesOnlyAfterFailure, SomeFailed
  <2>8. FailureTravels'
    BY <1>2, <1>3, <2>1, <2>2, <2>4 DEF FailureTravels, HandedOver
  <2> QED BY <2>5, <2>6, <2>7, <2>8
<1> QED BY <1>5, <1>6, <1>7, <1>8, <1>9, <1>10, <1>11, <1>12, <1>13, <1>14, <1>15, <1>16, <1>17 DEF Worker

LEMMA EndAlways == Spec => []EndInv
<1>1. ASSUME OrderInv, EndInv, [Next]_vars PROVE EndInv'
  <2>1. CASE UNCHANGED vars
    BY <1>1, <2>1 DEF vars, engine, workers, EndInv, GraphIsKept, LastOneEnds, EndsAfterAllTasks, FailureTravels,
                      RaisesOnlyAfterFailure, AllEnded, SomeFailed, HandedOver, Ended
  <2> QED BY <1>1, <2>1, MainEndStep, WorkerEndStep DEF Next
<1>2. OrderInv /\ EndInv /\ [Next]_vars => EndInv'
  BY <1>1
<1> QED BY <1>2, EndInit, OrderAlways, PTL DEF Spec

\* start() goes on only when all its tasks have ended and raises only after one of
\* them has failed, unless a worker of an earlier start came late with its finish()
\* (TaskEngine.start, finish).
THEOREM StartIsTrue == Spec => []StartTellsTheTruth
<1>1. EndInv => StartTellsTheTruth
  BY DEF EndInv, StartTellsTheTruth
<1> QED BY <1>1, EndAlways, PTL

-----------------------------------------------------------------------------
(* The way of a failure to the main thread *)

\* The engine's dictionary never holds tasks of an earlier start.
DictOfStart == HandedOver => \A t \in tasksDict : t[1] = start

\* A worker on its way to leave an exception of this start.
Carries(w) ==
  /\ pc[w] \in {"ended", "passes", "interrupts"}
  /\ task[w][1] = start /\ task[w] \in interrupted

\* Nobody is forgotten by a worker that passes its exception on ...
PassesOn ==
  \A w \in Workers : ~late /\ pc[w] = "passes" /\ task[w][1] = start =>
    \A n \in Names : Ended(<<start, n>>) \/ <<start, n>> \in interrupted \cup todo[w]

\* ... so a failure is left, carried, or handed to a task that has not ended.
FailureKept ==
  ~late /\ ~raising /\ SomeFailed(start) =>
    \/ \E w \in Workers : Carries(w)
    \/ \E n \in Names : <<start, n>> \in interrupted /\ ~Ended(<<start, n>>)

KeptInv == DictOfStart /\ PassesOn /\ FailureKept

\* Before its tasks are handed over a start has not failed.
LEMMA NoFailureYet ==
  ASSUME OrderInv, NEW s \in Starts, s > start \/ (s = start /\ ~HandedOver)
  PROVE  ~SomeFailed(s)
<1>1. ASSUME NEW n \in Names PROVE status[<<s, n>>] = "READY"
  <2>1. <<s, n>> \in Tasks /\ Unused(<<s, n>>)
    BY OfStart DEF Unused, HandedOver
  <2> QED BY <2>1 DEF OrderInv, Untouched
<1> QED BY <1>1 DEF SomeFailed

LEMMA KeptInit == Init => KeptInv
<1> SUFFICES ASSUME Init PROVE KeptInv
  OBVIOUS
<1>1. ~HandedOver /\ start \in Starts
  BY FirstStart DEF Init, HandedOver
<1>2. ~SomeFailed(start)
  BY <1>1, OrderInit, NoFailureYet
<1> QED BY <1>1, <1>2 DEF Init, KeptInv, DictOfStart, PassesOn, FailureKept

LEMMA MainKeptStep == ASSUME OrderInv, OrderInv', KeptInv, Main PROVE KeptInv'
<1>1. UNCHANGED <<status, pc, task, todo, late, interrupted>>
  BY DEF Main, AddRoots, Prepare, PutTask, MainWaits, MainGoesOn, StartAgain, workers
<1>2. start \in Starts /\ start' \in Starts
  BY DEF OrderInv, TypeOK
<1>3. CASE start' = start
  <2>1. DictOfStart'
    BY <1>3 DEF KeptInv, DictOfStart, HandedOver, Main, AddRoots, Prepare, PutTask, MainWaits, MainGoesOn,
                StartAgain, engine
  <2>2. PassesOn'
    BY <1>1, <1>3 DEF KeptInv, PassesOn, Ended
  <2>3. CASE raising' = raising
    BY <1>1, <1>3, <2>1, <2>2, <2>3 DEF KeptInv, FailureKept, SomeFailed, Carries, Ended
  <2>4. CASE raising' # raising
    <3>1. ~HandedOver
      BY <1>3, <2>4 DEF Main, AddRoots, Prepare, PutTask, MainWaits, MainGoesOn, StartAgain, engine, HandedOver
    <3>2. ~SomeFailed(start)'
      BY <1>1, <1>2, <1>3, <3>1, NoFailureYet DEF SomeFailed
    <3> QED BY <1>3, <2>1, <2>2, <3>2 DEF KeptInv, FailureKept
  <2> QED BY <2>3, <2>4
<1>4. CASE start' # start
  <2>1. start' = start + 1 /\ main' = "adds"
    BY <1>4 DEF Main, AddRoots, Prepare, PutTask, MainWaits, MainGoesOn, StartAgain
  <2>2. ASSUME NEW w \in Workers, pc[w] # "idle" PROVE task[w][1] # start'
    <3>1. task[w][1] \in Starts /\ task[w][1] <= start
      BY <2>2, TakenIsUsed
    <3> QED BY <1>2, <2>1, <3>1 DEF Starts
  <2>3. ~SomeFailed(start')
    BY <1>2, <2>1, NoFailureYet, EngineAssumption DEF Starts
  <2> QED BY <1>1, <2>1, <2>2, <2>3 DEF KeptInv, DictOfStart, HandedOver, PassesOn, FailureKept, SomeFailed
<1> QED BY <1>3, <1>4

\* Where no task ends, no carrier stops and nobody starts to pass anything on.
LEMMA NobodyDrops ==
  ASSUME OrderInv, KeptInv, UNCHANGED start, main' = main \/ (main = "asleep" /\ main' = "woken"),
         tasksDict' \in {tasksDict, {}}, interrupted \subseteq interrupted', late => late', raising => raising',
         \A t \in Tasks : (Ended(t)' <=> Ended(t)) /\ (status'[t] = "FAILURE" => status[t] = "FAILURE"),
         \A v \in Workers : ~late' /\ Carries(v) =>
           raising' \/ (pc'[v] \in {"ended", "passes", "interrupts"} /\ task'[v] = task[v]),
         \A v \in Workers : ~late' /\ pc'[v] = "passes" =>
           pc[v] = "passes" /\ task'[v] = task[v] /\ todo[v] \subseteq todo'[v] \cup interrupted'
  PROVE  KeptInv'
<1>1. start \in Starts
  BY DEF OrderInv, TypeOK
<1>2. \A n \in Names : <<start, n>> \in Tasks
  BY <1>1, OfStart
<1>3. DictOfStart'
  BY DEF KeptInv, DictOfStart, HandedOver
<1>4. PassesOn'
  <2> SUFFICES ASSUME NEW w \in Workers, ~late', pc'[w] = "passes", task'[w][1] = start, NEW n \in Names
               PROVE  Ended(<<start, n>>)' \/ <<start, n>> \in interrupted' \cup todo'[w]
    BY DEF PassesOn, Ended
  <2>1. Ended(<<start, n>>) \/ <<start, n>> \in interrupted \cup todo[w]
    BY DEF KeptInv, PassesOn
  <2> QED BY <1>2, <2>1
<1>5. FailureKept'
  <2> SUFFICES ASSUME ~late', ~raising', SomeFailed(start)'
               PROVE  \/ \E w \in Workers : Carries(w)'
                      \/ \E n \in Names : <<start, n>> \in interrupted' /\ ~Ended(<<start, n>>)'
    BY DEF FailureKept, Ended
  <2>1. SomeFailed(start)
    BY <1>2 DEF SomeFailed
  <2>2. CASE \E n \in Names : <<start, n>> \in interrupted /\ ~Ended(<<start, n>>)
    BY <1>2, <2>2
  <2>3. ASSUME NEW w \in Workers, Carries(w) PROVE Carries(w)'
    BY <2>3 DEF Carries
  <2> QED BY <2>1, <2>2, <2>3 DEF KeptInv, FailureKept
<1> QED BY <1>3, <1>4, <1>5 DEF KeptInv

\* A worker whose task ends carries its exception if it has one.
LEMMA TaskEndsKept ==
  ASSUME OrderInv, KeptInv, NEW w \in Workers, pc[w] \in {"runs", "executes"}, pc' = [pc EXCEPT ![w] = "ended"],
         NEW s \in {"SUCCESS", "FAILURE"}, status' = [status EXCEPT ![task[w]] = s],
         s = "FAILURE" => task[w] \in interrupted', interrupted \subseteq interrupted',
         UNCHANGED <<start, main, tasksDict, raising, late, task, todo>>
  PROVE  KeptInv'
<1>1. start \in Starts /\ task[w] \in Tasks /\ task[w] = <<task[w][1], task[w][2]>>
  BY TaskOf DEF OrderInv, TypeOK, OwnTask
<1>2. \A n \in Names : <<start, n>> \in Tasks
  BY <1>1, OfStart
<1>3. /\ \A t \in Tasks : t # task[w] => status'[t] = status[t]
      /\ status'[task[w]] = s
      /\ \A v \in Workers : v # w => pc'[v] = pc[v]
      /\ pc'[w] = "ended"
  BY <1>1 DEF OrderInv, TypeOK
<1>4. \A t \in Tasks : Ended(t) => Ended(t)'
  BY <1>3 DEF Ended
<1>5. DictOfStart'
  BY DEF KeptInv, DictOfStart, HandedOver
<1>6. PassesOn'
  <2> SUFFICES ASSUME NEW v \in Workers, ~late, pc'[v] = "passes", task[v][1] = start, NEW n \in Names
               PROVE  Ended(<<start, n>>)' \/ <<start, n>> \in interrupted' \cup todo[v]
    BY DEF PassesOn, Ended
  <2>1. Ended(<<start, n>>) \/ <<start, n>> \in interrupted \cup todo[v]
    BY <1>3 DEF KeptInv, PassesOn
  <2> QED BY <1>2, <1>4, <2>1
<1>7. FailureKept'
  <2> SUFFICES ASSUME ~late, ~raising, SomeFailed(start)',
                      \A n \in Names : <<start, n>> \in interrupted' => Ended(<<start, n>>)'
               PROVE  \E v \in Workers : Carries(v)'
    BY DEF FailureKept, Ended
  <2>1. task[w] \in interrupted' /\ task[w][1] = start => Carries(w)'
    BY <1>3 DEF Carries
  <2>2. ASSUME NEW n \in Names, status'[<<start, n>>] = "FAILURE", ~SomeFailed(start)
        PROVE  task[w] = <<start, n>>
    BY <1>2, <1>3, <2>2 DEF SomeFailed
  <2>3. CASE ~SomeFailed(start)
    <3>1. PICK n \in Names : status'[<<start, n>>] = "FAILURE"
      BY DEF SomeFailed
    <3>2. task[w] = <<start, n>>
      BY <2>2, <2>3, <3>1
    <3> QED BY <1>1, <1>3, <2>1, <3>1, <3>2, OfStart
  <2>4. CASE \E v \in Workers : Carries(v)
    <3>1. PICK v \in Workers : Carries(v)
      BY <2>4
    <3>2. v # w
      <4>1. CASE v = w
        BY <3>1, <4>1 DEF Carries
      <4> QED BY <4>1
    <3> QED BY <1>3, <3>1, <3>2 DEF Carries
  <2>5. CASE \E n \in Names : <<start, n>> \in interrupted /\ ~Ended(<<start, n>>)
    <3>1. PICK n \in Names : <<start, n>> \in interrupted /\ ~Ended(<<start, n>>)
      BY <2>5
    <3>2. Ended(<<start, n>>)'
      BY <3>1
    <3>3. task[w] = <<start, n>>
      BY <1>2, <1>3, <3>1, <3>2 DEF Ended
    <3> QED BY <1>1, <2>1, <3>1, <3>3, OfStart
  <2> QED BY <2>3, <2>4, <2>5 DEF KeptInv, FailureKept
<1> QED BY <1>5, <1>6, <1>7 DEF KeptInv

\* After its run a worker looks up whom its exception has to reach.
LEMMA AfterRunKept ==
  ASSUME OrderInv, EndInv, KeptInv, NEW w \in Workers, AfterRun(w)
  PROVE  KeptInv'
<1>1. /\ pc[w] = "ended" /\ UNCHANGED <<status, interrupted, start, main, tasksDict, raising, late, task>>
      /\ \A v \in Workers : v # w => pc'[v] = pc[v] /\ todo'[v] = todo[v]
      /\ task[w] \in interrupted => pc'[w] = "passes" /\ todo'[w] = get_running_tasks
      /\ task[w] \notin interrupted => pc'[w] = "notifies"
  BY DEF AfterRun, engine, OrderInv, TypeOK
<1>2. start \in Starts
  BY DEF OrderInv, TypeOK
<1>3. DictOfStart'
  BY <1>1 DEF KeptInv, DictOfStart, HandedOver
<1>4. PassesOn'
  <2> SUFFICES ASSUME NEW v \in Workers, ~late, pc'[v] = "passes", task[v][1] = start, NEW n \in Names
               PROVE  Ended(<<start, n>>) \/ <<start, n>> \in interrupted \cup todo'[v]
    BY <1>1 DEF PassesOn, Ended
  <2>1. CASE v # w
    BY <1>1, <2>1 DEF KeptInv, PassesOn
  <2>2. CASE v = w
    <3>1. HandedOver
      BY <1>1, <2>2, TakenIsUsed
    <3>2. tasksDict = {t \in Tasks : t[1] = start} \/ AllEnded
      BY <3>1 DEF EndInv, GraphIsKept
    <3>3. todo'[w] = get_running_tasks
      BY <1>1, <2>2
    <3> QED BY <1>2, <2>2, <3>2, <3>3, OfStart DEF get_running_tasks, AllEnded
  <2> QED BY <2>1, <2>2
<1>5. FailureKept'
  <2>1. ASSUME NEW v \in Workers, Carries(v) PROVE Carries(v)'
    BY <1>1, <2>1 DEF Carries
  <2> QED BY <1>1, <2>1 DEF KeptInv, FailureKept, SomeFailed, Ended
<1> QED BY <1>3, <1>4, <1>5 DEF KeptInv

\* A worker that has told everybody and leaves has told a task that has not ended.
LEMMA ChecksLastKept ==
  ASSUME OrderInv, KeptInv, NEW w \in Workers, ChecksLast(w)
  PROVE  KeptInv'
<1>1. /\ pc[w] \in {"passes", "notifies"} /\ todo[w] = {}
      /\ UNCHANGED <<status, interrupted, start, main, tasksDict, raising, late, todo>>
      /\ \A v \in Workers : v # w => pc'[v] = pc[v] /\ task'[v] = task[v]
      /\ is_all_tasks_finished => task' = task /\ (pc[w] = "passes" => pc'[w] = "interrupts")
      /\ pc'[w] # "passes"
  BY DEF ChecksLast, engine, OrderInv, TypeOK
<1>2. start \in Starts
  BY DEF OrderInv, TypeOK
<1>3. DictOfStart'
  BY <1>1 DEF KeptInv, DictOfStart, HandedOver
<1>4. PassesOn'
  <2> SUFFICES ASSUME NEW v \in Workers, ~late, pc'[v] = "passes", task'[v][1] = start, NEW n \in Names
               PROVE  Ended(<<start, n>>) \/ <<start, n>> \in interrupted \cup todo[v]
    BY <1>1 DEF PassesOn, Ended
  <2> QED BY <1>1 DEF KeptInv, PassesOn
<1>5. FailureKept'
  <2> SUFFICES ASSUME ~late, ~raising, SomeFailed(start)
               PROVE  \/ \E v \in Workers : Carries(v)'
                      \/ \E n \in Names : <<start, n>> \in interrupted /\ ~Ended(<<start, n>>)
    BY <1>1 DEF FailureKept, Ended, SomeFailed
  <2>1. CASE \E v \in Workers : Carries(v) /\ v # w
    BY <1>1, <2>1 DEF Carries
  <2>2. CASE Carries(w) /\ is_all_tasks_finished
    BY <1>1, <2>2 DEF Carries
  <2>3. CASE Carries(w) /\ ~is_all_tasks_finished
    <3>1. HandedOver /\ pc[w] = "passes" /\ task[w][1] = start
      BY <1>1, <2>3, TakenIsUsed DEF Carries
    <3>2. PICK t \in tasksDict : ~Ended(t)
      BY <2>3 DEF is_all_tasks_finished
    <3>3. t[1] = start /\ t[2] \in Names /\ t = <<t[1], t[2]>>
      BY <3>1, <3>2, TaskOf DEF KeptInv, DictOfStart, OrderInv, TypeOK
    <3>4. <<start, t[2]>> \in interrupted
      BY <1>1, <3>1, <3>2, <3>3 DEF KeptInv, PassesOn
    <3> QED BY <3>2, <3>3, <3>4
  <2>4. CASE \E n \in Names : <<start, n>> \in interrupted /\ ~Ended(<<start, n>>)
    BY <2>4
  <2> QED BY <2>1, <2>2, <2>3, <2>4 DEF KeptInv, FailureKept
<1> QED BY <1>3, <1>4, <1>5 DEF KeptInv

LEMMA WorkerKeptStep ==
  ASSUME OrderInv, EndInv, KeptInv, NEW w \in Workers, Worker(w)
  PROVE  KeptInv'
<1>0. TypeOK /\ Progress /\ QueueIsNew /\ OwnTask
  BY DEF OrderInv
<1>1. CASE TakeTask(w)
  <2>1. Head(queue) \in Tasks /\ status[Head(queue)] = "READY"
    BY <1>0, <1>1, HeadAndTail DEF TakeTask, TypeOK, QueueIsNew
  <2>2. /\ pc[w] = "idle" /\ pc' = [pc EXCEPT ![w] = "checks"] /\ task' = [task EXCEPT ![w] = Head(queue)]
        /\ status' = [status EXCEPT ![Head(queue)] = "WAITING"]
        /\ UNCHANGED <<interrupted, start, main, tasksDict, raising, todo, late>>
    BY <1>1 DEF TakeTask, engine
  <2>3. \A t \in Tasks : (Ended(t)' <=> Ended(t)) /\ (status'[t] = "FAILURE" => status[t] = "FAILURE")
    BY <1>0, <2>1, <2>2 DEF Ended, TypeOK
  <2> QED BY <1>0, <2>2, <2>3, NobodyDrops DEF Carries, TypeOK
<1>2. CASE ChecksParents(w) \/ Waits(w)
  <2>1. /\ pc[w] \in {"checks", "waits"} /\ \E c \in {"begins", "waits", "asleep"} : pc' = [pc EXCEPT ![w] = c]
        /\ UNCHANGED <<status, interrupted, start, main, tasksDict, raising, task, todo, late>>
    BY <1>2 DEF ChecksParents, Waits, engine
  <2>2. \A t \in Tasks : (Ended(t)' <=> Ended(t)) /\ (status'[t] = "FAILURE" => status[t] = "FAILURE")
    BY <2>1 DEF Ended
  <2> QED BY <1>0, <2>1, <2>2, NobodyDrops DEF Carries, TypeOK
<1>3. CASE Begins(w)
  <2>1. status[task[w]] = "WAITING" /\ task[w] \in Tasks
    BY <1>0, <1>3 DEF Begins, Progress, OwnTask
  <2>2. /\ pc[w] = "begins" /\ pc' = [pc EXCEPT ![w] = "runs"] /\ status' = [status EXCEPT ![task[w]] = "WORKING"]
        /\ UNCHANGED <<interrupted, start, main, tasksDict, raising, task, todo, late>>
    BY <1>3 DEF Begins, engine
  <2>3. \A t \in Tasks : (Ended(t)' <=> Ended(t)) /\ (status'[t] = "FAILURE" => status[t] = "FAILURE")
    BY <1>0, <2>1, <2>2 DEF Ended, TypeOK
  <2> QED BY <1>0, <2>2, <2>3, NobodyDrops DEF Carries, TypeOK
<1>4. CASE Runs(w) /\ task[w] \in interrupted
  BY <1>4, TaskEndsKept DEF Runs, engine
<1>5. CASE Runs(w) /\ task[w] \notin interrupted
  <2>1. /\ pc[w] = "runs" /\ pc' = [pc EXCEPT ![w] = "executes"]
        /\ UNCHANGED <<status, interrupted, start, main, tasksDict, raising, task, todo, late>>
    BY <1>5 DEF Runs, engine
  <2>2. \A t \in Tasks : (Ended(t)' <=> Ended(t)) /\ (status'[t] = "FAILURE" => status[t] = "FAILURE")
    BY <2>1 DEF Ended
  <2> QED BY <1>0, <2>1, <2>2, NobodyDrops DEF Carries, TypeOK
<1>6. CASE RunEnds(w)
  BY <1>6, TaskEndsKept DEF RunEnds, engine
<1>7. CASE AfterRun(w)
  BY <1>7, AfterRunKept
<1>8. CASE PassException(w)
  <2>1. PICK t \in todo[w] : /\ interrupted' = interrupted \cup {t} /\ Notified(t)
                             /\ todo' = [todo EXCEPT ![w] = @ \ {t}]
                             /\ late' = (late \/ t[1] # task[w][1])
    BY <1>8 DEF PassException
  <2>2. pc[w] = "passes" /\ UNCHANGED <<status, start, main, tasksDict, raising, task>>
    BY <1>8 DEF PassException, engine
  <2>3. \A v \in Workers : pc'[v] = IF task[v] = t /\ pc[v] = "asleep" THEN "checks" ELSE pc[v]
    BY <2>1 DEF Notified
  <2>4. \A v \in Workers : todo[v] \subseteq todo'[v] \cup interrupted'
    BY <1>0, <2>1 DEF TypeOK
  <2>5. \A u \in Tasks : (Ended(u)' <=> Ended(u)) /\ (status'[u] = "FAILURE" => status[u] = "FAILURE")
    BY <2>2 DEF Ended
  <2> QED BY <2>1, <2>2, <2>3, <2>4, <2>5, NobodyDrops DEF Carries
<1>9. CASE NotifyChild(w)
  <2>1. PICK t \in todo[w] : Notified(t) /\ todo' = [todo EXCEPT ![w] = @ \ {t}]
    BY <1>9 DEF NotifyChild
  <2>2. /\ pc[w] = "notifies"
        /\ UNCHANGED <<status, interrupted, start, main, tasksDict, raising, task, late>>
    BY <1>9 DEF NotifyChild, engine
  <2>3. \A v \in Workers : pc'[v] = IF task[v] = t /\ pc[v] = "asleep" THEN "checks" ELSE pc[v]
    BY <2>1 DEF Notified
  <2>4. \A v \in Workers : pc'[v] = "passes" => todo'[v] = todo[v]
    BY <1>0, <2>1, <2>2, <2>3 DEF TypeOK
  <2>5. \A u \in Tasks : (Ended(u)' <=> Ended(u)) /\ (status'[u] = "FAILURE" => status[u] = "FAILURE")
    BY <2>2 DEF Ended
  <2> QED BY <2>2, <2>3, <2>4, <2>5, NobodyDrops DEF Carries
<1>10. CASE ChecksLast(w)
  BY <1>10, ChecksLastKept
<1>11. CASE Interrupts(w)
  \* It leaves the exception, or comes late.
  <2>1. /\ pc[w] = "interrupts" /\ pc' = [pc EXCEPT ![w] = "finishes"] /\ raising'
        /\ UNCHANGED <<status, interrupted, start, main, tasksDict, task, todo>> /\ (late => late')
    BY <1>11 DEF Interrupts
  <2>2. \A t \in Tasks : (Ended(t)' <=> Ended(t)) /\ (status'[t] = "FAILURE" => status[t] = "FAILURE")
    BY <2>1 DEF Ended
  <2> QED BY <1>0, <2>1, <2>2, NobodyDrops DEF Carries, TypeOK
<1>12. CASE Finishes(w) \/ WakesMain(w)
  <2>1. /\ pc[w] \in {"finishes", "wakesMain"} /\ \E c \in {"wakesMain", "idle"} : pc' = [pc EXCEPT ![w] = c]
        /\ task' = task \/ task' = [task EXCEPT ![w] = None]
        /\ tasksDict' \in {tasksDict, {}} /\ (late => late')
        /\ main' = main \/ (main = "asleep" /\ main' = "woken")
        /\ UNCHANGED <<status, interrupted, start, raising, todo>>
    BY <1>12 DEF Finishes, WakesMain, engine
  <2>2. \A t \in Tasks : (Ended(t)' <=> Ended(t)) /\ (status'[t] = "FAILURE" => status[t] = "FAILURE")
    BY <2>1 DEF Ended
  <2> QED BY <1>0, <2>1, <2>2, NobodyDrops DEF Carries, TypeOK
<1> QED BY <1>1, <1>2, <1>3, <1>4, <1>5, <1>6, <1>7, <1>8, <1>9, <1>10, <1>11, <1>12 DEF Worker

LEMMA KeptStep == ASSUME OrderInv, OrderInv', EndInv, KeptInv, [Next]_vars PROVE KeptInv'
<1>1. CASE UNCHANGED vars
  BY <1>1 DEF vars, engine, workers, KeptInv, DictOfStart, HandedOver, PassesOn, FailureKept, SomeFailed, Carries, Ended
<1> QED BY <1>1, MainKeptStep, WorkerKeptStep DEF Next

\* When the main thread is woken without an exception although a task of its start
\* has failed, a worker is on its way to leave one: whoever passed an exception on
\* and left reached a task that had not ended, and the worker of that task carries
\* it further (TaskEngine._pass_interrupted_exception, ExecutableTask.execute).
THEOREM FailureIsCarried == Spec => []PassedFailureIsKept
<1>1. OrderInv /\ OrderInv' /\ EndInv /\ KeptInv /\ [Next]_vars => KeptInv'
  BY KeptStep
<1>2. EndInv /\ KeptInv => PassedFailureIsKept
  BY DEF EndInv, EndsAfterAllTasks, KeptInv, FailureKept, SomeFailed, Carries, PassedFailureIsKept
<1> QED BY <1>1, <1>2, KeptInit, OrderAlways, EndAlways, PTL DEF Spec

-----------------------------------------------------------------------------
(* The queue is never out of order *)

\* A task in the queue has its parents before it, or they were taken already.
ParentsAhead ==
  \A j \in 1..Len(queue) : \A p \in Parents[queue[j]] :
    status[p] # "READY" \/ \E i \in 1..Len(queue) : i < j /\ queue[i] = p

ParentsTaken ==
  \A t \in Tasks : status[t] # "READY" => \A p \in Parents[t] : status[p] # "READY"

\* While tasks are put into the queue, none of the graph is lost.
NoneMissing ==
  toAdd # {} => \A t \in Tasks : t[1] = start => t \in toAdd \/ status[t] # "READY" \/ Queued(t)

\* A task that was taken and has not ended is in a worker's hands.
InHands ==
  \A t \in Tasks : status[t] \in {"WAITING", "WORKING"} => \E w \in Workers : task[w] = t

QueueInv == ParentsAhead /\ ParentsTaken /\ NoneMissing /\ InHands

LEMMA ParentOfStart == ASSUME NEW t \in Tasks, NEW p \in Parents[t] PROVE p \in Tasks /\ p[1] = t[1]
<1>1. p \in {<<t[1], n>> : n \in NameParents[t[2]]}
  BY DEF Parents
<1> QED BY <1>1, ParentsAreTasks

\* In a graph without a circle every task is deeper than its parents: it has their
\* ancestors, and itself.
LEMMA DepthGrows ==
  ASSUME NoCircle, NEW t \in Tasks, NEW p \in Parents[t]
  PROVE  /\ calculate_task_depth(p) \in Nat /\ calculate_task_depth(t) \in Nat
         /\ calculate_task_depth(p) < calculate_task_depth(t)
<1> DEFINE n == t[2]
           q == p[2]
<1>1. n \in Names /\ q \in NameParents[n] /\ q \in Names
  <2>1. PICK m \in NameParents[n] : p = <<t[1], m>>
    BY DEF Parents
  <2> QED BY <2>1, EngineAssumption DEF Tasks
<1>2. Ancestors(q) \subseteq Ancestors(n)
  <2> SUFFICES ASSUME NEW a \in Ancestors(q), NEW S \in SUBSET Names,
                      n \in S, \A b \in S : NameParents[b] \subseteq S
               PROVE  a \in S
    BY DEF Ancestors
  <2>1. q \in S
    BY <1>1
  <2> QED BY <2>1 DEF Ancestors
<1>3. n \in Ancestors(n) /\ n \notin Ancestors(q)
  BY <1>1 DEF Ancestors, NoCircle
<1>4. IsFiniteSet(Ancestors(n))
  BY EngineAssumption, FS_Subset DEF Ancestors
<1> DEFINE A == Ancestors(n)
           B == Ancestors(q)
<1> HIDE DEF A, B
<1>5. /\ IsFiniteSet(A) /\ B \in SUBSET A /\ A # B
  BY <1>2, <1>3, <1>4 DEF A, B
<1>6. /\ Cardinality(A) \in Nat /\ Cardinality(B) \in Nat /\ Cardinality(B) < Cardinality(A)
  <2>1. IsFiniteSet(B) /\ Cardinality(B) <= Cardinality(A) /\ Cardinality(A) # Cardinality(B)
    BY <1>5, FS_Subset
  <2>2. Cardinality(A) \in Nat /\ Cardinality(B) \in Nat
    BY <1>5, <2>1, FS_CardinalityType
  <2> QED BY <2>1, <2>2
<1> QED BY <1>6 DEF A, B, calculate_task_depth

LEMMA QueueInit == Init => QueueInv
<1> SUFFICES ASSUME Init PROVE QueueInv
  OBVIOUS
<1>1. Len(queue) = 0
  BY EmptySeq DEF Init
<1> QED BY <1>1 DEF Init, QueueInv, ParentsAhead, ParentsTaken, NoneMissing, InHands, ParentOfStart

\* Where the queue stays and no task is taken, the order stays.
LEMMA QueueKept ==
  ASSUME OrderInv, QueueInv, UNCHANGED <<queue, toAdd>>, toAdd # {} => start' = start,
         \A t \in Tasks : status'[t] = "READY" <=> status[t] = "READY",
         \A t \in Tasks : status'[t] \in {"WAITING", "WORKING"} => status[t] \in {"WAITING", "WORKING"},
         \A t \in Tasks, w \in Workers : status'[t] \in {"WAITING", "WORKING"} /\ task[w] = t => task'[w] = t
  PROVE  QueueInv'
<1>1. \A j \in 1..Len(queue) : queue[j] \in Tasks
  BY DEF OrderInv, TypeOK
<1>2. ParentsAhead'
  BY <1>1, ParentOfStart DEF QueueInv, ParentsAhead
<1>3. ParentsTaken'
  BY ParentOfStart DEF QueueInv, ParentsTaken
<1>4. NoneMissing'
  BY DEF QueueInv, NoneMissing, Queued
<1>5. InHands'
  BY DEF QueueInv, InHands
<1> QED BY <1>2, <1>3, <1>4, <1>5 DEF QueueInv

LEMMA MainQueueStep ==
  ASSUME NoCircle, OrderInv, QueueInv, Main
  PROVE  QueueInv'
<1>1. UNCHANGED <<status, task>>
  BY DEF Main, AddRoots, Prepare, PutTask, MainWaits, MainGoesOn, StartAgain, workers
<1>2. CASE AddRoots \/ MainWaits \/ MainGoesOn \/ StartAgain
  <2>1. UNCHANGED <<queue, toAdd>> /\ (toAdd # {} => start' = start)
    BY <1>2 DEF AddRoots, MainWaits, MainGoesOn, StartAgain, engine, OrderInv, StillToAdd
  <2> QED BY <1>1, <2>1, QueueKept
<1>3. CASE Prepare
  <2>1. queue' = queue /\ start' = start /\ toAdd' \in {{t \in Tasks : t[1] = start}, {}}
    BY <1>3 DEF Prepare
  <2> QED BY <1>1, <2>1 DEF QueueInv, ParentsAhead, ParentsTaken, NoneMissing, InHands
<1>4. CASE PutTask /\ UNCHANGED <<toAdd, queue>>
  BY <1>1, <1>4, QueueKept DEF PutTask
<1>5. ASSUME NEW t \in toAdd, toAdd' = toAdd \ {t}, queue' = Append(queue, t), start' = start,
             \A u \in toAdd : calculate_task_depth(t) <= calculate_task_depth(u)
      PROVE  QueueInv'
  <2>1. t \in Tasks /\ t[1] = start /\ Len(queue) \in Nat
    BY <1>5 DEF OrderInv, TypeOK, StillToAdd
  <2>2. /\ Len(queue') = Len(queue) + 1
        /\ \A i \in 1..Len(queue) : queue'[i] = queue[i]
        /\ queue'[Len(queue) + 1] = t
    BY <1>5, <2>1, Appended DEF OrderInv, TypeOK
  \* The parents of t are less deep, so they are not waiting to be added.
  <2>3. ASSUME NEW p \in Parents[t] PROVE status[p] # "READY" \/ Queued(p)
    <3>1. p \in Tasks /\ p[1] = start
      BY <2>1, <2>3, ParentOfStart
    <3>2. /\ calculate_task_depth(p) < calculate_task_depth(t)
          /\ calculate_task_depth(p) \in Nat /\ calculate_task_depth(t) \in Nat
      BY <2>1, <2>3, DepthGrows
    <3>. HIDE DEF calculate_task_depth
    <3>3. p \notin toAdd
      BY <1>5, <3>2
    <3> QED BY <1>5, <3>1, <3>3 DEF QueueInv, NoneMissing
  <2>4. ParentsAhead'
    <3> SUFFICES ASSUME NEW j \in 1..Len(queue'), NEW p \in Parents[queue'[j]], status[p] = "READY"
                 PROVE  \E i \in 1..Len(queue') : i < j /\ queue'[i] = p
      BY <1>1 DEF ParentsAhead
    <3>1. CASE j = Len(queue) + 1
      <4>1. PICK i \in 1..Len(queue) : queue[i] = p
        BY <2>2, <2>3, <3>1 DEF Queued
      <4>2. i \in 1..Len(queue') /\ i < j /\ queue'[i] = p
        BY <2>1, <2>2, <3>1, <4>1
      <4> QED BY <4>2
    <3>2. CASE j \in 1..Len(queue)
      <4>1. PICK i \in 1..Len(queue) : i < j /\ queue[i] = p
        BY <2>2, <3>2 DEF QueueInv, ParentsAhead
      <4>2. i \in 1..Len(queue') /\ queue'[i] = p
        BY <2>1, <2>2, <4>1
      <4> QED BY <4>1, <4>2
    <3> QED BY <2>1, <2>2, <3>1, <3>2
  <2>5. ASSUME NEW u, Queued(u) \/ u = t PROVE Queued(u)'
    <3>1. \A i \in 1..Len(queue) : i \in 1..Len(queue')
      BY <2>1, <2>2
    <3>2. Len(queue) + 1 \in 1..Len(queue')
      BY <2>1, <2>2
    <3> QED BY <2>2, <2>5, <3>1, <3>2 DEF Queued
  <2>6. NoneMissing'
    BY <1>1, <1>5, <2>5 DEF QueueInv, NoneMissing
  <2>7. ParentsTaken' /\ InHands'
    BY <1>1 DEF QueueInv, ParentsTaken, InHands
  <2> QED BY <2>4, <2>6, <2>7 DEF QueueInv
<1>6. CASE PutTask
  BY <1>4, <1>5, <1>6 DEF PutTask
<1> QED BY <1>2, <1>3, <1>6 DEF Main

\* The head of the queue leaves: its parents were taken before it.
LEMMA TakeQueueStep ==
  ASSUME OrderInv, QueueInv, NEW w \in Workers, TakeTask(w)
  PROVE  QueueInv'
<1> DEFINE t == Head(queue)
<1>1. /\ t = queue[1] /\ 1 \in 1..Len(queue) /\ t \in Tasks
      /\ Len(queue') = Len(queue) - 1 /\ Len(queue) \in Nat
      /\ \A i \in 1..Len(queue') : queue'[i] = queue[i + 1] /\ i + 1 \in 1..Len(queue)
  BY HeadAndTail DEF TakeTask, OrderInv, TypeOK
<1>2. /\ pc[w] = "idle" /\ task' = [task EXCEPT ![w] = t] /\ status' = [status EXCEPT ![t] = "WAITING"]
      /\ UNCHANGED <<start, toAdd>>
  BY DEF TakeTask, engine
<1> HIDE DEF t
<1>3. \A u \in Tasks : u # t => status'[u] = status[u]
  BY <1>1, <1>2 DEF OrderInv, TypeOK
<1>4. status'[t] = "WAITING" /\ task'[w] = t
  BY <1>1, <1>2 DEF OrderInv, TypeOK
<1>5. \A u \in Tasks : status[u] # "READY" => status'[u] # "READY"
  BY <1>3, <1>4
<1>6. ASSUME NEW p \in Parents[t] PROVE status[p] # "READY"
  BY <1>1, <1>6 DEF QueueInv, ParentsAhead
<1>7. ParentsAhead'
  <2> SUFFICES ASSUME NEW j \in 1..Len(queue'), NEW p \in Parents[queue'[j]], status'[p] = "READY"
               PROVE  \E i \in 1..Len(queue') : i < j /\ queue'[i] = p
    BY DEF ParentsAhead
  <2>1. queue'[j] = queue[j + 1] /\ j + 1 \in 1..Len(queue) /\ queue[j + 1] \in Tasks
    BY <1>1 DEF OrderInv, TypeOK
  <2>2. p \in Tasks /\ status[p] = "READY" /\ p # t
    BY <1>4, <1>5, <2>1, ParentOfStart
  <2>3. PICK i \in 1..Len(queue) : i < j + 1 /\ queue[i] = p
    BY <2>1, <2>2 DEF QueueInv, ParentsAhead
  <2>4. i # 1
    BY <1>1, <2>2, <2>3
  <2>5. i - 1 \in 1..Len(queue') /\ i - 1 < j /\ (i - 1) + 1 = i
    BY <1>1, <2>3, <2>4
  <2>6. queue'[i - 1] = queue[i]
    BY <1>1, <2>5
  <2> QED BY <2>3, <2>5, <2>6
<1>8. ParentsTaken'
  BY <1>1, <1>3, <1>5, <1>6, ParentOfStart DEF QueueInv, ParentsTaken
<1>9. ASSUME NEW u, Queued(u) PROVE Queued(u)' \/ u = t
  <2>1. PICK i \in 1..Len(queue) : queue[i] = u
    BY <1>9 DEF Queued
  <2>2. CASE i = 1
    BY <1>1, <2>1, <2>2
  <2>3. CASE i # 1
    <3>1. i - 1 \in 1..Len(queue') /\ (i - 1) + 1 = i
      BY <1>1, <2>3
    <3>2. queue'[i - 1] = u
      BY <1>1, <2>1, <3>1
    <3> QED BY <3>1, <3>2 DEF Queued
  <2> QED BY <2>2, <2>3
<1>10. NoneMissing'
  BY <1>2, <1>4, <1>5, <1>9 DEF QueueInv, NoneMissing
<1>11. InHands'
  <2>1. \A v \in Workers : v # w => task'[v] = task[v]
    BY <1>2 DEF OrderInv, TypeOK
  <2>2. task[w] \notin Tasks
    BY <1>2, NoneIsNoTask DEF OrderInv, IdleIsFree
  <2> SUFFICES ASSUME NEW u \in Tasks, status'[u] \in {"WAITING", "WORKING"}
               PROVE  \E v \in Workers : task'[v] = u
    BY DEF InHands
  <2>3. CASE u = t
    BY <1>4, <2>3
  <2>4. CASE u # t
    BY <1>3, <2>1, <2>2, <2>4 DEF QueueInv, InHands
  <2> QED BY <2>3, <2>4
<1> QED BY <1>7, <1>8, <1>10, <1>11 DEF QueueInv

LEMMA WorkerQueueStep ==
  ASSUME OrderInv, QueueInv, NEW w \in Workers, Worker(w)
  PROVE  QueueInv'
<1>0. TypeOK /\ Progress /\ OwnTask
  BY DEF OrderInv
<1>1. CASE TakeTask(w)
  BY <1>1, TakeQueueStep
<1>2. CASE Begins(w) \/ Runs(w) \/ RunEnds(w)
  <2>1. task[w] \in Tasks /\ status[task[w]] \in {"WAITING", "WORKING"}
    BY <1>0, <1>2 DEF Begins, Runs, RunEnds, Progress, OwnTask
  <2>2. /\ UNCHANGED <<start, toAdd, queue, task>>
        /\ status' = status \/ \E s \in {"WORKING", "SUCCESS", "FAILURE"} : status' = [status EXCEPT ![task[w]] = s]
    BY <1>2 DEF Begins, Runs, RunEnds, engine
  <2>3. \A t \in Tasks : /\ status'[t] = "READY" <=> status[t] = "READY"
                         /\ status'[t] \in {"WAITING", "WORKING"} => status[t] \in {"WAITING", "WORKING"}
    BY <1>0, <2>1, <2>2 DEF TypeOK
  <2> QED BY <2>2, <2>3, QueueKept
<1>3. CASE ChecksLast(w) \/ WakesMain(w)
  <2>1. task[w] \in Tasks /\ status[task[w]] \in {"SUCCESS", "FAILURE"}
    BY <1>0, <1>3 DEF ChecksLast, WakesMain, Progress, OwnTask
  <2>2. UNCHANGED <<status, start, toAdd, queue>> /\ (task' = task \/ task' = [task EXCEPT ![w] = None])
    BY <1>3 DEF ChecksLast, WakesMain, engine
  <2>3. \A t \in Tasks, v \in Workers : status'[t] \in {"WAITING", "WORKING"} /\ task[v] = t => task'[v] = t
    BY <1>0, <2>1, <2>2 DEF TypeOK
  <2> QED BY <2>2, <2>3, QueueKept
<1>4. CASE \/ ChecksParents(w) \/ Waits(w) \/ AfterRun(w) \/ PassException(w) \/ NotifyChild(w)
           \/ Interrupts(w) \/ Finishes(w)
  <2>1. UNCHANGED <<status, start, toAdd, queue, task>>
    BY <1>4 DEF ChecksParents, Waits, AfterRun, PassException, NotifyChild, Interrupts, Finishes, engine
  <2> QED BY <2>1, QueueKept
<1> QED BY <1>1, <1>2, <1>3, <1>4 DEF Worker

LEMMA QueueStep == ASSUME NoCircle, OrderInv, QueueInv, [Next]_vars PROVE QueueInv'
<1>1. CASE UNCHANGED vars
  BY <1>1, QueueKept DEF vars, engine, workers
<1> QED BY <1>1, MainQueueStep, WorkerQueueStep DEF Next

\* In a graph without a circle no worker waits for a task that is still in the
\* queue, however few workers there are: the main thread puts the tasks in by
\* depth, and what was taken is in a worker's hands until it ends (_prepare).
THEOREM AnyNumberOfWorkers ==
  ASSUME NoCircle
  PROVE  Spec => []NoStarvation
<1>1. OrderInv /\ QueueInv /\ [Next]_vars => QueueInv'
  BY QueueStep
<1>2. OrderInv /\ QueueInv => NoStarvation
  <2> SUFFICES ASSUME OrderInv, QueueInv, NEW w \in Workers, pc[w] \in {"checks", "waits", "asleep"},
                      NEW p \in Parents[task[w]]
               PROVE  Ended(p) \/ \E v \in Workers : task[v] = p
    BY DEF NoStarvation
  <2>1. task[w] \in Tasks /\ status[task[w]] = "WAITING"
    BY DEF OrderInv, OwnTask, Progress
  <2>2. p \in Tasks /\ status[p] # "READY"
    BY <2>1, ParentOfStart DEF QueueInv, ParentsTaken
  <2>3. status[p] \in {"WAITING", "WORKING", "SUCCESS", "FAILURE"}
    BY <2>2 DEF OrderInv, TypeOK
  <2> QED BY <2>2, <2>3 DEF Ended, QueueInv, InHands
<1> QED BY <1>1, <1>2, QueueInit, OrderAlways, PTL DEF Spec
=============================================================================
