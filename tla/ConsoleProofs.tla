--------------------------- MODULE ConsoleProofs ----------------------------
(***************************************************************************)
(* A call of Freeline, as its user sees it.                                *)
(*                                                                         *)
(* It is answered, for any number of messages and on any platform.  CallInv*)
(* says how far the call has come: a second clean build is never started   *)
(* because the first one raises nothing that asks for it, no footer is     *)
(* printed before the worker has been told to stop, and every message is   *)
(* printed, taken by the worker or in its queue.                           *)
(*                                                                         *)
(* The screen is clean, however many rows it has, tasks and messages there *)
(* are, and names and blocks are combined.  LogInv says where the cursor   *)
(* and the saved row are at each step of the two threads and which rows    *)
(* are blank, as long as nothing named in trouble has happened; TtyInv     *)
(* says what a block remembers of the terminal and which block will undo   *)
(* each change.                                                            *)
(***************************************************************************)
EXTENDS MCConsole, FiniteSetTheorems, SequenceTheorems, TLAPS

Answering == {"scan", "clean_all_cache"} \cup {Call!CleanBuild[j] : j \in 1..5} \cup {"execute_incremental_build"}
Ends == {"done", "KeyboardInterrupt", "other", "Freeline"}

\* TypeOK, with the two lists it only tells the elements of.
CallTypes == Call!TypeOK /\ todo \in Seq(Answering) /\ footers \in Seq(Ends)

\* The clean build that answers another build is not answered itself.
OneRetry ==
  /\ handlers \in {<<>>, <<TRUE>>}
  /\ callMain = "calls" => handlers = <<>>
  /\ callMain = "resets" => handlers = <<TRUE>>
  /\ handlers # <<>> /\ callMain # "resets" =>
       /\ callRaised \notin Call!Retried
       /\ \A i \in DOMAIN todo : todo[i] \notin {"scan", "execute_incremental_build"}

\* How far the call has come.
Progress ==
  /\ callMain \in {"calls", "executes", "resets", "stops", "waits", "prints", "exited"} => footers = <<>>
  /\ callMain = "returns" => footers # <<>>
  /\ callMain = "ended" => footers # <<>> \/ "version" \in args
  /\ callStop => callMain \in {"waits", "prints", "returns", "ended"}
  /\ callMain \in {"waits", "prints", "returns"} => callStop
  /\ callMain \notin {"executes", "resets"} => callRaised \notin Call!Retried
  /\ Len(footers) <= 1
  /\ footers # <<>> => callStop /\ footers[1] = (IF callRaised = "nothing" THEN "done" ELSE callRaised)

\* What the worker does when.
WorkerRuns ==
  /\ callMain \in {"calls", "exited"} \/ "version" \in args => callWorker \in {"new", "dead"}
  /\ callMain = "calls" => callWorker = "new"
  /\ callWorker \in {"flushes", "flushPrints", "ended"} => callStop
  /\ callWorker \in {"gets", "prints", "flushes", "flushPrints"} => debuggable
  /\ callMain = "prints" /\ ~debuggable => callWorker \in {"new", "ended", "dead"}
  /\ footers # <<>> /\ ~debuggable => callWorker \in {"new", "ended", "dead"}
  /\ callWorker \in {"new", "tests", "gets", "updates", "flushes", "ended"} => taken = <<>>
  /\ callWorker = "ended" /\ debuggable => queue = <<>>

\* What has been said is in the backup until the error log has it.
Kept ==
  /\ callMain \in {"calls", "executes", "resets"} => backup = Call!Numbers(said)
  /\ Call!ErrorLogIsWhole

CallInv == CallTypes /\ OneRetry /\ Progress /\ WorkerRuns /\ Kept /\ Call!PrintedInOrder

-----------------------------------------------------------------------------
(* Messages *)

LEMMA NumbersGrow ==
  ASSUME NEW n \in Nat
  PROVE  Call!Numbers(n) \in Seq(1..n) /\ Append(Call!Numbers(n), n + 1) = Call!Numbers(n + 1)
<1>1. Call!Numbers(n) \in Seq(1..n) /\ Len(Call!Numbers(n)) = n
  BY DEF Call!Numbers
<1> QED BY <1>1 DEF Call!Numbers

\* A message that is logged comes behind all the others.
LEMMA LoggedLast ==
  ASSUME NEW S, NEW p \in Seq(S), NEW t \in Seq(S), NEW q \in Seq(S), NEW m \in S
  PROVE  p \o t \o Append(q, m) = Append(p \o t \o q, m)
<1>1. p \o t \in Seq(S)
  BY ConcatProperties
<1>2. Append(q, m) = q \o <<m>> /\ Append(p \o t \o q, m) = (p \o t \o q) \o <<m>>
  BY <1>1, ConcatProperties, AppendIsConcat
<1> QED BY <1>1, <1>2, ConcatAssociative

\* The worker takes the first one of the queue, and prints what it has taken.
LEMMA TakenFirst ==
  ASSUME NEW S, NEW p \in Seq(S), NEW q \in Seq(S), q # <<>>
  PROVE  /\ p \o <<Head(q)>> \o Tail(q) = p \o <<>> \o q
         /\ <<Head(q)>> \in Seq(S) /\ Len(<<Head(q)>>) = 1 /\ Tail(q) \in Seq(S)
<1>1. Head(q) \in S /\ Tail(q) \in Seq(S) /\ <<Head(q)>> \in Seq(S)
  BY HeadTailProperties
<1>2. q = <<Head(q)>> \o Tail(q)
  <2>1. q \in Seq(S) /\ Len(q) >= 1
    BY EmptySeq
  <2> QED BY <2>1, <1>1
<1>3. p \o <<Head(q)>> \o Tail(q) = p \o q
  BY <1>1, <1>2, ConcatAssociative
<1> QED BY <1>1, <1>3, ConcatEmptySeq

LEMMA PrintedNext ==
  ASSUME NEW S, NEW p \in Seq(S), NEW t \in Seq(S), NEW q \in Seq(S)
  PROVE  (p \o t) \o <<>> \o q = p \o t \o q /\ p \o t \in Seq(S)
<1>1. p \o t \in Seq(S)
  BY ConcatProperties
<1> QED BY <1>1, ConcatEmptySeq

-----------------------------------------------------------------------------
(* Commands *)

LEMMA CommandsAnswer ==
  /\ Call!CleanBuild \in Seq(Answering) /\ Call!IncrementalBuild \in Seq(Answering)
  /\ <<"scan">> \in Seq(Answering) /\ <<"clean_all_cache">> \in Seq(Answering)
  /\ \A i \in DOMAIN Call!CleanBuild : Call!CleanBuild[i] \notin {"scan", "execute_incremental_build"}
<1>1. Answering = {"scan", "clean_all_cache", "check_build_environment", "find_dependencies_of_tasks",
                   "generate_build_tasks", "update_apk_created_time", "execute_clean_build",
                   "execute_incremental_build"}
  BY DEF Answering, Call!CleanBuild
<1> QED BY <1>1 DEF Call!CleanBuild, Call!IncrementalBuild

LEMMA RestAnswers ==
  ASSUME NEW l \in Seq(Answering), l # <<>>
  PROVE  /\ Head(l) \in Answering /\ 1 \in DOMAIN l /\ l[1] = Head(l)
         /\ Tail(l) \in Seq(Answering)
         /\ \A i \in DOMAIN Tail(l) : i + 1 \in DOMAIN l /\ Tail(l)[i] = l[i + 1]
<1>1. Len(l) \in Nat \ {0} /\ DOMAIN l = 1..Len(l)
  BY EmptySeq, LenProperties
<1>2. Tail(l) \in Seq(Answering) /\ DOMAIN Tail(l) = 1..Len(Tail(l)) /\ Len(Tail(l)) = Len(l) - 1
  BY HeadTailProperties, LenProperties
<1> QED BY <1>1, <1>2, HeadTailProperties

\* Only what asks for a clean build, and only from the two that may ask.
LEMMA RaisesKnown ==
  ASSUME NEW c
  PROVE  /\ Call!Raises(c) \subseteq {"KeyboardInterrupt", "other", "Freeline"} \cup Call!Retried
         /\ c \notin {"scan", "execute_incremental_build"} =>
              Call!Raises(c) \subseteq {"KeyboardInterrupt", "other", "Freeline"}
BY DEF Call!Raises, Call!Retried

-----------------------------------------------------------------------------
(* Dispatcher *)

LEMMA CallBegins == Call!Init => CallInv
<1> SUFFICES ASSUME Call!Init PROVE CallInv
  OBVIOUS
<1> USE DEF Call!Init
<1>1. CallTypes
  <2>1. /\ todo \in Seq(Answering) /\ footers \in Seq(Ends) /\ handlers \in Seq(BOOLEAN)
        /\ \A S : <<>> \in Seq(S)
        /\ DOMAIN todo = {} /\ DOMAIN footers = {} /\ Len(taken) = 0
    OBVIOUS
  <2>2. said \in 0..MaxMessages
    BY PartsAssumption DEF Call!DispatcherAssumption
  <2>3. \A i \in DOMAIN todo : todo[i] \in Answering
    BY <2>1
  <2>4. \A i \in DOMAIN footers : footers[i] \in Ends
    BY <2>1
  <2>5. queue \in Seq(1..MaxMessages) /\ backup \in Seq(1..MaxMessages) /\ taken \in Seq(1..MaxMessages)
        /\ printed \in Seq(1..MaxMessages) /\ errorLog \in Seq(1..MaxMessages) /\ Len(taken) <= 1
    BY <2>1
  <2> QED BY <2>1, <2>2, <2>3, <2>4, <2>5 DEF CallTypes, Call!TypeOK, Answering, Ends
<1>2. OneRetry /\ Progress /\ WorkerRuns
  BY DEF OneRetry, Progress, WorkerRuns, Call!Retried
<1>3. Kept /\ Call!PrintedInOrder
  BY DEF Kept, Call!ErrorLogIsWhole, Call!PrintedInOrder, Call!Numbers
<1> QED BY <1>1, <1>2, <1>3 DEF CallInv

\* The main thread goes on and leaves the messages alone.
LEMMA MessagesRest ==
  ASSUME CallInv, UNCHANGED <<queue, said, taken, printed>>
  PROVE  Call!PrintedInOrder'
BY DEF CallInv, Call!PrintedInOrder, Call!Numbers

LEMMA CallCommandStep == ASSUME CallInv, Call!CallCommand PROVE CallInv'
<1> USE DEF Call!CallCommand, Call!log
<1>1. CallTypes'
  <2>1. todo' \in Seq(Answering)
    BY CommandsAnswer DEF CallInv, CallTypes, Call!Commands
  <2>2. \A i \in DOMAIN todo' : todo'[i] \in Answering
    BY <2>1
  <2>3. debuggable' \in BOOLEAN
    OBVIOUS
  <2> QED BY <2>1, <2>2, <2>3 DEF CallInv, CallTypes, Call!TypeOK, Answering
<1>2. OneRetry'
  BY DEF CallInv, OneRetry, Progress, CallTypes, Call!TypeOK
<1>3. Progress'
  BY DEF CallInv, Progress
<1>4. WorkerRuns'
  BY DEF CallInv, WorkerRuns, Progress
<1>5. Kept'
  BY DEF CallInv, Kept, Call!Numbers, Call!ErrorLogIsWhole
<1>6. Call!PrintedInOrder'
  BY MessagesRest
<1> QED BY <1>1, <1>2, <1>3, <1>4, <1>5, <1>6 DEF CallInv

LEMMA NoConfigStep == ASSUME CallInv, Call!NoConfig PROVE CallInv'
<1> USE DEF Call!NoConfig, Call!log, Call!thread
<1>1. CallTypes'
  BY DEF CallInv, CallTypes, Call!TypeOK
<1>2. OneRetry' /\ Progress' /\ WorkerRuns'
  BY DEF CallInv, OneRetry, Progress, WorkerRuns
<1>3. Kept' /\ Call!PrintedInOrder'
  BY MessagesRest DEF CallInv, Kept, Call!Numbers, Call!ErrorLogIsWhole
<1> QED BY <1>1, <1>2, <1>3 DEF CallInv

\* What a message that is logged changes.
LEMMA SayKeeps ==
  ASSUME CallInv, Call!Say, UNCHANGED <<taken, printed>>
  PROVE  /\ queue' \in Seq(1..MaxMessages) /\ backup' \in Seq(1..MaxMessages) /\ said' \in 0..MaxMessages
         /\ Call!PrintedInOrder'
         /\ backup = Call!Numbers(said) => (backup = Call!Numbers(said))'
<1> DEFINE S == 1..MaxMessages
<1>1. MaxMessages \in Nat /\ said \in Nat /\ said + 1 \in S
  BY PartsAssumption DEF Call!DispatcherAssumption, Call!Say, CallInv, CallTypes, Call!TypeOK
<1>2. queue \in Seq(S) /\ backup \in Seq(S) /\ taken \in Seq(S) /\ printed \in Seq(S)
  BY DEF CallInv, CallTypes, Call!TypeOK
<1>3. /\ queue' = Append(queue, said + 1) /\ backup' = Append(backup, said + 1) /\ said' = said + 1
  BY DEF Call!Say
<1> HIDE DEF S
<1>4. printed \o taken \o queue' = Append(printed \o taken \o queue, said + 1)
  <2>1. said + 1 \in S /\ printed \in Seq(S) /\ taken \in Seq(S) /\ queue \in Seq(S)
    BY <1>1, <1>2
  <2>2. printed \o taken \o Append(queue, said + 1) = Append(printed \o taken \o queue, said + 1)
    BY ONLY <2>1, LoggedLast
  <2> QED BY <2>2, <1>3
<1>5. printed \o taken \o queue = Call!Numbers(said)
  BY DEF CallInv, Call!PrintedInOrder
<1>6. Call!Numbers(said') = Append(Call!Numbers(said), said + 1)
  BY <1>1, <1>3, NumbersGrow
<1>7. printed \o taken \o queue' = Call!Numbers(said')
  BY <1>4, <1>5, <1>6
<1>8. queue' \in Seq(S) /\ backup' \in Seq(S)
  BY <1>1, <1>2, <1>3, AppendProperties
<1>9. said' \in 0..MaxMessages
  BY <1>1, <1>3 DEF S
<1>10. (Call!Numbers(said))' = Call!Numbers(said')
  BY DEF Call!Numbers
<1>11. Call!PrintedInOrder'
  BY <1>7, <1>10 DEF Call!PrintedInOrder
<1> QED BY <1>3, <1>6, <1>8, <1>9, <1>10, <1>11 DEF S

LEMMA LogStep == ASSUME CallInv, Call!Log PROVE CallInv'
<1> USE DEF Call!Log, Call!thread
<1>1. CallTypes'
  BY SayKeeps DEF CallInv, CallTypes, Call!TypeOK
<1>2. OneRetry' /\ Progress'
  BY DEF CallInv, OneRetry, Progress
<1>3. WorkerRuns'
  BY DEF CallInv, WorkerRuns, Progress
<1>4. Kept' /\ Call!PrintedInOrder'
  BY SayKeeps DEF CallInv, Kept, Call!ErrorLogIsWhole
<1> QED BY <1>1, <1>2, <1>3, <1>4 DEF CallInv

LEMMA ExecuteStep == ASSUME CallInv, Call!Execute PROVE CallInv'
<1> USE DEF Call!Execute, Call!log, Call!thread
<1>1. todo \in Seq(Answering) /\ todo # <<>>
  BY DEF CallInv, CallTypes
<1>2. todo' \in Seq(Answering)
  BY <1>1, CommandsAnswer, RestAnswers DEF Call!Remaining
<1>3. CallTypes'
  <2>1. \A i \in DOMAIN todo' : todo'[i] \in Answering
    BY <1>2
  <2> QED BY <1>2, <2>1 DEF CallInv, CallTypes, Call!TypeOK, Answering
<1>4. OneRetry'
  <2>1. ASSUME handlers # <<>> PROVE \A i \in DOMAIN todo' : todo'[i] \notin {"scan", "execute_incremental_build"}
    <3>1. Head(todo) # "scan"
      BY <1>1, <2>1, RestAnswers DEF CallInv, OneRetry
    <3>2. todo' = Tail(todo)
      BY <3>1 DEF Call!Remaining
    <3> QED BY <1>1, <2>1, <3>2, RestAnswers DEF CallInv, OneRetry
  <2> QED BY <2>1 DEF CallInv, OneRetry
<1>5. Progress' /\ WorkerRuns'
  BY DEF CallInv, Progress, WorkerRuns
<1>6. Kept' /\ Call!PrintedInOrder'
  BY MessagesRest DEF CallInv, Kept, Call!Numbers, Call!ErrorLogIsWhole
<1> QED BY <1>3, <1>4, <1>5, <1>6 DEF CallInv

LEMMA ExecuteRaisesStep == ASSUME CallInv, Call!ExecuteRaises PROVE CallInv'
<1> USE DEF Call!ExecuteRaises, Call!log, Call!thread
<1>1. todo \in Seq(Answering) /\ todo # <<>>
  BY DEF CallInv, CallTypes
<1>2. callRaised' \in {"KeyboardInterrupt", "other", "Freeline"} \cup Call!Retried
  BY RaisesKnown
<1>3. CallTypes'
  BY <1>2 DEF CallInv, CallTypes, Call!TypeOK
<1>4. OneRetry'
  <2>1. ASSUME handlers # <<>> PROVE callRaised' \notin Call!Retried
    <3>1. Head(todo) \notin {"scan", "execute_incremental_build"}
      BY <1>1, <2>1, RestAnswers DEF CallInv, OneRetry
    <3>2. callRaised' \in {"KeyboardInterrupt", "other", "Freeline"}
      BY <3>1, RaisesKnown
    <3> QED BY <3>2 DEF Call!Retried
  <2> QED BY <2>1 DEF CallInv, OneRetry
<1>5. Progress' /\ WorkerRuns'
  BY DEF CallInv, Progress, WorkerRuns
<1>6. Kept' /\ Call!PrintedInOrder'
  BY MessagesRest DEF CallInv, Kept, Call!Numbers, Call!ErrorLogIsWhole
<1> QED BY <1>3, <1>4, <1>5, <1>6 DEF CallInv

LEMMA ExecEndsStep == ASSUME CallInv, Call!ExecEnds PROVE CallInv'
<1> USE DEF Call!ExecEnds, Call!thread
<1>1. handlers \in {<<>>, <<TRUE>>} /\ (callRaised \in Call!Retried => handlers = <<>>)
  BY DEF CallInv, OneRetry
<1>2. handlers' \in {<<>>, <<TRUE>>} /\ (callMain' = "resets" => handlers' = <<TRUE>>)
  <2>1. Append(<<>>, TRUE) = <<TRUE>>
    BY Append(<<>>, TRUE) \in Seq(BOOLEAN), Len(Append(<<>>, TRUE)) = 1, Append(<<>>, TRUE)[1] = TRUE
  <2> QED BY <1>1, <2>1
<1>3. backup = Call!Numbers(said) /\ backup \in Seq(1..MaxMessages)
  BY DEF CallInv, Kept, CallTypes, Call!TypeOK
<1>4. CallTypes'
  <2>1. handlers' \in Seq(BOOLEAN)
    <3>1. <<>> \in Seq(BOOLEAN) /\ <<TRUE>> \in Seq(BOOLEAN)
      OBVIOUS
    <3> QED BY <1>2, <3>1
  <2>2. backup' \in Seq(1..MaxMessages) /\ errorLog' \in Seq(1..MaxMessages)
    BY <1>3, EmptySeq DEF CallInv, CallTypes, Call!TypeOK, Call!WriteErrorLog
  <2> QED BY <2>1, <2>2 DEF CallInv, CallTypes, Call!TypeOK
<1>5. OneRetry'
  BY <1>2 DEF CallInv, OneRetry
<1>6. Progress' /\ WorkerRuns'
  BY DEF CallInv, Progress, WorkerRuns
<1>7. Kept'
  BY <1>3 DEF Kept, Call!Numbers, Call!ErrorLogIsWhole, Call!WriteErrorLog, Call!Retried
<1>8. Call!PrintedInOrder'
  BY MessagesRest
<1> QED BY <1>4, <1>5, <1>6, <1>7, <1>8 DEF CallInv

LEMMA RetryCleanBuildStep == ASSUME CallInv, Call!RetryCleanBuild PROVE CallInv'
<1> USE DEF Call!RetryCleanBuild, Call!thread, Call!log
<1>1. /\ queue' \in Seq(1..MaxMessages) /\ backup' \in Seq(1..MaxMessages) /\ said' \in 0..MaxMessages
      /\ Call!PrintedInOrder' /\ (backup = Call!Numbers(said))'
  <2>1. CASE Call!Say
    BY <2>1, SayKeeps DEF CallInv, Kept
  <2>2. CASE UNCHANGED Call!log
    BY <2>2, MessagesRest DEF CallInv, CallTypes, Call!TypeOK, Kept, Call!Numbers
  <2> QED BY <2>1, <2>2
<1>2. CallTypes'
  <2>1. todo' \in Seq(Answering)
    BY CommandsAnswer
  <2>2. \A i \in DOMAIN todo' : todo'[i] \in Answering
    BY <2>1
  <2> QED BY <1>1, <2>1, <2>2 DEF CallInv, CallTypes, Call!TypeOK, Answering
<1>3. OneRetry'
  BY CommandsAnswer DEF CallInv, OneRetry, Call!Retried
<1>4. Progress' /\ WorkerRuns'
  BY DEF CallInv, Progress, WorkerRuns
<1>5. Kept'
  BY <1>1 DEF Kept, Call!ErrorLogIsWhole
<1> QED BY <1>1, <1>2, <1>3, <1>4, <1>5 DEF CallInv

LEMMA SetStopStep == ASSUME CallInv, Call!SetStop PROVE CallInv'
<1> USE DEF Call!SetStop, Call!thread, Call!log
<1>1. CallTypes'
  BY DEF CallInv, CallTypes, Call!TypeOK
<1>2. OneRetry' /\ Progress' /\ WorkerRuns'
  BY DEF CallInv, OneRetry, Progress, WorkerRuns
<1>3. Kept' /\ Call!PrintedInOrder'
  BY MessagesRest DEF CallInv, Kept, Call!Numbers, Call!ErrorLogIsWhole
<1> QED BY <1>1, <1>2, <1>3 DEF CallInv

LEMMA JoinStep == ASSUME CallInv, Call!Join PROVE CallInv'
<1> USE DEF Call!Join, Call!thread, Call!log
<1>1. CallTypes'
  BY DEF CallInv, CallTypes, Call!TypeOK
<1>2. OneRetry' /\ Progress'
  BY DEF CallInv, OneRetry, Progress
<1>3. WorkerRuns'
  BY DEF CallInv, WorkerRuns
<1>4. Kept' /\ Call!PrintedInOrder'
  BY MessagesRest DEF CallInv, Kept, Call!Numbers, Call!ErrorLogIsWhole
<1> QED BY <1>1, <1>2, <1>3, <1>4 DEF CallInv

LEMMA PrintFooterStep == ASSUME CallInv, Call!PrintFooter PROVE CallInv'
<1> USE DEF Call!PrintFooter, Call!thread, Call!log
<1> DEFINE e == IF callRaised = "nothing" THEN "done" ELSE callRaised
<1>1. footers = <<>> /\ e \in Ends
  BY DEF CallInv, CallTypes, Call!TypeOK, Progress, Ends
<1>2. footers' = <<e>> /\ footers' \in Seq(Ends) /\ Len(footers') = 1 /\ footers'[1] = e
  <2> HIDE DEF e
  <2>1. footers' = Append(<<>>, e) /\ Append(<<>>, e) = <<e>>
    BY <1>1 DEF e
  <2> QED BY <1>1, <2>1
<1>3. CallTypes'
  <2>1. \A i \in DOMAIN footers' : footers'[i] \in Ends
    BY <1>2
  <2> QED BY <1>2, <2>1 DEF CallInv, CallTypes, Call!TypeOK, Ends
<1>4. OneRetry'
  BY DEF CallInv, OneRetry
<1>5. Progress' /\ WorkerRuns'
  BY <1>2 DEF CallInv, Progress, WorkerRuns
<1>6. Kept' /\ Call!PrintedInOrder'
  BY MessagesRest DEF CallInv, Kept, Call!Numbers, Call!ErrorLogIsWhole
<1> QED BY <1>3, <1>4, <1>5, <1>6 DEF CallInv

LEMMA ReturnStep == ASSUME CallInv, Call!Return PROVE CallInv'
<1> USE DEF Call!Return, Call!log
<1>1. handlers \in {<<>>, <<TRUE>>}
  BY DEF CallInv, OneRetry
<1>2. ASSUME handlers = <<TRUE>> PROVE handlers' = <<>> /\ callMain' = "returns" /\ UNCHANGED callWorker
  <2>1. Len(<<TRUE>>) = 1 /\ <<TRUE>>[1] = TRUE /\ SubSeq(<<TRUE>>, 1, 0) = <<>> /\ <<TRUE>> # <<>>
    OBVIOUS
  <2> QED BY <1>2, <2>1
<1>3. CallTypes'
  BY <1>1, <1>2, EmptySeq DEF CallInv, CallTypes, Call!TypeOK
<1>4. OneRetry' /\ Progress' /\ WorkerRuns'
  BY <1>1, <1>2 DEF CallInv, OneRetry, Progress, WorkerRuns
<1>5. Kept'
  BY <1>1, <1>2 DEF CallInv, Kept, Call!Numbers, Call!ErrorLogIsWhole
<1>6. Call!PrintedInOrder'
  BY MessagesRest
<1> QED BY <1>3, <1>4, <1>5, <1>6 DEF CallInv

\* The worker goes on: the call is where it was.
LEMMA WorkerStays ==
  ASSUME CallInv, NEW from, NEW to, Call!Worker(from, to)
  PROVE  OneRetry' /\ Progress' /\ Kept'
BY DEF Call!Worker, CallInv, OneRetry, Progress, Kept, Call!Numbers, Call!ErrorLogIsWhole

LEMMA TestStopStep == ASSUME CallInv, Call!TestStop PROVE CallInv'
<1> DEFINE to == IF callStop THEN (IF debuggable THEN "flushes" ELSE "ended")
                 ELSE IF debuggable THEN "gets" ELSE "updates"
<1>1. Call!Worker("tests", to) /\ UNCHANGED <<queue, taken, printed>>
  BY DEF Call!TestStop
<1>2. CallTypes' /\ WorkerRuns'
  BY <1>1 DEF CallInv, CallTypes, Call!TypeOK, WorkerRuns, Call!Worker
<1>3. Call!PrintedInOrder'
  BY <1>1, MessagesRest DEF Call!Worker
<1> QED BY <1>1, <1>2, <1>3, WorkerStays DEF CallInv

\* Get, and Flush with messages left.
LEMMA TakeStep ==
  ASSUME CallInv, queue # <<>>, taken' = <<Head(queue)>>, queue' = Tail(queue), UNCHANGED printed,
         Call!Worker("gets", "prints") \/ Call!Worker("flushes", "flushPrints")
  PROVE  CallInv'
<1>1. /\ queue \in Seq(1..MaxMessages) /\ printed \in Seq(1..MaxMessages) /\ taken = <<>>
      /\ UNCHANGED <<said, callMain, callStop, debuggable, args, footers>>
  BY DEF CallInv, CallTypes, Call!TypeOK, WorkerRuns, Call!Worker
<1>2. /\ printed' \o taken' \o queue' = printed \o taken \o queue
      /\ taken' \in Seq(1..MaxMessages) /\ Len(taken') = 1 /\ queue' \in Seq(1..MaxMessages)
  BY <1>1, TakenFirst
<1>3. CallTypes'
  <2>1. callWorker' \in {"prints", "flushPrints"} /\ Len(taken') <= 1
    BY <1>2 DEF Call!Worker
  <2> QED BY <1>2, <2>1 DEF CallInv, CallTypes, Call!TypeOK, Call!Worker
<1>4. WorkerRuns'
  BY <1>1 DEF CallInv, WorkerRuns, Call!Worker
<1>5. Call!PrintedInOrder'
  BY <1>1, <1>2 DEF CallInv, Call!PrintedInOrder, Call!Numbers
<1> QED BY <1>3, <1>4, <1>5, WorkerStays DEF CallInv

\* PrintMessage, and what flush_debug_messages prints.
LEMMA PrintStep ==
  ASSUME CallInv, printed' = printed \o taken, taken' = <<>>, UNCHANGED queue,
         Call!Worker("prints", "tests") \/ Call!Worker("flushPrints", "flushes")
  PROVE  CallInv'
<1>1. /\ queue \in Seq(1..MaxMessages) /\ printed \in Seq(1..MaxMessages) /\ taken \in Seq(1..MaxMessages)
      /\ UNCHANGED <<said, callMain, callStop, debuggable, args, footers>>
  BY DEF CallInv, CallTypes, Call!TypeOK, Call!Worker
<1>2. /\ printed' \o taken' \o queue' = printed \o taken \o queue
      /\ printed' \in Seq(1..MaxMessages) /\ taken' \in Seq(1..MaxMessages) /\ Len(taken') = 0
  BY <1>1, PrintedNext, EmptySeq
<1>3. CallTypes'
  <2>1. callWorker' \in {"tests", "flushes"} /\ Len(taken') <= 1
    BY <1>2 DEF Call!Worker
  <2> QED BY <1>2, <2>1 DEF CallInv, CallTypes, Call!TypeOK, Call!Worker
<1>4. WorkerRuns'
  BY <1>1 DEF CallInv, WorkerRuns, Call!Worker
<1>5. Call!PrintedInOrder'
  BY <1>1, <1>2 DEF CallInv, Call!PrintedInOrder, Call!Numbers
<1> QED BY <1>3, <1>4, <1>5, WorkerStays DEF CallInv

LEMMA WorkerStep == ASSUME CallInv, Call!WorkerStep PROVE CallInv'
<1>1. CASE Call!TestStop
  BY <1>1, TestStopStep
<1>2. CASE Call!Get
  BY <1>2, TakeStep DEF Call!Get
<1>3. CASE Call!PrintMessage
  BY <1>3, PrintStep DEF Call!PrintMessage
<1>4. ASSUME Call!Worker("updates", "tests") \/ (queue = <<>> /\ Call!Worker("flushes", "ended")),
             UNCHANGED <<queue, taken, printed>>
      PROVE  CallInv'
  <2>1. CallTypes' /\ WorkerRuns'
    BY <1>4 DEF CallInv, CallTypes, Call!TypeOK, WorkerRuns, Call!Worker
  <2>2. Call!PrintedInOrder'
    BY <1>4, MessagesRest DEF Call!Worker
  <2> QED BY <1>4, <2>1, <2>2, WorkerStays DEF CallInv
<1>5. CASE Call!Update
  BY <1>4, <1>5 DEF Call!Update
<1>6. CASE Call!Flush
  BY <1>4, <1>6, TakeStep, PrintStep DEF Call!Flush
<1> QED BY <1>1, <1>2, <1>3, <1>5, <1>6 DEF Call!WorkerStep

LEMMA CallStep == ASSUME CallInv, [Call!Next]_callVars PROVE CallInv'
<1>1. CASE Call!MainStep
  BY <1>1, CallCommandStep, NoConfigStep, ExecuteStep, ExecEndsStep, RetryCleanBuildStep, SetStopStep,
     JoinStep, PrintFooterStep, ReturnStep DEF Call!MainStep
<1>2. CASE UNCHANGED callVars
  <2>1. CallTypes'
    BY <1>2 DEF callVars, CallInv, CallTypes, Call!TypeOK
  <2>2. OneRetry' /\ Progress' /\ WorkerRuns'
    BY <1>2 DEF callVars, CallInv, OneRetry, Progress, WorkerRuns
  <2>3. Kept' /\ Call!PrintedInOrder'
    BY <1>2, MessagesRest DEF callVars, CallInv, Kept, Call!Numbers, Call!ErrorLogIsWhole
  <2> QED BY <2>1, <2>2, <2>3 DEF CallInv
<1> QED BY <1>1, <1>2, LogStep, ExecuteRaisesStep, WorkerStep DEF Call!Next

LEMMA CallInvSuffices ==
  ASSUME CallInv
  PROVE  /\ Call!TypeOK /\ Call!RetriesOnce /\ Call!OneFooterAtTheEnd
         /\ Call!PrintedInOrder /\ Call!WorkerLeavesNothing /\ Call!ErrorLogIsWhole
<1>1. Call!TypeOK /\ Call!PrintedInOrder /\ Call!ErrorLogIsWhole
  BY DEF CallInv, CallTypes, Kept
<1>2. Call!RetriesOnce
  <2>1. Len(<<>>) <= 1 /\ Len(<<TRUE>>) <= 1
    OBVIOUS
  <2>2. handlers \in {<<>>, <<TRUE>>} /\ (handlers # <<>> => callRaised \notin Call!Retried \/ callMain = "resets")
    BY DEF CallInv, OneRetry
  <2> QED BY <2>1, <2>2 DEF Call!RetriesOnce
<1>3. Call!OneFooterAtTheEnd
  BY DEF CallInv, Progress, WorkerRuns, Call!OneFooterAtTheEnd
<1>4. Call!WorkerLeavesNothing
  <2> SUFFICES ASSUME callWorker = "ended", debuggable PROVE printed = Call!Numbers(said)
    BY DEF Call!WorkerLeavesNothing
  <2>1. printed \in Seq(1..MaxMessages) /\ taken = <<>> /\ queue = <<>>
    BY DEF CallInv, CallTypes, Call!TypeOK, WorkerRuns
  <2>2. printed \o taken \o queue = printed
    BY <2>1, ConcatEmptySeq
  <2> QED BY <2>2 DEF CallInv, Call!PrintedInOrder
<1> QED BY <1>1, <1>2, <1>3, <1>4

-----------------------------------------------------------------------------
\* dispatcher.py:97-145, logger.py:31-42, 121-148 - a failed check costs at most one more
\* clean build; the call ends with one footer, of the build that was last, after the worker
\* has stopped; messages are printed in their order, none twice and none left out before a
\* printed one; the error log has all of them.  However many messages there are, in debug
\* mode or not, and on Windows as elsewhere.
THEOREM EveryCallIsAnswered == ConsoleSpec => []CallIsAnswered
<1> DEFINE Inv == part = "call" => CallInv
<1>1. ConsoleInit => Inv
  BY CallBegins DEF ConsoleInit
<1>2. Inv /\ [ConsoleNext]_consoleVars => Inv'
  <2> SUFFICES ASSUME part' = "call", Inv, [ConsoleNext]_consoleVars PROVE CallInv'
    OBVIOUS
  <2>1. part = "call" /\ [Call!Next]_callVars
    BY DEF ConsoleNext, consoleVars
  <2> QED BY <2>1, CallStep
<1>3. Inv => CallIsAnswered
  BY CallInvSuffices DEF CallIsAnswered
<1> QED BY <1>1, <1>2, <1>3, PTL DEF ConsoleSpec

-----------------------------------------------------------------------------
\* The log on the screen: runs of a recursive definition, the rows of the screen, the invariant.

-----------------------------------------------------------------------------
(***************************************************************************)
(* Recursive functions on 0..n: there is one, and induction over it.       *)
(***************************************************************************)
\* Every set of numbers that is not empty has a least one.
LEMMA LeastNat ==
  ASSUME NEW S \in SUBSET Nat, S # {}
  PROVE  \E k \in S : \A l \in S : k <= l
<1> DEFINE T == {0..k : k \in S}
<1>1. \A k \in S : 0..k \in FiniteSubsetsOf(Nat)
  <2> SUFFICES ASSUME NEW k \in S PROVE 0..k \in FiniteSubsetsOf(Nat)
    OBVIOUS
  <2>1. IsFiniteSet(0..k)
    BY FS_Interval
  <2> QED BY <2>1 DEF FiniteSubsetsOf
<1>2. PICK t \in T : \A u \in T : ~(<<u, t>> \in StrictSubsetOrdering(Nat))
  <2>1. T \subseteq FiniteSubsetsOf(Nat) /\ T # {}
    BY <1>1
  <2>2. IsWellFoundedOn(StrictSubsetOrdering(Nat), FiniteSubsetsOf(Nat))
    BY FS_StrictSubsetOrderingWellFounded
  <2> HIDE DEF T
  <2> QED BY <2>1, <2>2, WFMin
<1>3. PICK k \in S : t = 0..k
  OBVIOUS
<1>4. ASSUME NEW l \in S PROVE k <= l
  <2>1. 0..l \in T
    OBVIOUS
  <2>2. ~(<<0..l, 0..k>> \in StrictSubsetOrdering(Nat))
    BY <1>2, <1>3, <2>1
  <2>3. k \in Nat /\ l \in Nat
    OBVIOUS
  <2>4. 0..l \subseteq Nat /\ 0..k \subseteq Nat
    OBVIOUS
  <2>5. ~(0..l \subseteq 0..k /\ 0..l # 0..k)
    BY <2>2, <2>4 DEF StrictSubsetOrdering
  <2>6. CASE l < k
    <3>1. 0..l \subseteq 0..k /\ k \in 0..k /\ k \notin 0..l
      BY <2>3, <2>6
    <3> QED BY <2>5, <3>1
  <2> QED BY <2>3, <2>6
<1> QED BY <1>4

\* What holds of 0 and goes from each number to the next holds of all.
LEMMA Induction ==
  ASSUME NEW n \in Nat, NEW P, 0 \in P, \A i \in 1..n : i - 1 \in P => i \in P
  PROVE  \A i \in 0..n : i \in P
<1> DEFINE Bad == {i \in 0..n : i \notin P}
<1>1. CASE Bad # {}
  <2>1. PICK k \in Bad : \A l \in Bad : k <= l
    <3>1. Bad \in SUBSET Nat
      OBVIOUS
    <3> HIDE DEF Bad
    <3> QED BY <1>1, <3>1, LeastNat
  <2>2. k \in 0..n /\ k \notin P /\ k # 0
    OBVIOUS
  <2>3. k \in 1..n /\ k - 1 \in 0..n /\ ~(k <= k - 1)
    BY <2>2
  <2>4. k - 1 \in P
    BY <2>1, <2>3
  <2> QED BY <2>2, <2>3, <2>4
<1> QED BY <1>1

\* A function on 0..n that begins with a value and makes each of the next from the one
\* before it.
IsRun(g, n, S, base, step) ==
  g \in [0..n -> S] /\ g[0] = base /\ \A i \in 1..n : g[i] = step[i][g[i - 1]]

\* Such a function exists: the least argument that none reaches would have one before it.
LEMMA Recursion ==
  ASSUME NEW n \in Nat, NEW S, NEW base \in S, NEW step \in [1..n -> [S -> S]]
  PROVE  \E g : IsRun(g, n, S, base, step)
<1> DEFINE Runs(m) == {g \in [0..m -> S] : g[0] = base /\ \A i \in 1..m : g[i] = step[i][g[i - 1]]}
           P == {m \in 0..n : Runs(m) # {}}
<1>1. 0 \in P
  <2>1. [i \in 0..0 |-> base] \in Runs(0)
    OBVIOUS
  <2> QED BY <2>1
<1>2. ASSUME NEW m \in 1..n, m - 1 \in P PROVE m \in P
  <2>1. PICK g \in [0..(m - 1) -> S] : g[0] = base /\ \A k \in 1..(m - 1) : g[k] = step[k][g[k - 1]]
    BY <1>2
  <2> DEFINE h == [k \in 0..m |-> IF k = m THEN step[m][g[m - 1]] ELSE g[k]]
  <2>2. g[m - 1] \in S /\ step[m] \in [S -> S]
    BY <2>1
  <2>3. step[m][g[m - 1]] \in S
    BY <2>2
  <2>4. h \in [0..m -> S]
    BY <2>1, <2>3
  <2>5. h[0] = base
    BY <2>1
  <2>6. ASSUME NEW k \in 1..m PROVE h[k] = step[k][h[k - 1]]
    BY <2>1, <2>6
  <2> HIDE DEF h
  <2>7. h \in Runs(m)
    BY <2>4, <2>5, <2>6
  <2>8. m \in 0..n
    OBVIOUS
  <2> HIDE DEF Runs
  <2> QED BY <2>7, <2>8
<1> HIDE DEF P
<1>3. \A i \in 0..n : i \in P
  BY <1>1, <1>2, Induction
<1>4. n \in P
  BY <1>3
<1> QED BY <1>4 DEF P, IsRun

-----------------------------------------------------------------------------
(***************************************************************************)
(* The terminal: what its operations do to the row of the cursor, counted  *)
(* from the first there ever was, and to what each row shows.              *)
(***************************************************************************)
LineSet == {"info", "ended", "working", "footer", "blank", "user", "mixed"} \X Nat \X Nat
Screens == {s \in [rows : Seq(LineSet), top : Nat, cursor : 1..Height] : Len(s.rows) = s.top + Height}

Pos(s) == s.top + s.cursor
At(s, r) == IF r \in 1..Len(s.rows) THEN s.rows[r] ELSE Log!Blank

\* The rows scrolled away when the cursor goes down to row p.
TopAt(s, p) == IF p > s.top + Height THEN p - Height ELSE s.top

\* What is on a row.
LEMMA Lines == {Log!Blank, Log!User, Log!Mixed, Log!Footer} \subseteq LineSet
BY DEF LineSet, Log!Blank, Log!User, Log!Mixed, Log!Footer

\* A screen in numbers: its rows reach from the first one ever to the last one shown.
LEMMA ScreenIs ==
  ASSUME PartsAssumption, NEW s \in Screens
  PROVE  /\ s.rows \in Seq(LineSet) /\ s.top \in Nat /\ s.cursor \in Nat /\ Height \in Nat
         /\ 1 <= s.cursor /\ s.cursor <= Height
         /\ Len(s.rows) = s.top + Height /\ DOMAIN s.rows = 1..Len(s.rows)
         /\ Pos(s) \in Nat /\ Pos(s) \in 1..Len(s.rows)
<1>1. Height \in Nat
  BY DEF PartsAssumption, Log!ProgressAssumption
<1>2. s.rows \in Seq(LineSet) /\ s.top \in Nat /\ s.cursor \in 1..Height /\ Len(s.rows) = s.top + Height
  BY DEF Screens
<1> QED BY <1>1, <1>2 DEF Pos

\* The first row shown, one row further down.
LEMMA NextTop ==
  ASSUME PartsAssumption, NEW s \in Screens, NEW t, NEW i \in Nat \ {0},
         Pos(t) = Pos(s) + (i - 1), t.top = TopAt(s, Pos(s) + (i - 1))
  PROVE  Pos(t) + 1 = Pos(s) + i /\ TopAt(t, Pos(t) + 1) = TopAt(s, Pos(s) + i)
<1>1. \A p, u, h, k \in Nat : p <= u + h /\ k # 0 =>
        LET v == IF p + (k - 1) > u + h THEN (p + (k - 1)) - h ELSE u
        IN  /\ p + (k - 1) + 1 = p + k
            /\ (IF p + k > v + h THEN (p + k) - h ELSE v) = IF p + k > u + h THEN (p + k) - h ELSE u
  OBVIOUS
<1>2. Pos(s) \in Nat /\ s.top \in Nat /\ Height \in Nat /\ Pos(s) <= s.top + Height
  <2>1. Pos(s) = s.top + s.cursor /\ s.top \in Nat /\ s.cursor \in Nat /\ Height \in Nat /\ s.cursor <= Height
    BY ScreenIs DEF Pos
  <2> QED BY <2>1
<1>3. t.top = IF Pos(s) + (i - 1) > s.top + Height THEN (Pos(s) + (i - 1)) - Height ELSE s.top
  BY DEF TopAt
<1>4. /\ Pos(s) + (i - 1) + 1 = Pos(s) + i
      /\ (IF Pos(s) + i > t.top + Height THEN (Pos(s) + i) - Height ELSE t.top)
         = IF Pos(s) + i > s.top + Height THEN (Pos(s) + i) - Height ELSE s.top
  <2> DEFINE p == Pos(s)
             u == s.top
  <2>1. p \in Nat /\ u \in Nat /\ Height \in Nat /\ i \in Nat /\ i # 0 /\ p <= u + Height
    BY <1>2
  <2>2. t.top = IF p + (i - 1) > u + Height THEN (p + (i - 1)) - Height ELSE u
    BY <1>3
  <2> HIDE DEF p, u
  <2>3. /\ p + (i - 1) + 1 = p + i
        /\ (IF p + i > t.top + Height THEN (p + i) - Height ELSE t.top)
           = IF p + i > u + Height THEN (p + i) - Height ELSE u
    BY <1>1, <2>1, <2>2
  <2> QED BY <2>3 DEF p, u
<1>5. Pos(t) + 1 = Pos(s) + i
  BY <1>4, Zenon
<1> QED BY <1>4, <1>5, Zenon DEF TopAt

\* One row of the screen is set.
LEMMA Put ==
  ASSUME PartsAssumption, NEW s \in Screens, NEW v \in LineSet
  PROVE  LET t == [s EXCEPT !.rows[s.top + s.cursor] = v]
         IN  /\ t \in Screens /\ t.top = s.top /\ t.cursor = s.cursor /\ Pos(t) = Pos(s)
             /\ \A r \in Nat : At(t, r) = IF r = Pos(s) THEN v ELSE At(s, r)
<1> DEFINE t == [s EXCEPT !.rows[s.top + s.cursor] = v]
           q == [s.rows EXCEPT ![Pos(s)] = v]
<1>1. t.rows = q /\ t.top = s.top /\ t.cursor = s.cursor
  BY DEF Screens, Pos
<1>2. q \in Seq(LineSet) /\ Len(q) = Len(s.rows) /\ \A r \in 1..Len(q) : q[r] = IF r = Pos(s) THEN v ELSE s.rows[r]
  BY ScreenIs
<1>3. t \in [rows : Seq(LineSet), top : Nat, cursor : 1..Height]
  BY <1>2 DEF Screens, Pos
<1>4. t \in Screens
  BY <1>1, <1>2, <1>3, ScreenIs DEF Screens
<1> HIDE DEF t, q
<1>5. \A r \in Nat : At(t, r) = IF r = Pos(s) THEN v ELSE At(s, r)
  BY <1>1, <1>2, ScreenIs DEF At
<1>6. Pos(t) = Pos(s)
  BY <1>1 DEF Pos
<1> QED BY <1>1, <1>4, <1>5, <1>6 DEF t

\* The cursor goes down a row; the screen scrolls at the last one.
LEMMA DownIs ==
  ASSUME PartsAssumption, NEW s \in Screens
  PROVE  LET t == Log!Down(s)
         IN  /\ t \in Screens /\ Pos(t) = Pos(s) + 1 /\ t.top = TopAt(s, Pos(s) + 1)
             /\ \A r \in Nat : At(t, r) = At(s, r)
<1> DEFINE t == Log!Down(s)
<1>1. CASE s.cursor < Height
  <2>1. t = [s EXCEPT !.cursor = @ + 1]
    BY <1>1 DEF Log!Down
  <2>2. t.rows = s.rows /\ t.top = s.top /\ t.cursor = s.cursor + 1
    BY <2>1 DEF Screens
  <2>3. t \in [rows : Seq(LineSet), top : Nat, cursor : 1..Height]
    BY <1>1, <2>1, ScreenIs DEF Screens
  <2>4. t \in Screens
    BY <2>2, <2>3 DEF Screens
  <2> HIDE DEF t
  <2>5. \A r \in Nat : At(t, r) = At(s, r)
    BY <2>2 DEF At
  <2>6. Pos(t) = Pos(s) + 1 /\ t.top = TopAt(s, Pos(s) + 1)
    BY <1>1, <2>2, ScreenIs DEF Pos, TopAt
  <2> QED BY <2>4, <2>5, <2>6 DEF t
<1>2. CASE ~(s.cursor < Height)
  <2> DEFINE q == Append(s.rows, Log!Blank)
  <2>1. t = [s EXCEPT !.rows = q, !.top = @ + 1]
    BY <1>2 DEF Log!Down
  <2>2. t.rows = q /\ t.top = s.top + 1 /\ t.cursor = s.cursor
    BY <2>1 DEF Screens
  <2>3. q \in Seq(LineSet) /\ Len(q) = Len(s.rows) + 1 /\ \A r \in 1..Len(q) : q[r] = IF r = Len(q) THEN Log!Blank ELSE s.rows[r]
    BY ScreenIs, Lines
  <2>4. t \in [rows : Seq(LineSet), top : Nat, cursor : 1..Height]
    <3> HIDE DEF q
    <3>1. s \in [rows : Seq(LineSet), top : Nat, cursor : 1..Height] /\ s.top + 1 \in Nat /\ q \in Seq(LineSet)
      BY <2>3 DEF Screens
    <3>2. t = [s EXCEPT !.rows = q, !.top = s.top + 1]
      BY <2>1, <3>1
    <3> HIDE DEF t
    <3> QED BY <3>1, <3>2
  <2>5. t \in Screens
    BY <2>2, <2>3, <2>4, ScreenIs DEF Screens
  <2> HIDE DEF t, q
  <2>6. ASSUME NEW r \in Nat PROVE At(t, r) = At(s, r)
    <3>1. Len(s.rows) \in Nat /\ Len(t.rows) = Len(s.rows) + 1
      BY <2>2, <2>3, ScreenIs
    <3>2. r \in 1..Len(t.rows) => t.rows[r] = IF r = Len(t.rows) THEN Log!Blank ELSE s.rows[r]
      BY <2>2, <2>3
    <3>3. r \in 1..Len(t.rows) <=> r \in 1..Len(s.rows) \/ r = Len(t.rows)
      BY <3>1
    <3>4. r = Len(t.rows) => r \notin 1..Len(s.rows)
      BY <3>1
    <3> QED BY <3>2, <3>3, <3>4, Zenon DEF At
  <2>7. Pos(t) = Pos(s) + 1 /\ t.top = TopAt(s, Pos(s) + 1)
    BY <1>2, <2>2, ScreenIs DEF Pos, TopAt
  <2> QED BY <2>5, <2>6, <2>7 DEF t
<1> QED BY <1>1, <1>2

\* The cursor's row is cleared.
LEMMA ClearEolIs ==
  ASSUME PartsAssumption, NEW s \in Screens
  PROVE  LET t == Log!ClearEol(s)
         IN  /\ t \in Screens /\ t.top = s.top /\ Pos(t) = Pos(s)
             /\ \A r \in Nat : At(t, r) = IF r = Pos(s) THEN Log!Blank ELSE At(s, r)
BY Put, Lines DEF Log!ClearEol

\* A line is written on the cursor's row, and mixed with one that is there.
LEMMA WriteIs ==
  ASSUME PartsAssumption, NEW s \in Screens, NEW line \in LineSet
  PROVE  LET t == Log!Write(s, line)
         IN  /\ t \in Screens /\ Pos(t) = Pos(s) + 1 /\ t.top = TopAt(s, Pos(s) + 1)
             /\ \A r \in Nat : At(t, r) = IF r # Pos(s) THEN At(s, r)
                                          ELSE IF At(s, r) = Log!Blank THEN line ELSE Log!Mixed
<1> DEFINE v == IF s.rows[s.top + s.cursor] = Log!Blank THEN line ELSE Log!Mixed
           u == [s EXCEPT !.rows[s.top + s.cursor] = v]
<1>1. v \in LineSet /\ v = IF At(s, Pos(s)) = Log!Blank THEN line ELSE Log!Mixed
  BY ScreenIs, Lines DEF At, Pos
<1>2. u = [s EXCEPT !.rows[s.top + s.cursor] = IF @ = Log!Blank THEN line ELSE Log!Mixed]
  BY DEF Screens
<1> HIDE DEF v
<1>3. /\ u \in Screens /\ u.top = s.top /\ Pos(u) = Pos(s)
      /\ \A r \in Nat : At(u, r) = IF r = Pos(s) THEN v ELSE At(s, r)
  BY <1>1, Put
<1>4. Log!Write(s, line) = Log!Down(u)
  BY <1>2, Zenon DEF Log!Write
<1> HIDE DEF u
<1>5. TopAt(u, Pos(u) + 1) = TopAt(s, Pos(s) + 1)
  BY <1>3 DEF TopAt
<1> QED BY <1>1, <1>3, <1>4, <1>5, DownIs

\* The cursor goes up a row, to the first one at most.
LEMMA UpIs ==
  ASSUME PartsAssumption, NEW s \in Screens
  PROVE  LET t == Log!Up(s)
         IN  /\ t \in Screens /\ t.rows = s.rows /\ t.top = s.top
             /\ t.cursor = IF s.cursor > 1 THEN s.cursor - 1 ELSE s.cursor
<1> DEFINE t == Log!Up(s)
           c == IF s.cursor > 1 THEN s.cursor - 1 ELSE s.cursor
<1>1. t = [s EXCEPT !.cursor = c]
  BY DEF Log!Up, Screens
<1>2. t.rows = s.rows /\ t.top = s.top /\ t.cursor = c
  BY <1>1 DEF Screens
<1>3. t \in [rows : Seq(LineSet), top : Nat, cursor : 1..Height]
  BY <1>1, ScreenIs DEF Screens
<1> QED BY <1>2, <1>3 DEF Screens
-----------------------------------------------------------------------------
\* Clearing n rows leaves the cursor where it was, with room for n rows below it.
LEMMA DownExists ==
  ASSUME PartsAssumption, NEW s \in Screens, NEW n \in Nat
  PROVE  \E g : g = [i \in 0..n |-> IF i = 0 THEN s ELSE Log!Down(Log!ClearEol(g[i - 1]))]
<1> DEFINE f == [t \in Screens |-> Log!Down(Log!ClearEol(t))]
           step == [i \in 1..n |-> f]
<1>1. ASSUME NEW t \in Screens PROVE Log!Down(Log!ClearEol(t)) \in Screens
  <2>1. Log!ClearEol(t) \in Screens
    BY ClearEolIs
  <2> QED BY <2>1, DownIs
<1>2. f \in [Screens -> Screens] /\ \A t \in Screens : f[t] = Log!Down(Log!ClearEol(t))
  BY <1>1
<1> HIDE DEF f
<1>3. step \in [1..n -> [Screens -> Screens]] /\ \A i \in 1..n : step[i] = f
  BY <1>2
<1> HIDE DEF step
<1>4. PICK g \in [0..n -> Screens] : g[0] = s /\ \A i \in 1..n : g[i] = step[i][g[i - 1]]
  <2>1. step \in [1..n -> [Screens -> Screens]]
    BY <1>3
  <2>2. \E g : IsRun(g, n, Screens, s, step)
    BY <2>1, Recursion
  <2> QED BY <2>2 DEF IsRun
<1>5. ASSUME NEW i \in 0..n PROVE g[i] = IF i = 0 THEN s ELSE Log!Down(Log!ClearEol(g[i - 1]))
  <2>1. CASE i = 0
    BY <1>4, <2>1
  <2>2. CASE i # 0
    <3>1. i \in 1..n /\ i - 1 \in 0..n
      BY <2>2
    <3>2. g[i] = f[g[i - 1]] /\ g[i - 1] \in Screens
      BY <1>3, <1>4, <3>1
    <3> QED BY <1>2, <2>2, <3>2
  <2> QED BY <2>1, <2>2
<1>6. g = [i \in 0..n |-> IF i = 0 THEN s ELSE Log!Down(Log!ClearEol(g[i - 1]))]
  <2>1. g = [i \in 0..n |-> g[i]]
    BY <1>4
  <2> QED BY <1>5, <2>1, Zenon
<1> QED BY <1>6, Zenon

\* The screens on the way up.
LEMMA UpExists ==
  ASSUME PartsAssumption, NEW s \in Screens, NEW n \in Nat
  PROVE  \E g : g = [i \in 0..n |-> IF i = 0 THEN s ELSE Log!Up(g[i - 1])]
<1> DEFINE f == [t \in Screens |-> Log!Up(t)]
           step == [i \in 1..n |-> f]
<1>1. ASSUME NEW t \in Screens PROVE Log!Up(t) \in Screens
  BY UpIs
<1>2. f \in [Screens -> Screens] /\ \A t \in Screens : f[t] = Log!Up(t)
  BY <1>1
<1> HIDE DEF f
<1>3. step \in [1..n -> [Screens -> Screens]] /\ \A i \in 1..n : step[i] = f
  BY <1>2
<1> HIDE DEF step
<1>4. PICK g \in [0..n -> Screens] : g[0] = s /\ \A i \in 1..n : g[i] = step[i][g[i - 1]]
  <2>1. step \in [1..n -> [Screens -> Screens]]
    BY <1>3
  <2>2. \E g : IsRun(g, n, Screens, s, step)
    BY <2>1, Recursion
  <2> QED BY <2>2 DEF IsRun
<1>5. ASSUME NEW i \in 0..n PROVE g[i] = IF i = 0 THEN s ELSE Log!Up(g[i - 1])
  <2>1. CASE i = 0
    BY <1>4, <2>1
  <2>2. CASE i # 0
    <3>1. i \in 1..n /\ i - 1 \in 0..n
      BY <2>2
    <3>2. g[i] = f[g[i - 1]] /\ g[i - 1] \in Screens
      BY <1>3, <1>4, <3>1
    <3> QED BY <1>2, <2>2, <3>2
  <2> QED BY <2>1, <2>2
<1>6. g = [i \in 0..n |-> IF i = 0 THEN s ELSE Log!Up(g[i - 1])]
  <2>1. g = [i \in 0..n |-> g[i]]
    BY <1>4
  <2> QED BY <1>5, <2>1, Zenon
<1> QED BY <1>6, Zenon

\* n rows from the cursor's are blank.
Cleared(s, n, r) == IF Pos(s) <= r /\ r < Pos(s) + n THEN Log!Blank ELSE At(s, r)

\* Each row on the way down is cleared.
LEMMA DownRows ==
  ASSUME PartsAssumption, NEW s \in Screens, NEW n \in Nat, NEW g,
         g = [i \in 0..n |-> IF i = 0 THEN s ELSE Log!Down(Log!ClearEol(g[i - 1]))]
  PROVE  /\ g[n] \in Screens /\ Pos(g[n]) = Pos(s) + n /\ g[n].top = TopAt(s, Pos(s) + n)
         /\ \A r \in Nat : At(g[n], r) = Cleared(s, n, r)
<1> DEFINE P == {i \in 0..n : /\ g[i] \in Screens /\ Pos(g[i]) = Pos(s) + i /\ g[i].top = TopAt(s, Pos(s) + i)
                              /\ \A r \in Nat : At(g[i], r) = Cleared(s, i, r)}
<1>1. 0 \in P
  <2>1. g[0] = s
    OBVIOUS
  <2>2. Pos(s) = Pos(s) + 0 /\ s.top = TopAt(s, Pos(s) + 0) /\ \A r \in Nat : At(s, r) = Cleared(s, 0, r)
    BY ScreenIs DEF TopAt, Cleared
  <2> QED BY <2>1, <2>2
<1>2. ASSUME NEW i \in 1..n, i - 1 \in P PROVE i \in P
  <2> DEFINE t == g[i - 1]
             u == Log!ClearEol(t)
             v == Log!Down(u)
  <2>1. /\ t \in Screens /\ Pos(t) = Pos(s) + (i - 1) /\ t.top = TopAt(s, Pos(s) + (i - 1))
        /\ \A r \in Nat : At(t, r) = Cleared(s, i - 1, r)
    BY <1>2
  <2>2. g[i] = v
    OBVIOUS
  <2> HIDE DEF t
  <2>3. /\ u \in Screens /\ u.top = t.top /\ Pos(u) = Pos(t)
        /\ \A r \in Nat : At(u, r) = IF r = Pos(t) THEN Log!Blank ELSE At(t, r)
    BY <2>1, ClearEolIs
  <2> HIDE DEF u
  <2>4. /\ v \in Screens /\ Pos(v) = Pos(u) + 1 /\ v.top = TopAt(u, Pos(u) + 1)
        /\ \A r \in Nat : At(v, r) = At(u, r)
    BY <2>3, DownIs
  <2> HIDE DEF v
  <2>5. Pos(v) = Pos(s) + i /\ v.top = TopAt(s, Pos(s) + i)
    <3>1. TopAt(u, Pos(u) + 1) = TopAt(t, Pos(t) + 1)
      BY <2>3 DEF TopAt
    <3>2. Pos(t) + 1 = Pos(s) + i /\ TopAt(t, Pos(t) + 1) = TopAt(s, Pos(s) + i)
      BY <2>1, NextTop
    <3> QED BY <2>3, <2>4, <3>1, <3>2
  <2>6. ASSUME NEW r \in Nat PROVE At(v, r) = Cleared(s, i, r)
    <3>1. At(v, r) = IF r = Pos(t) THEN Log!Blank ELSE Cleared(s, i - 1, r)
      BY <2>1, <2>3, <2>4
    <3>2. /\ r = Pos(t) => Pos(s) <= r /\ r < Pos(s) + i
          /\ r # Pos(t) => ((Pos(s) <= r /\ r < Pos(s) + i) <=> (Pos(s) <= r /\ r < Pos(s) + (i - 1)))
      BY <2>1, ScreenIs
    <3> QED BY <3>1, <3>2 DEF Cleared
  <2> HIDE DEF P
  <2>7. i \in 0..n
    OBVIOUS
  <2> QED BY <2>2, <2>4, <2>5, <2>6, <2>7 DEF P
<1> HIDE DEF P
<1>3. \A i \in 0..n : i \in P
  BY <1>1, <1>2, Induction
<1>4. n \in P
  BY <1>3
<1> QED BY <1>4 DEF P

\* Going up changes no row.
LEMMA UpRows ==
  ASSUME PartsAssumption, NEW s \in Screens, NEW n \in Nat, n < s.cursor, NEW g,
         g = [i \in 0..n |-> IF i = 0 THEN s ELSE Log!Up(g[i - 1])]
  PROVE  g[n] \in Screens /\ g[n].rows = s.rows /\ g[n].top = s.top /\ g[n].cursor = s.cursor - n
<1> DEFINE P == {i \in 0..n : g[i] \in Screens /\ g[i].rows = s.rows /\ g[i].top = s.top /\ g[i].cursor = s.cursor - i}
<1>1. 0 \in P
  <2>1. g[0] = s
    OBVIOUS
  <2> QED BY <2>1, ScreenIs
<1>2. ASSUME NEW i \in 1..n, i - 1 \in P PROVE i \in P
  <2> DEFINE t == g[i - 1]
             u == Log!Up(t)
  <2>1. t \in Screens /\ t.rows = s.rows /\ t.top = s.top /\ t.cursor = s.cursor - (i - 1)
    BY <1>2
  <2>2. g[i] = u
    OBVIOUS
  <2> HIDE DEF t
  <2>3. t.cursor > 1
    BY <2>1, ScreenIs
  <2>4. u \in Screens /\ u.rows = t.rows /\ u.top = t.top /\ u.cursor = t.cursor - 1
    BY <2>1, <2>3, UpIs
  <2> HIDE DEF u
  <2>5. u.cursor = s.cursor - i
    BY <2>1, <2>4, ScreenIs
  <2> HIDE DEF P
  <2>6. i \in 0..n
    OBVIOUS
  <2> QED BY <2>1, <2>2, <2>4, <2>5, <2>6 DEF P
<1> HIDE DEF P
<1>3. \A i \in 0..n : i \in P
  BY <1>1, <1>2, Induction
<1>4. n \in P
  BY <1>3
<1> QED BY <1>4 DEF P

\* After going down n rows there are n rows above the cursor.
LEMMA RoomBelow ==
  ASSUME PartsAssumption, NEW s \in Screens, NEW n \in Nat, n < Height, NEW d \in Screens,
         Pos(d) = Pos(s) + n, d.top = TopAt(s, Pos(s) + n)
  PROVE  n < d.cursor /\ Pos(s) = d.top + (d.cursor - n)
<1>1. s.top \in Nat /\ s.cursor \in Nat /\ 1 <= s.cursor /\ s.cursor <= Height /\ Height \in Nat
  BY ScreenIs
<1>2. d.top \in Nat /\ d.cursor \in Nat
  BY ScreenIs
<1> QED BY <1>1, <1>2 DEF Pos, TopAt

\* Clearing n rows leaves the cursor where it was, with room for n rows below it.
LEMMA ClearLinesIs ==
  ASSUME PartsAssumption, NEW s \in Screens, NEW n \in Nat, n < Height
  PROVE  LET t == Log!ClearLines(s, n)
         IN  /\ t \in Screens /\ Pos(t) = Pos(s) /\ t.top = TopAt(s, Pos(s) + n)
             /\ \A r \in Nat : At(t, r) = Cleared(s, n, r)
<1> DEFINE D == CHOOSE g : g = [i \in 0..n |-> IF i = 0 THEN s ELSE Log!Down(Log!ClearEol(g[i - 1]))]
           U == CHOOSE g : g = [i \in 0..n |-> IF i = 0 THEN D[n] ELSE Log!Up(g[i - 1])]
<1>1. Log!ClearLines(s, n) = U[n]
  BY Zenon DEF Log!ClearLines
<1>2. D = [i \in 0..n |-> IF i = 0 THEN s ELSE Log!Down(Log!ClearEol(D[i - 1]))]
  BY DownExists, Zenon
<1> HIDE DEF D
<1> DEFINE d == D[n]
<1>3. /\ d \in Screens /\ Pos(d) = Pos(s) + n /\ d.top = TopAt(s, Pos(s) + n)
      /\ \A r \in Nat : At(d, r) = Cleared(s, n, r)
  BY <1>2, DownRows
<1>4. U = [i \in 0..n |-> IF i = 0 THEN d ELSE Log!Up(U[i - 1])]
  BY <1>3, UpExists, Zenon
<1> HIDE DEF U, d
<1>5. n < d.cursor /\ Pos(s) = d.top + (d.cursor - n)
  BY <1>3, RoomBelow
<1>6. U[n] \in Screens /\ U[n].rows = d.rows /\ U[n].top = d.top /\ U[n].cursor = d.cursor - n
  BY <1>3, <1>4, <1>5, UpRows
<1>7. \A r \in Nat : At(U[n], r) = At(d, r)
  BY <1>6 DEF At
<1>8. Pos(U[n]) = Pos(s)
  BY <1>5, <1>6 DEF Pos
<1> QED BY <1>1, <1>3, <1>6, <1>7, <1>8

\* The lines are written one below the other.
Written(s, lines, n, r) ==
  IF ~(Pos(s) <= r /\ r < Pos(s) + n) THEN At(s, r)
  ELSE IF At(s, r) = Log!Blank THEN lines[r - Pos(s) + 1] ELSE Log!Mixed

\* The screens on the way.
LEMMA WriteExists ==
  ASSUME PartsAssumption, NEW s \in Screens, NEW lines \in Seq(LineSet)
  PROVE  \E g : g = [i \in 0..Len(lines) |-> IF i = 0 THEN s ELSE Log!Write(g[i - 1], lines[i])]
<1> DEFINE n == Len(lines)
           step == [i \in 1..n |-> [t \in Screens |-> Log!Write(t, lines[i])]]
<1>1. ASSUME NEW t \in Screens, NEW i \in 1..n PROVE Log!Write(t, lines[i]) \in Screens
  <2>1. lines[i] \in LineSet
    OBVIOUS
  <2> QED BY <2>1, WriteIs
<1>2. step \in [1..n -> [Screens -> Screens]] /\ \A i \in 1..n : \A t \in Screens : step[i][t] = Log!Write(t, lines[i])
  BY <1>1
<1>3. n \in Nat
  OBVIOUS
<1> HIDE DEF step, n
<1>4. PICK g \in [0..n -> Screens] : g[0] = s /\ \A i \in 1..n : g[i] = step[i][g[i - 1]]
  <2>1. step \in [1..n -> [Screens -> Screens]]
    BY <1>2
  <2>2. \E g : IsRun(g, n, Screens, s, step)
    BY <1>3, <2>1, Recursion
  <2> QED BY <2>2 DEF IsRun
<1>5. ASSUME NEW i \in 0..n PROVE g[i] = IF i = 0 THEN s ELSE Log!Write(g[i - 1], lines[i])
  <2>1. CASE i = 0
    BY <1>4, <2>1
  <2>2. CASE i # 0
    <3>1. i \in 1..n /\ i - 1 \in 0..n
      BY <1>3, <2>2
    <3>2. g[i] = step[i][g[i - 1]] /\ g[i - 1] \in Screens
      BY <1>4, <3>1
    <3> QED BY <1>2, <2>2, <3>1, <3>2
  <2> QED BY <2>1, <2>2
<1>6. g = [i \in 0..n |-> IF i = 0 THEN s ELSE Log!Write(g[i - 1], lines[i])]
  <2>1. g = [i \in 0..n |-> g[i]]
    BY <1>4
  <2> QED BY <1>5, <2>1, Zenon
<1> QED BY <1>6, Zenon DEF n

\* The rows after all the lines.
LEMMA WriteAllIs ==
  ASSUME PartsAssumption, NEW s \in Screens, NEW lines \in Seq(LineSet)
  PROVE  LET t == Log!WriteAll(s, lines)
         IN  /\ t \in Screens /\ Pos(t) = Pos(s) + Len(lines) /\ t.top = TopAt(s, Pos(s) + Len(lines))
             /\ \A r \in Nat : At(t, r) = Written(s, lines, Len(lines), r)
<1> DEFINE g == CHOOSE f : f = [i \in 0..Len(lines) |-> IF i = 0 THEN s ELSE Log!Write(f[i - 1], lines[i])]
<1>1. Log!WriteAll(s, lines) = g[Len(lines)]
  BY Zenon DEF Log!WriteAll
<1>2. g = [i \in 0..Len(lines) |-> IF i = 0 THEN s ELSE Log!Write(g[i - 1], lines[i])]
  BY WriteExists, Zenon
<1> HIDE DEF g
<1> DEFINE n == Len(lines)
           P == {i \in 0..n : /\ g[i] \in Screens /\ Pos(g[i]) = Pos(s) + i /\ g[i].top = TopAt(s, Pos(s) + i)
                              /\ \A r \in Nat : At(g[i], r) = Written(s, lines, i, r)}
<1>3. n \in Nat
  OBVIOUS
<1>4. 0 \in P
  <2>1. g[0] = s
    BY <1>2
  <2>2. Pos(s) = Pos(s) + 0 /\ s.top = TopAt(s, Pos(s) + 0) /\ \A r \in Nat : At(s, r) = Written(s, lines, 0, r)
    BY ScreenIs DEF TopAt, Written
  <2>3. 0 \in 0..n
    BY <1>3
  <2> QED BY <2>1, <2>2, <2>3
<1>5. ASSUME NEW i \in 1..n, i - 1 \in P PROVE i \in P
  <2> DEFINE t == g[i - 1]
             u == Log!Write(t, lines[i])
  <2>1. /\ t \in Screens /\ Pos(t) = Pos(s) + (i - 1) /\ t.top = TopAt(s, Pos(s) + (i - 1))
        /\ \A r \in Nat : At(t, r) = Written(s, lines, i - 1, r)
    BY <1>5
  <2>2. g[i] = u /\ lines[i] \in LineSet
    BY <1>2
  <2> HIDE DEF t
  <2>3. /\ u \in Screens /\ Pos(u) = Pos(t) + 1 /\ u.top = TopAt(t, Pos(t) + 1)
        /\ \A r \in Nat : At(u, r) = IF r # Pos(t) THEN At(t, r)
                                     ELSE IF At(t, r) = Log!Blank THEN lines[i] ELSE Log!Mixed
    BY <2>1, <2>2, WriteIs
  <2> HIDE DEF u
  <2>4. Pos(u) = Pos(s) + i /\ u.top = TopAt(s, Pos(s) + i)
    BY <2>1, <2>3, NextTop
  <2>5. ASSUME NEW r \in Nat PROVE At(u, r) = Written(s, lines, i, r)
    <3>1. CASE r = Pos(t)
      <4>1. At(t, r) = At(s, r) /\ r - Pos(s) + 1 = i /\ Pos(s) <= r /\ r < Pos(s) + i
        BY <2>1, <3>1, ScreenIs DEF Written
      <4> QED BY <2>3, <3>1, <4>1 DEF Written
    <3>2. CASE r # Pos(t)
      <4>1. (Pos(s) <= r /\ r < Pos(s) + i) <=> (Pos(s) <= r /\ r < Pos(s) + (i - 1))
        BY <2>1, <3>2, ScreenIs
      <4> QED BY <2>1, <2>3, <3>2, <4>1 DEF Written
    <3> QED BY <3>1, <3>2
  <2> HIDE DEF P
  <2>6. i \in 0..n
    BY <1>3
  <2> QED BY <2>2, <2>3, <2>4, <2>5, <2>6 DEF P
<1> HIDE DEF P
<1>6. \A i \in 0..n : i \in P
  BY <1>3, <1>4, <1>5, Induction
<1>7. n \in P
  BY <1>3, <1>6
<1> QED BY <1>1, <1>7 DEF P

-----------------------------------------------------------------------------
\* The tasks shown are tasks of the list.
LEMMA ShownIs ==
  ASSUME NEW R, tasks \in Seq(R)
  PROVE  Log!Shown \in Seq(R)
<1> DEFINE n == Len(tasks)
           step == [i \in 1..n |-> [u \in Seq(R) |-> IF tasks[i] \in begun THEN Append(u, tasks[i]) ELSE u]]
           IsShown(g) == g = [i \in 0..Len(tasks) |->
             IF i = 0 THEN <<>> ELSE IF tasks[i] \in begun THEN Append(g[i - 1], tasks[i]) ELSE g[i - 1]]
<1>1. n \in Nat /\ <<>> \in Seq(R)
  OBVIOUS
<1>2. ASSUME NEW i \in 1..n, NEW u \in Seq(R)
      PROVE  (IF tasks[i] \in begun THEN Append(u, tasks[i]) ELSE u) \in Seq(R)
  <2>1. tasks[i] \in R
    OBVIOUS
  <2>2. Append(u, tasks[i]) \in Seq(R)
    BY <2>1
  <2> QED BY <2>2
<1>3. /\ step \in [1..n -> [Seq(R) -> Seq(R)]]
      /\ \A i \in 1..n : \A u \in Seq(R) : step[i][u] = IF tasks[i] \in begun THEN Append(u, tasks[i]) ELSE u
  BY <1>2
<1> HIDE DEF step
<1>4. PICK f \in [0..n -> Seq(R)] : f[0] = <<>> /\ \A i \in 1..n : f[i] = step[i][f[i - 1]]
  <2> HIDE DEF n
  <2>1. step \in [1..n -> [Seq(R) -> Seq(R)]]
    BY <1>3
  <2>2. \E g : IsRun(g, n, Seq(R), <<>>, step)
    BY <1>1, <2>1, Recursion
  <2> QED BY <2>2 DEF IsRun
<1>5. ASSUME NEW i \in 0..n
      PROVE  f[i] = IF i = 0 THEN <<>> ELSE IF tasks[i] \in begun THEN Append(f[i - 1], tasks[i]) ELSE f[i - 1]
  <2> HIDE DEF n
  <2>1. CASE i = 0
    BY <1>4, <2>1
  <2>2. CASE i # 0
    <3>1. i \in 1..n /\ i - 1 \in 0..n
      BY <1>1, <2>2
    <3>2. f[i] = step[i][f[i - 1]] /\ f[i - 1] \in Seq(R)
      BY <1>4, <3>1
    <3> QED BY <1>3, <2>2, <3>1, <3>2
  <2> QED BY <2>1, <2>2
<1>6. IsShown(f)
  <2>1. f = [i \in 0..n |-> f[i]]
    BY <1>4
  <2> QED BY <1>5, <2>1, Zenon
<1> DEFINE g == CHOOSE h : IsShown(h)
<1>7. Log!Shown = g[Len(tasks)]
  BY Zenon DEF Log!Shown
<1>8. IsShown(g)
  BY <1>6, Zenon
<1> HIDE DEF g
<1> DEFINE P == {i \in 0..n : g[i] \in Seq(R)}
<1>9. 0 \in P
  BY <1>1, <1>8
<1>10. ASSUME NEW i \in 1..n, i - 1 \in P PROVE i \in P
  <2>1. g[i - 1] \in Seq(R) /\ i \in 0..n /\ i # 0
    BY <1>1, <1>10
  <2>2. g[i] = IF tasks[i] \in begun THEN Append(g[i - 1], tasks[i]) ELSE g[i - 1]
    BY <1>8, <2>1
  <2>3. g[i] \in Seq(R)
    BY <1>2, <2>1, <2>2
  <2> QED BY <2>1, <2>3
<1> HIDE DEF P, n
<1>11. \A i \in 0..n : i \in P
  BY <1>1, <1>9, <1>10, Induction
<1>12. n \in P
  BY <1>1, <1>11
<1> QED BY <1>7, <1>12 DEF P, n
-----------------------------------------------------------------------------
(***************************************************************************)
(* The two threads.  As long as they have not got into each other's way,   *)
(* the log begins at the row where the cursor was first: there the cursor  *)
(* goes before a drawing, what it clears covers all that was drawn, and    *)
(* what is drawn finds the rows blank and the room it needs.               *)
(***************************************************************************)
Scr == Log!Screen
TaskSet == {Log!Task(b, i) : b \in DOMAIN NumTasks, i \in Nat}

ListTypes ==
  /\ build \in DOMAIN NumTasks
  /\ infos \in Seq(LineSet) /\ Len(infos) <= MaxInfos /\ \A i \in DOMAIN infos : infos[i] = Log!Info(build, i)
  /\ tasks \in Seq(TaskSet) /\ Len(tasks) <= NumTasks[build] /\ \A i \in DOMAIN tasks : tasks[i] = Log!Task(build, i)
  /\ ended \subseteq begun

ThreadTypes ==
  /\ logMain \in {"builds", "saves", "empties", "joins", "prints", "ended"}
  /\ logWorker \in {"tests", "clears", "saves", "drawsInfos", "drawsTasks", "ended"}
  /\ logStop \in BOOLEAN /\ last \in BOOLEAN /\ counted \in Nat /\ drawn \in Nat
  /\ trouble \subseteq {"grew", "overlapped"}

LogTypes ==
  /\ ListTypes /\ ThreadTypes
  /\ Scr \in Screens /\ logSaved \in 0..Height

\* The worker ends after the stop event, which the main thread sets when all tasks have ended.
Turns ==
  /\ logWorker = "ended" => last
  /\ last => logStop
  /\ logStop <=> logMain \in {"joins", "prints", "ended"}
  /\ logMain \in {"prints", "ended"} => logWorker = "ended"
  /\ logMain # "builds" => Log!AllEnded
  /\ logMain \in {"saves", "empties"} => build < Len(NumTasks)

AllBlank == \A r \in Nat : StartRow <= r => At(Scr, r) = Log!Blank

\* Where the cursor and the saved row are.
Places ==
  /\ logWorker = "saves" \/ logMain = "saves" => Pos(Scr) = StartRow
  /\ ~(logWorker = "saves" \/ logMain \in {"saves", "ended"}) =>
       IF logSaved = 0 THEN Pos(Scr) = StartRow ELSE top + logSaved = StartRow
  /\ logWorker \in {"drawsInfos", "drawsTasks", "ended"} => logSaved # 0
  /\ logWorker = "drawsTasks" \/ (logWorker = "ended" /\ logMain # "ended") => Pos(Scr) = StartRow + drawn
  /\ logWorker \in {"saves", "drawsInfos"} => drawn = 0

\* What was counted covers what is drawn, and fits below the first row of the log.
Fits ==
  /\ ~Log!Overlap /\ ~Log!Growth
  /\ counted <= Len(tasks) + Len(infos) \/ (AllBlank /\ logWorker \in {"tests", "clears"})
  /\ logMain \in {"saves", "empties"} \/ logWorker \in {"saves", "drawsInfos"} => AllBlank
  /\ logWorker \in {"saves", "drawsInfos", "drawsTasks"} => StartRow + counted + 1 <= top + Height

\* What the rows show.
Shows ==
  /\ \A r \in Nat \ {0} : r < StartRow => At(Scr, r) = Log!User
  /\ \A r \in Nat : At(Scr, r) # Log!Mixed
  /\ logMain # "ended" => \A r \in Nat : StartRow + drawn <= r => At(Scr, r) = Log!Blank

LogLines == infos \o Log!TaskLines
InfosAreShown == drawn = Len(infos) /\ \A k \in 1..Len(infos) : At(Scr, StartRow + k - 1) = infos[k]
LinesAreShown == drawn = Len(LogLines) /\ \A k \in 1..Len(LogLines) : At(Scr, StartRow + k - 1) = LogLines[k]

\* The drawing after the stop event shows what there is at the end.
LastDrawing ==
  /\ last /\ logWorker = "drawsTasks" => InfosAreShown
  /\ logWorker = "ended" => LinesAreShown
  /\ logMain = "ended" => /\ At(Scr, StartRow + drawn) = Log!Footer
                          /\ \A r \in Nat : StartRow + drawn < r => At(Scr, r) = Log!Blank

LogInv == LogTypes /\ Turns /\ (trouble = {} => Places /\ Fits /\ Shows /\ LastDrawing)

-----------------------------------------------------------------------------
\* The constants of the log.
LEMMA Rows ==
  ASSUME PartsAssumption
  PROVE  /\ Height \in Nat /\ StartRow \in Nat /\ 1 <= StartRow /\ StartRow <= Height /\ MaxInfos \in Nat
         /\ DOMAIN NumTasks \subseteq Nat
         /\ \A b \in DOMAIN NumTasks : NumTasks[b] \in Nat /\ NumTasks[b] + MaxInfos + 1 < Height
<1>1. NumTasks \in Seq(Nat)
  BY DEF PartsAssumption, Log!ProgressAssumption
<1>2. DOMAIN NumTasks \subseteq Nat /\ \A b \in DOMAIN NumTasks : NumTasks[b] \in Nat
  BY <1>1
<1> QED BY <1>2 DEF PartsAssumption, Log!ProgressAssumption

\* The screen of a state.
LEMMA ScreenNow ==
  /\ Scr = [rows |-> rows, top |-> top, cursor |-> cursor]
  /\ Scr.rows = rows /\ Scr.top = top /\ Scr.cursor = cursor /\ Pos(Scr) = top + cursor
BY DEF Scr, Log!Screen, Pos

\* The screen after a step that shows one.
LEMMA ShowIs ==
  ASSUME NEW s \in Screens, Log!Show(s)
  PROVE  Scr' = s /\ top' = s.top /\ cursor' = s.cursor
<1>1. s = [rows |-> s.rows, top |-> s.top, cursor |-> s.cursor]
  BY DEF Screens
<1> QED BY <1>1 DEF Log!Show, Scr, Log!Screen

\* The screen of a step that leaves it.
LEMMA ScreenStays ==
  ASSUME UNCHANGED <<rows, top, cursor>>
  PROVE  Scr' = Scr
BY DEF Scr, Log!Screen

\* The cursor goes back to the saved row.
LEMMA RestoreIs ==
  ASSUME PartsAssumption, NEW s \in Screens, logSaved \in 0..Height
  PROVE  LET t == Log!Restore(s)
         IN  /\ t \in Screens /\ t.top = s.top /\ \A r \in Nat : At(t, r) = At(s, r)
             /\ Pos(t) = IF logSaved = 0 THEN Pos(s) ELSE s.top + logSaved
<1>1. CASE logSaved = 0
  BY <1>1 DEF Log!Restore
<1>2. CASE logSaved # 0
  <2> DEFINE t == [s EXCEPT !.cursor = logSaved]
  <2>1. Log!Restore(s) = t
    BY <1>2 DEF Log!Restore
  <2>2. t.top = s.top /\ t.rows = s.rows /\ t.cursor = logSaved
    BY DEF Screens
  <2>3. logSaved \in 1..Height
    BY <1>2, Rows
  <2>4. t \in [rows : Seq(LineSet), top : Nat, cursor : 1..Height]
    BY <2>3 DEF Screens
  <2>5. t \in Screens
    BY <2>2, <2>4 DEF Screens
  <2> HIDE DEF t
  <2> QED BY <1>2, <2>1, <2>2, <2>5 DEF At, Pos
<1> QED BY <1>1, <1>2

\* The lines counted are fewer than the rows of the screen.
LEMMA CountFits ==
  ASSUME PartsAssumption, LogTypes
  PROVE  Log!LinesNum \in Nat /\ Log!LinesNum < Height /\ Log!LinesNum = Len(tasks) + Len(infos) + 1
<1>1. Len(tasks) \in Nat /\ Len(infos) \in Nat /\ Len(infos) <= MaxInfos /\ Len(tasks) <= NumTasks[build]
      /\ build \in DOMAIN NumTasks
  BY DEF LogTypes, ListTypes, ThreadTypes
<1>2. NumTasks[build] \in Nat /\ NumTasks[build] + MaxInfos + 1 < Height /\ Height \in Nat /\ MaxInfos \in Nat
  BY <1>1, Rows
<1> QED BY <1>1, <1>2 DEF Log!LinesNum

\* The lines of the tasks.
LEMMA TaskLinesAre ==
  ASSUME LogTypes, PartsAssumption
  PROVE  /\ Log!TaskLines \in Seq(LineSet) /\ Len(Log!TaskLines) = Len(Log!Shown)
         /\ \A i \in DOMAIN Log!TaskLines : Log!TaskLines[i] # Log!Mixed
         /\ LogLines \in Seq(LineSet) /\ Len(LogLines) = Len(infos) + Len(Log!TaskLines)
         /\ \A k \in 1..Len(LogLines) : LogLines[k] = IF k <= Len(infos) THEN infos[k] ELSE Log!TaskLines[k - Len(infos)]
<1>1. Log!Shown \in Seq(TaskSet)
  BY ShownIs DEF LogTypes, ListTypes, ThreadTypes
<1>2. ASSUME NEW t \in TaskSet PROVE Log!Line(t) \in LineSet /\ Log!Line(t) # Log!Mixed
  <2>1. PICK b \in DOMAIN NumTasks, i \in Nat : t = <<"task", b, i>>
    BY DEF TaskSet, Log!Task
  <2>2. t[2] \in Nat /\ t[3] \in Nat
    BY <2>1, Rows
  <2> QED BY <2>2 DEF Log!Line, LineSet, Log!Mixed
<1> DEFINE lines == Log!TaskLines
<1>3. lines = [i \in DOMAIN Log!Shown |-> Log!Line(Log!Shown[i])]
  BY DEF Log!TaskLines
<1>4. lines \in Seq(LineSet) /\ Len(lines) = Len(Log!Shown) /\ \A i \in DOMAIN lines : lines[i] # Log!Mixed
  <2> DEFINE s == Log!Shown
  <2> HIDE DEF lines, s
  <2>1. s \in Seq(TaskSet) /\ lines = [i \in 1..Len(s) |-> Log!Line(s[i])]
    BY <1>1, <1>3 DEF s
  <2>2. \A i \in 1..Len(s) : Log!Line(s[i]) \in LineSet /\ Log!Line(s[i]) # Log!Mixed
    BY <1>2, <2>1
  <2> QED BY <2>1, <2>2 DEF s
<1> HIDE DEF lines
<1>5. infos \in Seq(LineSet)
  BY DEF LogTypes, ListTypes, ThreadTypes
<1>6. /\ infos \o lines \in Seq(LineSet) /\ Len(infos \o lines) = Len(infos) + Len(lines)
      /\ \A k \in 1..Len(infos \o lines) : (infos \o lines)[k] = IF k <= Len(infos) THEN infos[k] ELSE lines[k - Len(infos)]
  BY <1>4, <1>5
<1> QED BY <1>4, <1>6 DEF lines, LogLines

\* When all tasks of the list have ended, their lines stay.
LEMMA LinesStay ==
  ASSUME LogTypes, PartsAssumption, Log!AllEnded, UNCHANGED <<infos, tasks, begun>>, ended \subseteq ended'
  PROVE  Log!TaskLines' = Log!TaskLines /\ LogLines' = LogLines
<1> DEFINE R == {tasks[i] : i \in DOMAIN tasks}
<1>1. tasks \in Seq(R)
  BY DEF LogTypes, ListTypes, ThreadTypes
<1>2. Log!Shown \in Seq(R)
  BY <1>1, ShownIs
<1>3. Log!Shown' = Log!Shown
  BY DEF Log!Shown
<1>4. \A t \in R : t \in ended /\ t \in ended'
  BY DEF Log!AllEnded
<1>5. \A i \in DOMAIN Log!Shown : Log!Shown[i] \in R
  BY <1>2
<1> HIDE DEF R
<1>6. \A i \in DOMAIN Log!Shown : Log!Line(Log!Shown[i])' = Log!Line(Log!Shown[i])
  BY <1>3, <1>4, <1>5 DEF Log!Line
<1>7. Log!TaskLines' = Log!TaskLines
  BY <1>3, <1>6 DEF Log!TaskLines
<1> QED BY <1>7 DEF LogLines

-----------------------------------------------------------------------------
\* The log on the screen: its steps.

\* logger.py:55-71 - the log begins below what the user typed.
LEMMA LogBegins ==
  ASSUME PartsAssumption, Log!Init
  PROVE  LogInv
<1>1. Scr = [rows |-> [r \in 1..Height |-> IF r < StartRow THEN Log!User ELSE Log!Blank], top |-> 0, cursor |-> StartRow]
  BY DEF Log!Init, Scr, Log!Screen
<1> DEFINE q == [r \in 1..Height |-> IF r < StartRow THEN Log!User ELSE Log!Blank]
<1>2. q \in Seq(LineSet) /\ Len(q) = Height /\ \A r \in 1..Height : q[r] = IF r < StartRow THEN Log!User ELSE Log!Blank
  BY Rows, Lines
<1> HIDE DEF q
<1>3. Scr.rows = q /\ Scr.top = 0 /\ Scr.cursor = StartRow
  BY <1>1 DEF q
<1>4. Scr \in [rows : Seq(LineSet), top : Nat, cursor : 1..Height]
  BY <1>1, <1>2, Rows DEF q
<1>5. Scr \in Screens /\ Pos(Scr) = StartRow
  BY <1>2, <1>3, <1>4, Rows DEF Screens, Pos
<1>6. \A r \in Nat : At(Scr, r) = IF r \in 1..Height /\ r < StartRow THEN Log!User ELSE Log!Blank
  BY <1>2, <1>3 DEF At
<1>7. LogTypes
  <2>1. 1 \in DOMAIN NumTasks /\ NumTasks[1] \in Nat
    BY Rows DEF PartsAssumption, Log!ProgressAssumption
  <2>2. ListTypes
    <3>1. <<>> \in Seq(LineSet) /\ <<>> \in Seq(TaskSet) /\ Len(<<>>) = 0
      OBVIOUS
    <3> QED BY <2>1, <3>1, Rows DEF Log!Init, ListTypes
  <2>3. ThreadTypes
    BY DEF Log!Init, ThreadTypes
  <2>4. logSaved \in 0..Height
    BY Rows DEF Log!Init
  <2> QED BY <1>5, <2>2, <2>3, <2>4 DEF LogTypes
<1>8. Turns
  BY DEF Log!Init, Turns
<1>9. Places
  BY <1>5 DEF Log!Init, Places
<1>10. Fits
  <2>1. ~Log!Overlap /\ ~Log!Growth
    BY DEF Log!Init, Log!Overlap, Log!Growth
  <2> QED BY <2>1 DEF Log!Init, Fits
<1>11. Shows
  <2>1. Log!Blank # Log!Mixed /\ Log!User # Log!Mixed
    BY DEF Log!Blank, Log!User, Log!Mixed
  <2>2. \A r \in Nat \ {0} : r < StartRow => r \in 1..Height
    BY Rows
  <2>3. drawn = 0
    BY DEF Log!Init
  <2> QED BY <1>6, <2>1, <2>2, <2>3, Rows DEF Shows
<1>12. LastDrawing
  BY DEF Log!Init, LastDrawing
<1> QED BY <1>7, <1>8, <1>9, <1>10, <1>11, <1>12 DEF LogInv

\* Nothing has happened between the threads when nothing has after the step.
Watched == trouble' = trouble \cup {w \in {"overlapped"} : Log!Overlap'} \cup {w \in {"grew"} : Log!Growth'}

\* Before a step after which nothing has happened between the threads, nothing had.
LEMMA NoTrouble ==
  ASSUME Watched, trouble' = {}
  PROVE  trouble = {} /\ ~Log!Overlap' /\ ~Log!Growth'
BY Zenon DEF Watched

\* Clearing before a drawing, or a retry, leaves no line of the log.
LEMMA ClearsAll ==
  ASSUME PartsAssumption, LogInv, trouble = {}, logWorker # "saves", logMain \notin {"saves", "ended"}
  PROVE  LET t == Log!ClearLines(Log!Restore(Scr), Log!LinesNum)
         IN  /\ t \in Screens /\ Pos(t) = StartRow
             /\ \A r \in Nat : At(t, r) = IF StartRow <= r THEN Log!Blank ELSE At(Scr, r)
             /\ StartRow + Len(tasks) + Len(infos) + 1 <= t.top + Height
<1> DEFINE n == Log!LinesNum
           s == Log!Restore(Scr)
           t == Log!ClearLines(s, n)
<1>1. Scr \in Screens /\ logSaved \in 0..Height /\ Places /\ Fits /\ Shows
  BY DEF LogInv, LogTypes, ListTypes, ThreadTypes
<1>2. s \in Screens /\ Pos(s) = StartRow /\ \A r \in Nat : At(s, r) = At(Scr, r)
  BY <1>1, RestoreIs, ScreenNow DEF Places
<1>3. n \in Nat /\ n < Height /\ n = Len(tasks) + Len(infos) + 1
  BY CountFits DEF LogInv
<1>4. drawn \in Nat /\ counted \in Nat /\ Len(tasks) \in Nat /\ Len(infos) \in Nat
  BY DEF LogInv, LogTypes, ListTypes, ThreadTypes
<1> HIDE DEF s, n
<1>5. /\ t \in Screens /\ Pos(t) = Pos(s) /\ t.top = TopAt(s, Pos(s) + n)
      /\ \A r \in Nat : At(t, r) = Cleared(s, n, r)
  BY <1>2, <1>3, ClearLinesIs
<1> HIDE DEF t
<1>6. drawn <= n \/ AllBlank
  <2>1. drawn <= counted + 1
    BY <1>1, <1>4 DEF Fits, Log!Growth
  <2>2. counted <= Len(tasks) + Len(infos) \/ AllBlank
    BY <1>1 DEF Fits
  <2> QED BY <1>3, <1>4, <2>1, <2>2
<1>7. \A r \in Nat : StartRow + n <= r => At(Scr, r) = Log!Blank
  <2>1. \A r \in Nat : StartRow + drawn <= r => At(Scr, r) = Log!Blank
    BY <1>1 DEF Shows
  <2>2. \A r \in Nat : StartRow + n <= r => StartRow <= r /\ (drawn <= n => StartRow + drawn <= r)
    BY <1>3, <1>4, Rows
  <2> QED BY <1>6, <2>1, <2>2 DEF AllBlank
<1>8. \A r \in Nat : At(t, r) = IF StartRow <= r THEN Log!Blank ELSE At(Scr, r)
  BY <1>2, <1>3, <1>5, <1>7, Rows DEF Cleared
<1>9. s.top \in Nat /\ Height \in Nat /\ StartRow \in Nat
  BY <1>2, ScreenIs, Rows
<1>10. StartRow + n <= t.top + Height
  BY <1>2, <1>3, <1>5, <1>9 DEF TopAt
<1>11. StartRow + Len(tasks) + Len(infos) + 1 <= t.top + Height
  BY <1>3, <1>4, <1>9, <1>10
<1> QED BY <1>2, <1>5, <1>8, <1>11 DEF t, s, n

\* What can happen between the threads.
LEMMA TroubleIs ==
  ASSUME ThreadTypes, Watched
  PROVE  trouble' \subseteq {"grew", "overlapped"}
BY DEF ThreadTypes, Watched

\* A step that leaves the lists.
LEMMA ListsStay ==
  ASSUME ListTypes, UNCHANGED <<infos, tasks, begun, ended, build>>
  PROVE  ListTypes'
BY DEF ListTypes

\* logger.py:31-44 - the worker looks at the event,
LEMMA TestStopKeeps ==
  ASSUME PartsAssumption, LogInv, Log!TestStop, Watched
  PROVE  LogInv'
<1>1. Scr' = Scr
  BY ScreenStays DEF Log!TestStop, Log!term
<1> USE DEF Log!TestStop, Log!lists, Log!term
<1>2. LogTypes'
  BY <1>1, ListsStay, TroubleIs DEF LogInv, LogTypes, ThreadTypes
<1>3. Turns'
  BY DEF LogInv, Turns, Log!AllEnded
<1>4. ASSUME trouble' = {} PROVE (Places /\ Fits /\ Shows /\ LastDrawing)'
  <2>1. trouble = {} /\ ~Log!Overlap' /\ ~Log!Growth'
    BY <1>4, NoTrouble
  <2>2. Places' 
    BY <1>1, <2>1 DEF LogInv, Places
  <2>3. AllBlank' <=> AllBlank
    BY <1>1 DEF AllBlank
  <2>4. Fits'
    BY <1>1, <2>1, <2>3 DEF LogInv, Fits
  <2>5. Shows'
    BY <1>1, <2>1 DEF LogInv, Shows
  <2>6. LastDrawing'
    <3>1. logMain # "ended"
      BY DEF LogInv, Turns
    <3> QED BY <3>1 DEF LastDrawing
  <2> QED BY <2>2, <2>4, <2>5, <2>6
<1> QED BY <1>2, <1>3, <1>4 DEF LogInv

\* logger.py:82-85 - clears the lines it counts,
LEMMA ClearKeeps ==
  ASSUME PartsAssumption, LogInv, Log!Clear, Watched
  PROVE  LogInv'
<1> DEFINE s == Log!Restore(Scr)
           t == Log!ClearLines(s, Log!LinesNum)
<1>1. t \in Screens
  <2>1. s \in Screens
    BY RestoreIs DEF LogInv, LogTypes, ListTypes, ThreadTypes
  <2> HIDE DEF s
  <2>2. Log!LinesNum \in Nat /\ Log!LinesNum < Height
    BY CountFits DEF LogInv
  <2> QED BY <2>1, <2>2, ClearLinesIs
<1>2. Scr' = t /\ top' = t.top
  <2>1. Log!Show(t)
    BY DEF Log!Clear, Scr
  <2> HIDE DEF t
  <2> QED BY <1>1, <2>1, ShowIs
<1> HIDE DEF t
<1> USE DEF Log!Clear, Log!lists
<1>3. LogTypes'
  BY <1>1, <1>2, ListsStay, TroubleIs DEF LogInv, LogTypes, ThreadTypes
<1>4. Turns'
  BY DEF LogInv, Turns, Log!AllEnded
<1>5. ASSUME trouble' = {} PROVE (Places /\ Fits /\ Shows /\ LastDrawing)'
  <2>1. trouble = {} /\ ~Log!Overlap' /\ ~Log!Growth'
    BY <1>5, NoTrouble
  <2>2. logMain \notin {"saves", "empties", "prints", "ended"} /\ logMain' = logMain
    BY <2>1 DEF LogInv, Turns, Log!Overlap
  <2>3. /\ Pos(t) = StartRow
        /\ \A r \in Nat : At(t, r) = IF StartRow <= r THEN Log!Blank ELSE At(Scr, r)
        /\ StartRow + Len(tasks) + Len(infos) + 1 <= t.top + Height
    BY <2>1, <2>2, ClearsAll DEF t
  <2>4. Places'
    BY <1>2, <2>2, <2>3 DEF Places
  <2>5. AllBlank'
    BY <1>2, <2>3 DEF AllBlank
  <2>6. Fits'
    <3>1. StartRow + counted' + 1 <= top' + Height
      <4>1. Len(tasks) \in Nat /\ Len(infos) \in Nat /\ StartRow \in Nat
        BY Rows DEF LogInv, LogTypes, ListTypes, ThreadTypes
      <4> QED BY <1>2, <2>3, <4>1
    <3>2. counted' <= Len(tasks)' + Len(infos)'
      BY DEF LogInv, LogTypes, ListTypes, ThreadTypes
    <3> QED BY <2>1, <2>5, <3>1, <3>2 DEF Fits
  <2>7. Shows'
    <3>1. /\ \A r \in Nat \ {0} : r < StartRow => At(t, r) = Log!User
          /\ \A r \in Nat : At(t, r) # Log!Mixed
      <4>1. Log!Blank # Log!Mixed
        BY DEF Log!Blank, Log!Mixed
      <4> QED BY <2>1, <2>3, <4>1, Rows DEF LogInv, Shows
    <3>2. drawn' = 0 /\ StartRow + 0 = StartRow
      BY Rows
    <3> QED BY <1>2, <2>3, <3>1, <3>2 DEF Shows
  <2>8. LastDrawing'
    BY <2>2 DEF LastDrawing
  <2> QED BY <2>4, <2>6, <2>7, <2>8
<1> QED BY <1>3, <1>4, <1>5 DEF LogInv

\* saves the row, which is that where the log began,
LEMMA SaveKeeps ==
  ASSUME PartsAssumption, LogInv, Log!Save, Watched
  PROVE  LogInv'
<1>1. Scr' = Scr
  BY ScreenStays DEF Log!Save
<1> USE DEF Log!Save, Log!lists
<1>2. cursor \in 1..Height
  BY ScreenNow DEF LogInv, LogTypes, ListTypes, ThreadTypes, Screens
<1>3. LogTypes'
  <2>1. cursor \in 0..Height
    BY <1>2, Rows
  <2> QED BY <1>1, <2>1, ListsStay, TroubleIs DEF LogInv, LogTypes, ThreadTypes
<1>4. Turns'
  BY DEF LogInv, Turns, Log!AllEnded
<1>5. ASSUME trouble' = {} PROVE (Places /\ Fits /\ Shows /\ LastDrawing)'
  <2>1. trouble = {} /\ ~Log!Overlap' /\ ~Log!Growth'
    BY <1>5, NoTrouble
  <2>2. logMain \notin {"saves", "empties", "prints", "ended"} /\ logMain' = logMain
    BY <2>1 DEF LogInv, Turns, Log!Overlap
  <2>3. top + cursor = StartRow /\ cursor # 0
    BY <1>2, <2>1, ScreenNow, Rows DEF LogInv, Places
  <2>4. Places'
    BY <1>1, <2>1, <2>2, <2>3 DEF LogInv, Places
  <2>5. AllBlank' <=> AllBlank
    BY <1>1 DEF AllBlank
  <2>6. Fits'
    BY <2>1, <2>2, <2>5 DEF LogInv, Fits
  <2>7. Shows'
    BY <1>1, <2>1 DEF LogInv, Shows
  <2>8. LastDrawing'
    BY <2>2 DEF LastDrawing
  <2> QED BY <2>4, <2>6, <2>7, <2>8
<1> QED BY <1>3, <1>4, <1>5 DEF LogInv

\* logger.py:76-80 - draws the messages in the rows it cleared,
LEMMA DrawInfosKeeps ==
  ASSUME PartsAssumption, LogInv, Log!DrawInfos, Watched
  PROVE  LogInv' /\ (trouble' = {} => top' = top)
<1> DEFINE s == Log!Restore(Scr)
           t == Log!WriteAll(s, infos)
<1>1. s \in Screens /\ infos \in Seq(LineSet) /\ Len(infos) \in Nat
  BY RestoreIs DEF LogInv, LogTypes, ListTypes
<1>2. /\ t \in Screens /\ Pos(t) = Pos(s) + Len(infos) /\ t.top = TopAt(s, Pos(s) + Len(infos))
      /\ \A r \in Nat : At(t, r) = Written(s, infos, Len(infos), r)
  <2> HIDE DEF s
  <2> QED BY <1>1, WriteAllIs
<1>3. Scr' = t /\ top' = t.top
  <2>1. Log!Show(t)
    BY DEF Log!DrawInfos, Scr
  <2> HIDE DEF t
  <2> QED BY <1>2, <2>1, ShowIs
<1> HIDE DEF t
<1> USE DEF Log!DrawInfos, Log!lists
<1>4. LogTypes'
  BY <1>1, <1>2, <1>3, ListsStay, TroubleIs DEF LogInv, LogTypes, ThreadTypes
<1>5. Turns'
  BY DEF LogInv, Turns, Log!AllEnded
<1>6. ASSUME trouble' = {} PROVE (Places /\ Fits /\ Shows /\ LastDrawing)' /\ top' = top
  <2>1. trouble = {} /\ ~Log!Overlap' /\ ~Log!Growth'
    BY <1>6, NoTrouble
  <2>2. logMain \notin {"saves", "empties", "prints", "ended"} /\ logMain' = logMain
    BY <2>1 DEF LogInv, Turns, Log!Overlap
  <2>3. Pos(s) = StartRow /\ s.top = top /\ top + logSaved = StartRow /\ logSaved # 0
    <3>1. top + logSaved = StartRow /\ logSaved # 0
      BY <2>1, <2>2 DEF LogInv, Places
    <3> QED BY <3>1, RestoreIs, ScreenNow DEF LogInv, LogTypes
  <2>4. Len(infos) <= counted + 1 /\ counted \in Nat /\ top \in Nat
    <3>1. counted \in Nat /\ top \in Nat
      BY ScreenIs, ScreenNow DEF LogInv, LogTypes, ThreadTypes
    <3>2. ~(Len(infos) > counted + 1)
      BY <2>1 DEF Log!Growth
    <3> QED BY <1>1, <3>1, <3>2
  <2>5. t.top = top
    <3>1. StartRow + counted + 1 <= top + Height
      BY <2>1 DEF LogInv, Fits
    <3> QED BY <1>1, <1>2, <2>3, <2>4, <3>1, Rows DEF TopAt
  <2>6. \A r \in Nat : At(t, r) = IF ~(StartRow <= r /\ r < StartRow + Len(infos)) THEN At(Scr, r)
                                  ELSE infos[r - StartRow + 1]
    <3>1. \A r \in Nat : StartRow <= r => At(s, r) = Log!Blank
      BY <2>1, RestoreIs DEF LogInv, LogTypes, Fits, AllBlank
    <3>2. \A r \in Nat : At(s, r) = At(Scr, r)
      BY RestoreIs DEF LogInv, LogTypes
    <3> HIDE DEF s
    <3> QED BY <1>2, <2>3, <3>1, <3>2 DEF Written
  <2>7. Places'
    <3>1. drawn' = Len(infos) /\ Pos(t) = StartRow + Len(infos)
      BY <1>2, <2>3
    <3> QED BY <1>3, <2>2, <2>3, <2>5, <3>1 DEF Places
  <2>8. Fits'
    BY <1>3, <2>1, <2>2, <2>5 DEF LogInv, Fits
  <2>9. Shows'
    <3>1. \A r \in Nat \ {0} : r < StartRow => At(t, r) = Log!User
      BY <2>1, <2>6, Rows DEF LogInv, Shows
    <3>2. \A r \in Nat : At(t, r) # Log!Mixed
      <4>1. \A i \in 1..Len(infos) : infos[i] # Log!Mixed
        BY DEF LogInv, LogTypes, ListTypes, Log!Info, Log!Mixed
      <4>2. \A r \in Nat : StartRow <= r /\ r < StartRow + Len(infos) => r - StartRow + 1 \in 1..Len(infos)
        BY <1>1, Rows
      <4> QED BY <2>1, <2>6, <4>1, <4>2 DEF LogInv, Shows
    <3>3. \A r \in Nat : StartRow + Len(infos) <= r => At(t, r) = Log!Blank
      <4>1. \A r \in Nat : StartRow + Len(infos) <= r => StartRow <= r /\ ~(r < StartRow + Len(infos))
        BY <1>1, Rows
      <4> QED BY <2>1, <2>6, <4>1 DEF LogInv, Fits, AllBlank
    <3> QED BY <1>3, <3>1, <3>2, <3>3 DEF Shows
  <2>10. LastDrawing'
    <3>1. \A k \in 1..Len(infos) : At(t, StartRow + k - 1) = infos[k]
      <4> SUFFICES ASSUME NEW k \in 1..Len(infos) PROVE At(t, StartRow + k - 1) = infos[k]
        OBVIOUS
      <4>1. /\ StartRow + k - 1 \in Nat /\ StartRow <= StartRow + k - 1
            /\ StartRow + k - 1 < StartRow + Len(infos) /\ (StartRow + k - 1) - StartRow + 1 = k
        BY <1>1, Rows
      <4> QED BY <2>6, <4>1
    <3>2. InfosAreShown'
      BY <1>3, <3>1 DEF InfosAreShown
    <3> QED BY <2>2, <3>2 DEF LastDrawing
  <2> QED BY <1>3, <2>5, <2>7, <2>8, <2>9, <2>10
<1> QED BY <1>4, <1>5, <1>6 DEF LogInv

\* logger.py:157-161 - and the tasks below them.
LEMMA DrawTasksKeeps ==
  ASSUME PartsAssumption, LogInv, Log!DrawTasks, Watched
  PROVE  LogInv' /\ (trouble' = {} => top' = top)
<1> DEFINE lines == Log!TaskLines
           t == Log!WriteAll(Scr, lines)
<1>1. /\ Scr \in Screens /\ lines \in Seq(LineSet) /\ Len(lines) \in Nat /\ Len(lines) = Len(Log!Shown)
      /\ \A i \in DOMAIN lines : lines[i] # Log!Mixed
      /\ Len(LogLines) = Len(infos) + Len(lines)
      /\ \A k \in 1..Len(LogLines) : LogLines[k] = IF k <= Len(infos) THEN infos[k] ELSE lines[k - Len(infos)]
  BY TaskLinesAre DEF LogInv, LogTypes
<1>2. drawn \in Nat /\ Len(infos) \in Nat /\ counted \in Nat /\ top \in Nat
  BY ScreenIs, ScreenNow DEF LogInv, LogTypes, ListTypes, ThreadTypes
<1> HIDE DEF lines
<1>3. /\ t \in Screens /\ Pos(t) = Pos(Scr) + Len(lines) /\ t.top = TopAt(Scr, Pos(Scr) + Len(lines))
      /\ \A r \in Nat : At(t, r) = Written(Scr, lines, Len(lines), r)
  BY <1>1, WriteAllIs
<1>4. Scr' = t /\ top' = t.top
  <2>1. Log!Show(t)
    BY DEF Log!DrawTasks, Scr, lines
  <2> HIDE DEF t
  <2> QED BY <1>3, <2>1, ShowIs
<1>5. drawn' = drawn + Len(lines)
  BY <1>1 DEF Log!DrawTasks
<1> HIDE DEF t
<1> USE DEF Log!DrawTasks, Log!lists
<1>6. LogTypes'
  BY <1>1, <1>2, <1>3, <1>4, <1>5, ListsStay, TroubleIs DEF LogInv, LogTypes, ThreadTypes
<1>7. Turns'
  BY DEF LogInv, Turns, Log!AllEnded
<1>8. ASSUME trouble' = {} PROVE (Places /\ Fits /\ Shows /\ LastDrawing)' /\ top' = top
  <2>1. trouble = {} /\ ~Log!Overlap' /\ ~Log!Growth'
    BY <1>8, NoTrouble
  <2>2. logMain \notin {"saves", "empties", "prints", "ended"} /\ logMain' = logMain
    BY <2>1 DEF LogInv, Turns, Log!Overlap, Fits
  <2>3. Pos(Scr) = StartRow + drawn /\ top + logSaved = StartRow /\ logSaved # 0
    BY <2>1, <2>2 DEF LogInv, Places
  <2>4. drawn + Len(lines) <= counted + 1
    <3>1. ~(drawn + Len(lines) > counted + 1)
      BY <1>5, <2>1 DEF Log!Growth
    <3> QED BY <1>1, <1>2, <3>1
  <2>5. t.top = top
    <3>1. StartRow + counted + 1 <= top + Height
      BY <2>1 DEF LogInv, Fits
    <3> QED BY <1>1, <1>2, <1>3, <2>3, <2>4, <3>1, ScreenNow, Rows DEF TopAt
  <2>6. \A r \in Nat : At(t, r) = IF ~(StartRow + drawn <= r /\ r < StartRow + drawn + Len(lines)) THEN At(Scr, r)
                                  ELSE lines[r - (StartRow + drawn) + 1]
    <3>1. \A r \in Nat : StartRow + drawn <= r => At(Scr, r) = Log!Blank
      BY <2>1, <2>2 DEF LogInv, Shows
    <3> QED BY <1>3, <2>3, <3>1 DEF Written
  <2>7. Places'
    <3>1. Pos(t) = StartRow + drawn'
      <4>1. Pos(t) = StartRow + drawn + Len(lines)
        BY <1>3, <2>3
      <4>2. StartRow + drawn + Len(lines) = StartRow + (drawn + Len(lines))
        <5>1. \A a, b, c \in Nat : a + b + c = a + (b + c)
          OBVIOUS
        <5>2. StartRow \in Nat /\ drawn \in Nat /\ Len(lines) \in Nat
          BY <1>1, <1>2, Rows
        <5> QED BY <5>1, <5>2
      <4> QED BY <1>5, <4>1, <4>2, Zenon
    <3> QED BY <1>4, <2>2, <2>3, <2>5, <3>1 DEF Places
  <2>8. Fits'
    <3>1. counted <= Len(tasks) + Len(infos)
      BY <2>1 DEF LogInv, Fits
    <3> QED BY <2>1, <2>2, <3>1 DEF Fits
  <2>9. Shows'
    <3>1. \A r \in Nat \ {0} : r < StartRow => At(t, r) = Log!User
      <4>1. \A r \in Nat : r < StartRow => ~(StartRow + drawn <= r)
        BY <1>2, Rows
      <4> QED BY <2>1, <2>6, <4>1 DEF LogInv, Shows
    <3>2. \A r \in Nat : At(t, r) # Log!Mixed
      <4>1. \A r \in Nat : StartRow + drawn <= r /\ r < StartRow + drawn + Len(lines)
                           => r - (StartRow + drawn) + 1 \in 1..Len(lines)
        BY <1>1, <1>2, Rows
      <4>2. \A i \in 1..Len(lines) : lines[i] # Log!Mixed
        BY <1>1
      <4> QED BY <2>1, <2>6, <4>1, <4>2 DEF LogInv, Shows
    <3>3. \A r \in Nat : StartRow + (drawn + Len(lines)) <= r => At(t, r) = Log!Blank
      <4>1. \A r \in Nat : StartRow + (drawn + Len(lines)) <= r
                           => StartRow + drawn <= r /\ ~(r < StartRow + drawn + Len(lines))
        BY <1>1, <1>2, Rows
      <4> QED BY <2>1, <2>2, <2>6, <4>1 DEF LogInv, Shows
    <3> QED BY <1>4, <1>5, <3>1, <3>2, <3>3 DEF Shows
  <2>10. LastDrawing'
    <3>1. ASSUME last PROVE LinesAreShown'
      <4>1. InfosAreShown /\ Log!AllEnded
        BY <2>1, <3>1 DEF LogInv, LastDrawing, Turns
      <4>2. LogLines' = LogLines
        BY <4>1, LinesStay DEF LogInv
      <4>3. drawn' = Len(LogLines)
        BY <1>1, <1>5, <4>1 DEF InfosAreShown
      <4>4. ASSUME NEW k \in 1..Len(LogLines) PROVE At(t, StartRow + k - 1) = LogLines[k]
        <5>1. k \in Nat /\ 1 <= k /\ k <= Len(infos) + Len(lines) /\ StartRow + k - 1 \in Nat /\ drawn = Len(infos)
          BY <1>1, <1>2, <4>1, Rows DEF InfosAreShown
        <5>2. CASE k <= Len(infos)
          <6>1. ~(StartRow + drawn <= StartRow + k - 1) /\ k \in 1..Len(infos)
            BY <1>2, <5>1, <5>2, Rows
          <6>2. At(t, StartRow + k - 1) = At(Scr, StartRow + k - 1)
            BY <2>6, <5>1, <6>1
          <6>3. At(Scr, StartRow + k - 1) = infos[k]
            BY <4>1, <6>1 DEF InfosAreShown
          <6> QED BY <1>1, <5>2, <6>2, <6>3
        <5>3. CASE ~(k <= Len(infos))
          <6>1. /\ StartRow + drawn <= StartRow + k - 1 /\ StartRow + k - 1 < StartRow + drawn + Len(lines)
                /\ (StartRow + k - 1) - (StartRow + drawn) + 1 = k - Len(infos)
            BY <1>1, <1>2, <5>1, <5>3, Rows
          <6>2. At(t, StartRow + k - 1) = lines[k - Len(infos)]
            BY <2>6, <5>1, <6>1
          <6> QED BY <1>1, <5>3, <6>2
        <5> QED BY <5>2, <5>3
      <4> QED BY <1>4, <4>2, <4>3, <4>4 DEF LinesAreShown
    <3> QED BY <2>2, <3>1 DEF LastDrawing
  <2> QED BY <1>4, <2>5, <2>7, <2>8, <2>9, <2>10
<1> QED BY <1>6, <1>7, <1>8 DEF LogInv

\* A step of the tasks or of the main thread that leaves the screen as it is.
LEMMA ScreenRests ==
  ASSUME LogTypes, ListTypes', ThreadTypes', UNCHANGED <<rows, top, cursor, logSaved>>
  PROVE  LogTypes' /\ Scr' = Scr /\ (AllBlank' <=> AllBlank)
BY ScreenStays DEF LogTypes, AllBlank

\* logger.py:97-99 - a message more, whatever the worker is at.
LEMMA AddInfoKeeps ==
  ASSUME PartsAssumption, LogInv, Log!AddInfo, Watched
  PROVE  LogInv'
<1> USE DEF Log!AddInfo, Log!lists, Log!thread, Log!term
<1>1. ListTypes'
  <2> DEFINE q == Append(infos, Log!Info(build, Len(infos) + 1))
  <2>1. infos \in Seq(LineSet) /\ Len(infos) \in Nat /\ build \in Nat /\ Len(infos) < MaxInfos /\ MaxInfos \in Nat
    BY Rows DEF LogInv, LogTypes, ListTypes
  <2>2. Log!Info(build, Len(infos) + 1) \in LineSet
    BY <2>1 DEF Log!Info, LineSet
  <2>3. q \in Seq(LineSet) /\ Len(q) = Len(infos) + 1 /\ Len(q) <= MaxInfos
    BY <2>1, <2>2
  <2>4. \A i \in DOMAIN q : q[i] = IF i = Len(infos) + 1 THEN Log!Info(build, Len(infos) + 1) ELSE infos[i]
    BY <2>1, <2>2
  <2>5. \A i \in DOMAIN q : q[i] = Log!Info(build, i)
    <3>1. \A i \in DOMAIN q : i = Len(infos) + 1 \/ i \in DOMAIN infos
      BY <2>1, <2>2
    <3>2. \A i \in DOMAIN infos : infos[i] = Log!Info(build, i)
      BY DEF LogInv, LogTypes, ListTypes
    <3> HIDE DEF q
    <3> QED BY <2>4, <3>1, <3>2
  <2> HIDE DEF q
  <2>6. infos' = q
    BY DEF q
  <2> QED BY <2>3, <2>5, <2>6 DEF LogInv, LogTypes, ListTypes, Log!Info
<1>2. ThreadTypes'
  BY TroubleIs DEF LogInv, LogTypes, ThreadTypes
<1>3. LogTypes' /\ Scr' = Scr /\ (AllBlank' <=> AllBlank)
  BY <1>1, <1>2, ScreenRests DEF LogInv
<1>4. Turns'
  BY DEF LogInv, Turns, Log!AllEnded
<1>5. ~last /\ logWorker # "ended" /\ logMain = "builds"
  BY DEF LogInv, Turns
<1>6. ASSUME trouble' = {} PROVE (Places /\ Fits /\ Shows /\ LastDrawing)'
  <2>1. trouble = {} /\ ~Log!Overlap' /\ ~Log!Growth'
    BY <1>6, NoTrouble
  <2>2. Places'
    BY <1>3, <2>1 DEF LogInv, Places
  <2>3. Fits'
    <3>1. Len(infos)' = Len(infos) + 1
      BY DEF LogInv, LogTypes, ListTypes
    <3>2. counted \in Nat /\ Len(infos) \in Nat /\ Len(tasks) \in Nat
      BY DEF LogInv, LogTypes, ListTypes, ThreadTypes
    <3>3. counted <= Len(tasks) + Len(infos) => counted <= Len(tasks) + (Len(infos) + 1)
      BY <3>2
    <3> QED BY <1>3, <2>1, <3>1, <3>3 DEF LogInv, Fits
  <2>4. Shows'
    BY <1>3, <2>1 DEF LogInv, Shows
  <2>5. LastDrawing'
    BY <1>5 DEF LastDrawing
  <2> QED BY <2>2, <2>3, <2>4, <2>5
<1> QED BY <1>3, <1>4, <1>6 DEF LogInv

\* The tasks of a build.
LEMMA SetSortedTasksKeeps ==
  ASSUME PartsAssumption, LogInv, Log!SetSortedTasks, Watched
  PROVE  LogInv'
<1> USE DEF Log!SetSortedTasks, Log!lists, Log!thread, Log!term
<1> DEFINE q == [i \in 1..NumTasks[build] |-> Log!Task(build, i)]
<1>1. build \in DOMAIN NumTasks /\ NumTasks[build] \in Nat
  BY Rows DEF LogInv, LogTypes, ListTypes
<1>2. q \in Seq(TaskSet) /\ Len(q) = NumTasks[build] /\ \A i \in DOMAIN q : q[i] = Log!Task(build, i)
  <2>1. \A i \in 1..NumTasks[build] : Log!Task(build, i) \in TaskSet
    BY <1>1 DEF TaskSet
  <2> QED BY <1>1, <2>1
<1> HIDE DEF q
<1>3. tasks' = q
  BY DEF q
<1>4. ListTypes'
  <2>1. tasks' \in Seq(TaskSet) /\ Len(tasks') <= NumTasks[build] /\ \A i \in DOMAIN tasks' : tasks'[i] = Log!Task(build, i)
    BY <1>1, <1>2, <1>3
  <2> QED BY <2>1 DEF LogInv, LogTypes, ListTypes
<1>5. ThreadTypes'
  BY TroubleIs DEF LogInv, LogTypes, ThreadTypes
<1>6. LogTypes' /\ Scr' = Scr /\ (AllBlank' <=> AllBlank)
  BY <1>4, <1>5, ScreenRests DEF LogInv
<1>7. Turns'
  BY DEF LogInv, Turns
<1>8. ~last /\ logWorker # "ended" /\ logMain = "builds"
  BY DEF LogInv, Turns
<1>9. ASSUME trouble' = {} PROVE (Places /\ Fits /\ Shows /\ LastDrawing)'
  <2>1. trouble = {} /\ ~Log!Overlap' /\ ~Log!Growth'
    BY <1>9, NoTrouble
  <2>2. Places'
    BY <1>6, <2>1 DEF LogInv, Places
  <2>3. Fits'
    <3>1. Len(tasks) = 0 /\ Len(tasks)' \in Nat
      BY <1>1, <1>2, <1>3
    <3>2. counted \in Nat /\ Len(infos) \in Nat
      BY DEF LogInv, LogTypes, ListTypes, ThreadTypes
    <3>3. counted <= Len(tasks) + Len(infos) => counted <= Len(tasks)' + Len(infos)
      <4>1. \A a, b, c \in Nat : a <= 0 + b => a <= c + b
        OBVIOUS
      <4> QED BY <3>1, <3>2, <4>1, Zenon
    <3> QED BY <1>6, <2>1, <3>3 DEF LogInv, Fits
  <2>4. Shows'
    BY <1>6, <2>1 DEF LogInv, Shows
  <2>5. LastDrawing'
    BY <1>8 DEF LastDrawing
  <2> QED BY <2>2, <2>3, <2>4, <2>5
<1> QED BY <1>6, <1>7, <1>9 DEF LogInv

\* A task begins, which may be between two drawings.
LEMMA BeginKeeps ==
  ASSUME PartsAssumption, LogInv, Log!Begin, Watched
  PROVE  LogInv'
<1> USE DEF Log!Begin, Log!thread, Log!term
<1>1. ListTypes'
  BY DEF LogInv, LogTypes, ListTypes
<1>2. ThreadTypes'
  BY TroubleIs DEF LogInv, LogTypes, ThreadTypes
<1>3. LogTypes' /\ Scr' = Scr /\ (AllBlank' <=> AllBlank)
  BY <1>1, <1>2, ScreenRests DEF LogInv
<1>4. logMain = "builds"
  BY DEF LogInv, LogTypes, ListTypes, Turns, Log!AllEnded
<1>5. Turns'
  BY <1>4 DEF LogInv, Turns
<1>6. ~last /\ logWorker # "ended"
  BY <1>4 DEF LogInv, Turns
<1>7. ASSUME trouble' = {} PROVE (Places /\ Fits /\ Shows /\ LastDrawing)'
  <2>1. trouble = {} /\ ~Log!Overlap' /\ ~Log!Growth'
    BY <1>7, NoTrouble
  <2>2. Places'
    BY <1>3, <2>1 DEF LogInv, Places
  <2>3. Fits'
    BY <1>3, <2>1 DEF LogInv, Fits
  <2>4. Shows'
    BY <1>3, <2>1 DEF LogInv, Shows
  <2>5. LastDrawing'
    BY <1>4, <1>6 DEF LastDrawing
  <2> QED BY <2>2, <2>3, <2>4, <2>5
<1> QED BY <1>3, <1>5, <1>7 DEF LogInv

\* A task ends.
LEMMA EndKeeps ==
  ASSUME PartsAssumption, LogInv, Log!End, Watched
  PROVE  LogInv'
<1> USE DEF Log!End, Log!thread, Log!term
<1>1. ListTypes' /\ ended \subseteq ended'
  BY DEF LogInv, LogTypes, ListTypes
<1>2. ThreadTypes'
  BY TroubleIs DEF LogInv, LogTypes, ThreadTypes
<1>3. LogTypes' /\ Scr' = Scr /\ (AllBlank' <=> AllBlank)
  BY <1>1, <1>2, ScreenRests DEF LogInv
<1>4. Log!AllEnded => Log!AllEnded'
  BY <1>1 DEF Log!AllEnded
<1>5. Turns'
  BY <1>4 DEF LogInv, Turns
<1>6. ASSUME trouble' = {} PROVE (Places /\ Fits /\ Shows /\ LastDrawing)'
  <2>1. trouble = {} /\ ~Log!Overlap' /\ ~Log!Growth'
    BY <1>6, NoTrouble
  <2>2. Places'
    BY <1>3, <2>1 DEF LogInv, Places
  <2>3. Fits'
    BY <1>3, <2>1 DEF LogInv, Fits
  <2>4. Shows'
    BY <1>3, <2>1 DEF LogInv, Shows
  <2>5. LastDrawing'
    <3>1. logWorker = "ended" => LogLines' = LogLines
      <4>1. logWorker = "ended" => Log!AllEnded
        BY DEF LogInv, Turns
      <4>2. LogTypes /\ UNCHANGED <<infos, tasks, begun>>
        BY DEF LogInv
      <4> QED BY <1>1, <4>1, <4>2, LinesStay
    <3>2. LinesAreShown /\ LogLines' = LogLines => LinesAreShown'
      BY <1>3 DEF LinesAreShown
    <3>3. InfosAreShown => InfosAreShown'
      BY <1>3 DEF InfosAreShown
    <3>4. LastDrawing
      BY <2>1 DEF LogInv
    <3> QED BY <1>3, <3>1, <3>2, <3>3, <3>4 DEF LastDrawing
  <2> QED BY <2>2, <2>3, <2>4, <2>5
<1> QED BY <1>3, <1>5, <1>6 DEF LogInv

\* A retry clears the lines,
LEMMA ResetClearsKeeps ==
  ASSUME PartsAssumption, LogInv, Log!ResetClears, Watched
  PROVE  LogInv'
<1> DEFINE s == Log!Restore(Scr)
           t == Log!ClearLines(s, Log!LinesNum)
<1>1. t \in Screens
  <2>1. s \in Screens
    BY RestoreIs DEF LogInv, LogTypes
  <2> HIDE DEF s
  <2>2. Log!LinesNum \in Nat /\ Log!LinesNum < Height
    BY CountFits DEF LogInv
  <2> QED BY <2>1, <2>2, ClearLinesIs
<1>2. Scr' = t /\ top' = t.top
  <2>1. Log!Show(t)
    BY DEF Log!ResetClears, Scr
  <2> HIDE DEF t
  <2> QED BY <1>1, <2>1, ShowIs
<1> HIDE DEF t
<1> USE DEF Log!ResetClears, Log!lists, Log!thread
<1>3. LogTypes'
  BY <1>1, <1>2, ListsStay, TroubleIs DEF LogInv, LogTypes, ThreadTypes
<1>4. Turns'
  <2>1. build \in Nat /\ Len(NumTasks) \in Nat
    BY Rows DEF LogInv, LogTypes, ListTypes
  <2> QED BY <2>1 DEF LogInv, Turns, Log!AllEnded
<1>5. ASSUME trouble' = {} PROVE (Places /\ Fits /\ Shows /\ LastDrawing)'
  <2>1. trouble = {} /\ ~Log!Overlap' /\ ~Log!Growth'
    BY <1>5, NoTrouble
  <2>2. logWorker \in {"tests", "clears"}
    BY <2>1 DEF LogInv, LogTypes, ThreadTypes, Turns, Log!Overlap
  <2>3. /\ Pos(t) = StartRow
        /\ \A r \in Nat : At(t, r) = IF StartRow <= r THEN Log!Blank ELSE At(Scr, r)
    BY <2>1, <2>2, ClearsAll DEF t
  <2>4. Places'
    BY <1>2, <2>2, <2>3 DEF Places
  <2>5. AllBlank'
    BY <1>2, <2>3 DEF AllBlank
  <2>6. Fits'
    BY <2>1, <2>2, <2>5 DEF Fits
  <2>7. Shows'
    <3>1. /\ \A r \in Nat \ {0} : r < StartRow => At(t, r) = Log!User
          /\ \A r \in Nat : At(t, r) # Log!Mixed
      <4>1. Log!Blank # Log!Mixed
        BY DEF Log!Blank, Log!Mixed
      <4> QED BY <2>1, <2>3, <4>1, Rows DEF LogInv, Shows
    <3>2. \A r \in Nat : StartRow + drawn <= r => StartRow <= r
      BY Rows DEF LogInv, LogTypes, ThreadTypes
    <3> QED BY <1>2, <2>3, <3>1, <3>2 DEF Shows
  <2>8. LastDrawing'
    BY <2>2 DEF LastDrawing
  <2> QED BY <2>4, <2>6, <2>7, <2>8
<1> QED BY <1>3, <1>4, <1>5 DEF LogInv

\* saves the row,
LEMMA ResetSavesKeeps ==
  ASSUME PartsAssumption, LogInv, Log!ResetSaves, Watched
  PROVE  LogInv'
<1>1. Scr' = Scr
  BY ScreenStays DEF Log!ResetSaves
<1> USE DEF Log!ResetSaves, Log!lists, Log!thread
<1>2. cursor \in 1..Height
  BY ScreenNow DEF LogInv, LogTypes, Screens
<1>3. LogTypes'
  <2>1. cursor \in 0..Height
    BY <1>2, Rows
  <2> QED BY <1>1, <2>1, ListsStay, TroubleIs DEF LogInv, LogTypes, ThreadTypes
<1>4. Turns'
  BY DEF LogInv, Turns, Log!AllEnded
<1>5. ASSUME trouble' = {} PROVE (Places /\ Fits /\ Shows /\ LastDrawing)'
  <2>1. trouble = {} /\ ~Log!Overlap' /\ ~Log!Growth'
    BY <1>5, NoTrouble
  <2>2. logWorker \in {"tests", "clears"}
    BY <2>1 DEF LogInv, LogTypes, ThreadTypes, Turns, Log!Overlap
  <2>3. top + cursor = StartRow /\ cursor # 0
    BY <1>2, <2>1, ScreenNow, Rows DEF LogInv, Places
  <2>4. Places'
    BY <1>1, <2>2, <2>3 DEF LogInv, Places
  <2>5. AllBlank' /\ AllBlank
    BY <1>1, <2>1 DEF LogInv, Fits, AllBlank
  <2>6. Fits'
    BY <2>1, <2>2, <2>5 DEF LogInv, Fits
  <2>7. Shows'
    BY <1>1, <2>1 DEF LogInv, Shows
  <2>8. LastDrawing'
    BY <2>2 DEF LastDrawing
  <2> QED BY <2>4, <2>6, <2>7, <2>8
<1> QED BY <1>3, <1>4, <1>5 DEF LogInv

\* and empties the lists.
LEMMA ResetEmptiesKeeps ==
  ASSUME PartsAssumption, LogInv, Log!ResetEmpties, Watched
  PROVE  LogInv'
<1> USE DEF Log!ResetEmpties, Log!thread, Log!term
<1>1. ListTypes'
  <2>1. build + 1 \in DOMAIN NumTasks
    <3>1. build \in DOMAIN NumTasks /\ build < Len(NumTasks) /\ NumTasks \in Seq(Nat)
      BY DEF LogInv, LogTypes, ListTypes, Turns, PartsAssumption, Log!ProgressAssumption
    <3> QED BY <3>1
  <2>2. <<>> \in Seq(LineSet) /\ <<>> \in Seq(TaskSet) /\ Len(<<>>) = 0
    OBVIOUS
  <2>3. NumTasks[build + 1] \in Nat /\ MaxInfos \in Nat
    BY <2>1, Rows
  <2>4. ended \subseteq begun
    BY DEF LogInv, LogTypes, ListTypes
  <2> QED BY <2>1, <2>2, <2>3, <2>4 DEF ListTypes
<1>2. ThreadTypes'
  BY TroubleIs DEF LogInv, LogTypes, ThreadTypes
<1>3. LogTypes' /\ Scr' = Scr /\ (AllBlank' <=> AllBlank)
  BY <1>1, <1>2, ScreenRests DEF LogInv
<1>4. Turns'
  BY DEF LogInv, Turns
<1>5. ASSUME trouble' = {} PROVE (Places /\ Fits /\ Shows /\ LastDrawing)'
  <2>1. trouble = {} /\ ~Log!Overlap' /\ ~Log!Growth'
    BY <1>5, NoTrouble
  <2>2. logWorker \in {"tests", "clears"}
    BY <2>1 DEF LogInv, LogTypes, ThreadTypes, Turns, Fits, Log!Overlap
  <2>3. Places'
    BY <1>3, <2>1, <2>2 DEF LogInv, Places
  <2>4. AllBlank
    BY <2>1 DEF LogInv, Fits
  <2>5. Fits'
    BY <1>3, <2>1, <2>2, <2>4 DEF Fits
  <2>6. Shows'
    BY <1>3, <2>1 DEF LogInv, Shows
  <2>7. LastDrawing'
    BY <2>2 DEF LastDrawing
  <2> QED BY <2>3, <2>5, <2>6, <2>7
<1> QED BY <1>3, <1>4, <1>5 DEF LogInv

\* The main thread sets the event,
LEMMA StopKeeps ==
  ASSUME PartsAssumption, LogInv, Log!Stop, Watched
  PROVE  LogInv'
<1> USE DEF Log!Stop, Log!lists, Log!thread, Log!term
<1>1. ListTypes'
  BY ListsStay DEF LogInv, LogTypes
<1>2. ThreadTypes'
  BY TroubleIs DEF LogInv, LogTypes, ThreadTypes
<1>3. LogTypes' /\ Scr' = Scr /\ (AllBlank' <=> AllBlank)
  BY <1>1, <1>2, ScreenRests DEF LogInv
<1>4. ~last /\ logWorker # "ended"
  BY DEF LogInv, Turns
<1>5. Turns'
  BY <1>4 DEF LogInv, Turns, Log!AllEnded
<1>6. ASSUME trouble' = {} PROVE (Places /\ Fits /\ Shows /\ LastDrawing)'
  <2>1. trouble = {} /\ ~Log!Overlap' /\ ~Log!Growth'
    BY <1>6, NoTrouble
  <2>2. Places'
    BY <1>3, <2>1 DEF LogInv, Places
  <2>3. Fits'
    BY <1>3, <2>1 DEF LogInv, Fits
  <2>4. Shows'
    BY <1>3, <2>1 DEF LogInv, Shows
  <2>5. LastDrawing'
    BY <1>4 DEF LastDrawing
  <2> QED BY <2>2, <2>3, <2>4, <2>5
<1> QED BY <1>3, <1>5, <1>6 DEF LogInv

\* waits for the worker,
LEMMA JoinKeeps ==
  ASSUME PartsAssumption, LogInv, Log!Join, Watched
  PROVE  LogInv'
<1> USE DEF Log!Join, Log!lists, Log!thread, Log!term
<1>1. ListTypes'
  BY ListsStay DEF LogInv, LogTypes
<1>2. ThreadTypes'
  BY TroubleIs DEF LogInv, LogTypes, ThreadTypes
<1>3. LogTypes' /\ Scr' = Scr /\ (AllBlank' <=> AllBlank)
  BY <1>1, <1>2, ScreenRests DEF LogInv
<1>4. Turns'
  BY DEF LogInv, Turns, Log!AllEnded
<1>5. ASSUME trouble' = {} PROVE (Places /\ Fits /\ Shows /\ LastDrawing)'
  <2>1. trouble = {} /\ ~Log!Overlap' /\ ~Log!Growth'
    BY <1>5, NoTrouble
  <2>2. Places'
    BY <1>3, <2>1 DEF LogInv, Places
  <2>3. Fits'
    BY <1>3, <2>1 DEF LogInv, Fits
  <2>4. Shows'
    BY <1>3, <2>1 DEF LogInv, Shows
  <2>5. LastDrawing'
    <3>1. LinesAreShown
      BY <2>1 DEF LogInv, LastDrawing
    <3>2. LogLines' = LogLines
      <4>1. Log!AllEnded /\ LogTypes
        BY DEF LogInv, Turns
      <4> QED BY <4>1, LinesStay
    <3>3. LinesAreShown'
      BY <1>3, <3>1, <3>2 DEF LinesAreShown
    <3> QED BY <3>3 DEF LastDrawing
  <2> QED BY <2>2, <2>3, <2>4, <2>5
<1> QED BY <1>3, <1>4, <1>5 DEF LogInv

\* and prints the footer below the last drawing.
LEMMA PrintFooterKeeps ==
  ASSUME PartsAssumption, LogInv, Log!PrintFooter, Watched
  PROVE  LogInv'
<1> DEFINE t == Log!Write(Scr, Log!Footer)
<1>1. /\ t \in Screens
      /\ \A r \in Nat : At(t, r) = IF r # Pos(Scr) THEN At(Scr, r)
                                   ELSE IF At(Scr, r) = Log!Blank THEN Log!Footer ELSE Log!Mixed
  BY WriteIs, Lines DEF LogInv, LogTypes
<1>2. Scr' = t
  <2>1. Log!Show(t)
    BY DEF Log!PrintFooter, Scr
  <2> HIDE DEF t
  <2> QED BY <1>1, <2>1, ShowIs
<1> HIDE DEF t
<1> USE DEF Log!PrintFooter, Log!lists, Log!thread
<1>3. LogTypes'
  BY <1>1, <1>2, ListsStay, TroubleIs DEF LogInv, LogTypes, ThreadTypes
<1>4. Turns'
  BY DEF LogInv, Turns, Log!AllEnded
<1>5. ASSUME trouble' = {} PROVE (Places /\ Fits /\ Shows /\ LastDrawing)'
  <2>1. trouble = {} /\ ~Log!Overlap' /\ ~Log!Growth'
    BY <1>5, NoTrouble
  <2>2. logWorker = "ended" /\ Log!AllEnded
    BY DEF LogInv, Turns
  <2>3. Pos(Scr) = StartRow + drawn /\ drawn \in Nat /\ StartRow \in Nat
    BY <2>1, <2>2, Rows DEF LogInv, LogTypes, ThreadTypes, Places
  <2>4. /\ \A r \in Nat : r < StartRow + drawn => At(t, r) = At(Scr, r)
        /\ At(t, StartRow + drawn) = Log!Footer
        /\ \A r \in Nat : StartRow + drawn < r => At(t, r) = Log!Blank
    <3>1. \A r \in Nat : StartRow + drawn <= r => At(Scr, r) = Log!Blank
      BY <2>1 DEF LogInv, Shows
    <3> QED BY <1>1, <2>3, <3>1
  <2>5. Places'
    BY <2>1, <2>2, <2>3 DEF LogInv, Places
  <2>6. Fits'
    BY <2>1, <2>2 DEF LogInv, Fits
  <2>7. Shows'
    <3>1. \A r \in Nat \ {0} : r < StartRow => At(t, r) = Log!User
      BY <2>1, <2>3, <2>4 DEF LogInv, Shows
    <3>2. \A r \in Nat : At(t, r) # Log!Mixed
      <4>1. Log!Blank # Log!Mixed /\ Log!Footer # Log!Mixed
        BY DEF Log!Blank, Log!Mixed, Log!Footer
      <4>2. \A r \in Nat : r < StartRow + drawn \/ r = StartRow + drawn \/ StartRow + drawn < r
        BY <2>3
      <4> QED BY <2>1, <2>4, <4>1, <4>2 DEF LogInv, Shows
    <3> QED BY <1>2, <3>1, <3>2 DEF Shows
  <2>8. LastDrawing'
    <3>1. LinesAreShown
      BY <2>1, <2>2 DEF LogInv, LastDrawing
    <3>2. LogLines' = LogLines
      <4>1. LogTypes
        BY DEF LogInv
      <4> QED BY <2>2, <4>1, LinesStay
    <3>3. \A k \in 1..Len(LogLines) : At(t, StartRow + k - 1) = At(Scr, StartRow + k - 1)
      <4>1. drawn = Len(LogLines)
        BY <3>1 DEF LinesAreShown
      <4>2. \A k \in 1..Len(LogLines) : StartRow + k - 1 \in Nat /\ StartRow + k - 1 < StartRow + drawn
        BY <2>3, <4>1
      <4> QED BY <2>4, <4>2
    <3>4. LinesAreShown'
      BY <1>2, <3>1, <3>2, <3>3 DEF LinesAreShown
    <3> QED BY <1>2, <2>2, <2>4, <3>4 DEF LastDrawing
  <2> QED BY <2>5, <2>6, <2>7, <2>8
<1> QED BY <1>3, <1>4, <1>5 DEF LogInv

\* Every step keeps the invariant, and no drawing scrolls.
LEMMA LogSteps ==
  ASSUME PartsAssumption, LogInv, Log!Next
  PROVE  /\ LogInv'
         /\ (Log!DrawInfos \/ Log!DrawTasks) /\ trouble' = {} => top' = top
<1>1. Watched
  BY DEF Log!Next, Watched
<1>2. CASE Log!TestStop
  BY <1>1, <1>2, TestStopKeeps DEF Log!TestStop, Log!DrawInfos, Log!DrawTasks
<1>3. CASE Log!Clear
  BY <1>1, <1>3, ClearKeeps DEF Log!Clear, Log!DrawInfos, Log!DrawTasks
<1>4. CASE Log!Save
  BY <1>1, <1>4, SaveKeeps DEF Log!Save, Log!DrawInfos, Log!DrawTasks
<1>5. ASSUME Log!DrawInfos PROVE LogInv' /\ (trouble' = {} => top' = top)
  BY <1>1, <1>5, DrawInfosKeeps
<1>6. ASSUME Log!DrawTasks PROVE LogInv' /\ (trouble' = {} => top' = top)
  BY <1>1, <1>6, DrawTasksKeeps
<1>7. CASE Log!WorkerStep
  BY <1>2, <1>3, <1>4, <1>5, <1>6, <1>7 DEF Log!WorkerStep
<1>8. CASE Log!MainStep
  BY <1>1, <1>5, <1>6, <1>8, AddInfoKeeps, SetSortedTasksKeeps, BeginKeeps, EndKeeps, ResetClearsKeeps,
     ResetSavesKeeps, ResetEmptiesKeeps, StopKeeps, JoinKeeps, PrintFooterKeeps DEF Log!MainStep
<1>9. Log!WorkerStep \/ Log!MainStep
  BY DEF Log!Next
<1> QED BY <1>7, <1>8, <1>9

\* A step of another component.
LEMMA LogRestsWell ==
  ASSUME LogInv, UNCHANGED logVars
  PROVE  LogInv'
<1> USE DEF logVars
<1>1. Scr' = Scr
  BY ScreenStays
<1>2. ListTypes' /\ ThreadTypes'
  BY ListsStay DEF LogInv, LogTypes, ThreadTypes
<1>3. LogTypes' /\ (AllBlank' <=> AllBlank)
  BY <1>2, ScreenRests DEF LogInv
<1>4. Turns'
  BY DEF LogInv, Turns, Log!AllEnded
<1>5. LogLines' = LogLines
  BY DEF LogLines, Log!TaskLines, Log!Shown, Log!Line
<1>6. trouble = {} => Places'
  BY <1>1 DEF LogInv, Places
<1>7. trouble = {} => Fits'
  BY <1>3 DEF LogInv, Fits, Log!Overlap, Log!Growth
<1>8. trouble = {} => Shows'
  BY <1>1 DEF LogInv, Shows
<1>9. trouble = {} => LastDrawing'
  BY <1>1, <1>5 DEF LogInv, LastDrawing, LinesAreShown, InfosAreShown
<1> QED BY <1>3, <1>4, <1>6, <1>7, <1>8, <1>9 DEF LogInv

\* Two lists in one.
LEMMA Joined ==
  ASSUME NEW R, NEW a \in Seq(R), NEW b \in Seq(R)
  PROVE  /\ a \o b \in Seq(R) /\ Len(a \o b) = Len(a) + Len(b)
         /\ \A r \in 1..Len(a \o b) : (a \o b)[r] = IF r <= Len(a) THEN a[r] ELSE b[r - Len(a)]
OBVIOUS

\* What the invariant says of the properties.
LEMMA LogIsClean ==
  ASSUME PartsAssumption, LogInv
  PROVE  Log!TypeOK /\ Log!RowsAreClean /\ Log!FinalScreenIsCurrent
<1>1. Scr \in Screens /\ Scr.rows = rows /\ Scr.top = top /\ Scr.cursor = cursor
  BY ScreenNow DEF LogInv, LogTypes
<1>2. /\ cursor \in 1..Height /\ top \in Nat /\ Len(rows) = top + Height
      /\ DOMAIN rows = 1..Len(rows) /\ Len(rows) \in Nat
  BY <1>1, ScreenIs DEF Screens
<1>3. Log!TypeOK
  <2>1. \A i \in DOMAIN tasks : tasks[i] \in {Log!Task(b, i) : b \in DOMAIN NumTasks}
    BY DEF LogInv, LogTypes, ListTypes
  <2> QED BY <1>2, <2>1 DEF LogInv, LogTypes, ListTypes, ThreadTypes, Log!TypeOK
<1>4. \A r \in DOMAIN rows : r \in Nat \ {0} /\ rows[r] = At(Scr, r)
  BY <1>1, <1>2 DEF At
<1>5. Log!RowsAreClean
  BY <1>4 DEF LogInv, Shows, Log!RowsAreClean
<1>6. ASSUME logMain = "ended", trouble = {}
      PROVE  LET log == [r \in 1..(StartRow - 1) |-> Log!User] \o infos \o Log!TaskLines \o <<Log!Footer>>
             IN \A r \in DOMAIN rows : rows[r] = IF r \in DOMAIN log THEN log[r] ELSE Log!Blank
  <2> DEFINE users == [r \in 1..(StartRow - 1) |-> Log!User]
             n == StartRow - 1
             lines == Log!TaskLines
             log == users \o infos \o lines \o <<Log!Footer>>
  <2>1. n \in Nat /\ users \in Seq(LineSet) /\ Len(users) = n /\ \A r \in 1..n : users[r] = Log!User
    BY Rows, Lines
  <2>2. /\ lines \in Seq(LineSet) /\ infos \in Seq(LineSet)
        /\ Len(LogLines) = Len(infos) + Len(lines)
        /\ \A k \in 1..Len(LogLines) : LogLines[k] = IF k <= Len(infos) THEN infos[k] ELSE lines[k - Len(infos)]
    BY TaskLinesAre DEF LogInv, LogTypes, ListTypes
  <2> HIDE DEF users, n, lines
  <2>3. <<Log!Footer>> \in Seq(LineSet) /\ Len(<<Log!Footer>>) = 1 /\ <<Log!Footer>>[1] = Log!Footer
    BY Lines
  <2>4. /\ log \in Seq(LineSet) /\ Len(log) = n + (Len(infos) + Len(lines)) + 1
        /\ \A r \in 1..Len(log) :
             log[r] = IF r <= n THEN users[r]
                      ELSE IF r <= n + Len(infos) THEN infos[r - n]
                      ELSE IF r <= n + Len(infos) + Len(lines) THEN lines[r - n - Len(infos)]
                      ELSE Log!Footer
    <3> DEFINE a == users \o infos
               b == a \o lines
    <3>1. a \in Seq(LineSet) /\ Len(a) = n + Len(infos)
          /\ \A r \in 1..Len(a) : a[r] = IF r <= n THEN users[r] ELSE infos[r - n]
      <4>1. users \in Seq(LineSet) /\ infos \in Seq(LineSet) /\ Len(users) = n
        BY <2>1, <2>2
      <4>2. /\ a \in Seq(LineSet) /\ Len(a) = Len(users) + Len(infos)
            /\ \A r \in 1..Len(a) : a[r] = IF r <= Len(users) THEN users[r] ELSE infos[r - Len(users)]
        BY <4>1, Joined, Zenon
      <4> QED BY <4>1, <4>2, Zenon
    <3> HIDE DEF a
    <3>2. b \in Seq(LineSet) /\ Len(b) = Len(a) + Len(lines)
          /\ \A r \in 1..Len(b) : b[r] = IF r <= Len(a) THEN a[r] ELSE lines[r - Len(a)]
      <4>1. a \in Seq(LineSet) /\ lines \in Seq(LineSet)
        BY <2>2, <3>1
      <4> QED BY <4>1, Joined, Zenon
    <3> HIDE DEF b
    <3>3. b \o <<Log!Footer>> \in Seq(LineSet) /\ Len(b \o <<Log!Footer>>) = Len(b) + 1
          /\ \A r \in 1..(Len(b) + 1) : (b \o <<Log!Footer>>)[r] = IF r <= Len(b) THEN b[r] ELSE Log!Footer
      BY <2>3, <3>2
    <3>4. log = b \o <<Log!Footer>>
      BY DEF a, b
    <3> HIDE DEF log
    <3>5. n \in Nat /\ Len(infos) \in Nat /\ Len(lines) \in Nat
      BY <2>1, <2>2
    <3>6. log \in Seq(LineSet) /\ Len(log) = n + (Len(infos) + Len(lines)) + 1
      BY <3>1, <3>2, <3>3, <3>4, <3>5
    <3>7. ASSUME NEW r \in 1..Len(log)
          PROVE  log[r] = IF r <= n THEN users[r]
                          ELSE IF r <= n + Len(infos) THEN infos[r - n]
                          ELSE IF r <= n + Len(infos) + Len(lines) THEN lines[r - n - Len(infos)]
                          ELSE Log!Footer
      <4>1. r \in Nat /\ r \in 1..(Len(b) + 1) /\ Len(b) = n + Len(infos) + Len(lines) /\ Len(a) = n + Len(infos)
        BY <3>1, <3>2, <3>5, <3>6
      <4>2. log[r] = IF r <= Len(b) THEN b[r] ELSE Log!Footer
        BY <3>3, <3>4, <4>1
      <4>3. r <= Len(b) => b[r] = IF r <= Len(a) THEN a[r] ELSE lines[r - Len(a)]
        BY <3>2, <4>1
      <4>4. r <= Len(a) => a[r] = IF r <= n THEN users[r] ELSE infos[r - n]
        BY <3>1, <3>5, <4>1
      <4>5. (r <= n => r <= Len(a)) /\ (r <= Len(a) => r <= Len(b)) /\ r - Len(a) = r - n - Len(infos)
        BY <3>5, <4>1
      <4> QED BY <4>1, <4>2, <4>3, <4>4, <4>5
    <3> QED BY <3>6, <3>7
  <2> HIDE DEF log
  <2>5. logWorker = "ended" /\ Shows /\ LastDrawing
    BY <1>6 DEF LogInv, Turns
  <2>6. LinesAreShown /\ drawn = Len(infos) + Len(lines) /\ Len(infos) \in Nat /\ Len(lines) \in Nat /\ StartRow = n + 1
    BY <2>2, <2>5, Rows DEF LastDrawing, LinesAreShown, n
  <2>7. ASSUME NEW r \in DOMAIN rows PROVE rows[r] = IF r \in DOMAIN log THEN log[r] ELSE Log!Blank
    <3>1. r \in Nat /\ 1 <= r /\ rows[r] = At(Scr, r)
      BY <1>4
    <3>2. r \in DOMAIN log <=> r <= n + Len(infos) + Len(lines) + 1
      BY <2>1, <2>4, <2>6, <3>1
    <3>3. CASE r <= n
      <4>1. At(Scr, r) = Log!User
        BY <2>1, <2>5, <2>6, <3>1, <3>3 DEF Shows
      <4>2. r \in 1..n /\ r \in 1..Len(log)
        BY <2>1, <2>4, <2>6, <3>1, <3>3
      <4> QED BY <2>1, <2>4, <3>1, <3>3, <4>1, <4>2
    <3>4. CASE n < r /\ r <= n + Len(infos) + Len(lines)
      <4> DEFINE k == r - n
      <4>1. k \in 1..Len(LogLines) /\ StartRow + k - 1 = r
        BY <2>1, <2>2, <2>6, <3>1, <3>4
      <4>2. At(Scr, r) = LogLines[k]
        BY <2>6, <4>1 DEF LinesAreShown
      <4>3. r \in 1..Len(log) /\ r - n - Len(infos) = k - Len(infos) /\ (r <= n + Len(infos) <=> k <= Len(infos))
        BY <2>1, <2>4, <2>6, <3>1, <3>4
      <4>4. ~(r <= n)
        BY <2>1, <3>1, <3>4
      <4>5. log[r] = IF k <= Len(infos) THEN infos[k] ELSE lines[k - Len(infos)]
        BY <2>4, <3>4, <4>3, <4>4
      <4> QED BY <2>2, <2>4, <3>1, <4>1, <4>2, <4>3, <4>5
    <3>5. CASE r = n + Len(infos) + Len(lines) + 1
      <4>1. r = StartRow + drawn
        BY <2>1, <2>6, <3>5
      <4>2. At(Scr, r) = Log!Footer
        BY <1>6, <2>5, <4>1 DEF LastDrawing
      <4>3. r \in 1..Len(log) /\ ~(r <= n) /\ ~(r <= n + Len(infos)) /\ ~(r <= n + Len(infos) + Len(lines))
        BY <2>1, <2>4, <2>6, <3>1, <3>5
      <4> QED BY <2>4, <3>1, <4>2, <4>3
    <3>6. CASE r > n + Len(infos) + Len(lines) + 1
      <4>1. StartRow + drawn < r
        BY <2>1, <2>6, <3>1, <3>6
      <4>2. At(Scr, r) = Log!Blank
        BY <1>6, <2>5, <3>1, <4>1 DEF LastDrawing
      <4> QED BY <2>1, <2>6, <3>1, <3>2, <3>6, <4>2
    <3>7. n \in Nat /\ Len(infos) \in Nat /\ Len(lines) \in Nat
      BY <2>1, <2>6
    <3> QED BY <3>1, <3>3, <3>4, <3>5, <3>6, <3>7
  <2> QED BY <2>7 DEF log, users, lines
<1>7. Log!FinalScreenIsCurrent
  BY <1>6 DEF Log!FinalScreenIsCurrent
<1> QED BY <1>3, <1>5, <1>7

-----------------------------------------------------------------------------
\* The terminal: what a compound name is split into.

-----------------------------------------------------------------------------
(***************************************************************************)
(* A name is split into the names it is made of.                           *)
(***************************************************************************)
Words == {"on", "bright"} \cup Bases \cup Styles
Segments == Seq(Seq(Words))

\* Two words.
LEMMA AppendOne ==
  ASSUME NEW S, NEW q \in Seq(S), Len(q) = 1, NEW b \in S
  PROVE  Append(q, b) \in Seq(S) /\ Len(Append(q, b)) = 2 /\ Append(q, b)[1] = q[1] /\ Append(q, b)[2] = b
<1>1. Append(q, b) \in Seq(S) /\ Len(Append(q, b)) = 2 
  OBVIOUS
<1>2. Append(q, b)[1] = q[1]
  OBVIOUS
<1>3. Append(q, b)[Len(q) + 1] = b
  BY AppendProperties, Zenon
<1>4. Len(q) + 1 = 2
  OBVIOUS
<1>5. Append(q, b)[2] = b
  BY <1>3, <1>4, Zenon
<1> QED BY <1>1, <1>2, <1>5

\* Two words, written out.
LEMMA Pair ==
  ASSUME NEW a, NEW b
  PROVE  Append(<<a>>, b) = <<a, b>>
<1>1. <<a, b>> \in Seq({a, b}) /\ Len(<<a, b>>) = 2 /\ <<a, b>>[1] = a /\ <<a, b>>[2] = b
  OBVIOUS
<1>2. <<a>> \in Seq({a, b}) /\ Len(<<a>>) = 1 /\ <<a>>[1] = a /\ b \in {a, b}
  OBVIOUS
<1>3. /\ Append(<<a>>, b) \in Seq({a, b}) /\ Len(Append(<<a>>, b)) = 2
      /\ Append(<<a>>, b)[1] = a /\ Append(<<a>>, b)[2] = b
  <2>1. <<a>> \in Seq({a, b}) /\ Len(<<a>>) = 1 /\ b \in {a, b} /\ <<a>>[1] = a
    BY <1>2
  <2>2. /\ Append(<<a>>, b) \in Seq({a, b}) /\ Len(Append(<<a>>, b)) = 2
        /\ Append(<<a>>, b)[1] = <<a>>[1] /\ Append(<<a>>, b)[2] = b
    BY ONLY <2>1, AppendOne
  <2> QED BY <2>1, <2>2, Zenon
<1>4. ASSUME NEW S, NEW r \in Seq(S), NEW t \in Seq(S), Len(r) = 2, Len(t) = 2, r[1] = t[1], r[2] = t[2]
      PROVE  r = t
  <2>1. \A i \in 1..Len(r) : r[i] = t[i]
    BY <1>4
  <2> QED BY <1>4, <2>1, SeqEqual
<1> QED BY <1>1, <1>3, <1>4, Zenon

\* What is known of a color or style.
IsName(c, p, b) ==
  /\ p \in Tty!ColorPrefixes /\ b \in Bases \cup Styles /\ c = Append(p, b)
  /\ b \in Styles => p = <<>>

\* A name is a prefix and a color, or a style.
LEMMA NamesAre ==
  ASSUME PartsAssumption, NEW c \in Tty!COMPOUNDABLES
  PROVE  \E p \in Tty!ColorPrefixes, b \in Bases \cup Styles : IsName(c, p, b)
<1>1. CASE c \in Tty!COLORS
  <2>1. PICK p \in Tty!ColorPrefixes, b \in Bases : c = Append(p, b)
    BY <1>1 DEF Tty!COLORS
  <2>2. b \notin Styles
    BY DEF PartsAssumption, Tty!TerminalAssumption
  <2> QED BY <2>1, <2>2 DEF IsName
<1>2. CASE c \notin Tty!COLORS
  <2>1. PICK b \in Styles : c = <<b>>
    BY <1>2 DEF Tty!COMPOUNDABLES
  <2>2. <<b>> = Append(<<>>, b) /\ <<>> \in Tty!ColorPrefixes
    BY DEF Tty!ColorPrefixes
  <2> QED BY <2>1, <2>2 DEF IsName
<1> QED BY <1>1, <1>2

\* The prefixes in words.
LEMMA PrefixesAre ==
  /\ Tty!ColorPrefixes = {<<>>, <<"on">>, <<"bright">>, <<"on", "bright">>}
  /\ Tty!ColorPrefixes \subseteq Seq({"on", "bright"}) /\ Tty!ColorPrefixes \subseteq Seq(Words)
<1>1. <<"on">> \in Seq({"on", "bright"}) /\ <<"bright">> \in Seq({"on", "bright"})
      /\ <<"on", "bright">> \in Seq({"on", "bright"}) /\ <<>> \in Seq({"on", "bright"})
  OBVIOUS
<1>2. Seq({"on", "bright"}) \subseteq Seq(Words)
  BY DEF Words
<1> QED BY <1>1, <1>2 DEF Tty!ColorPrefixes

\* Its last word is no part of a prefix.
LEMMA NameEnds ==
  ASSUME PartsAssumption, NEW c, NEW p, NEW b, IsName(c, p, b)
  PROVE  /\ c \in Seq(Words) /\ c # <<>> /\ c[Len(c)] = b /\ b \notin {"on", "bright"}
         /\ c \notin Tty!ColorPrefixes
<1>1. p \in Seq(Words) /\ b \in Words /\ c = Append(p, b) /\ b \notin {"on", "bright"}
  BY PrefixesAre DEF IsName, Words, PartsAssumption, Tty!TerminalAssumption
<1>2. c \in Seq(Words) /\ Len(c) = Len(p) + 1 /\ c[Len(c)] = b /\ c # <<>>
  BY <1>1
<1>3. ASSUME c \in Tty!ColorPrefixes PROVE FALSE
  <2>1. c \in Seq({"on", "bright"})
    BY <1>3, PrefixesAre
  <2>2. c[Len(c)] \in {"on", "bright"}
    BY <1>2, <2>1
  <2> QED BY <1>1, <1>2, <2>2
<1> QED BY <1>1, <1>2, <1>3

\* No segment waits for a word.
Whole(segs) == segs = <<>> \/ segs[Len(segs)] \notin Tty!ColorPrefixes

\* Where no segment waits, a word begins one of its own.
LEMMA JoinsIs ==
  ASSUME NEW segs \in Segments, NEW w \in Words
  PROVE  /\ Tty!Joins(segs, w) \in Segments
         /\ Whole(segs) => Tty!Joins(segs, w) = Append(segs, <<w>>)
<1>1. <<w>> \in Seq(Words)
  OBVIOUS
<1>2. Append(segs, <<w>>) \in Segments
  BY <1>1 DEF Segments
<1>3. ASSUME segs # <<>>
      PROVE  Append(Tty!Front(segs), Append(Tty!Last(segs), w)) \in Segments
  <2>1. Len(segs) \in 1..Len(segs) /\ segs \in Seq(Seq(Words))
    BY <1>3 DEF Segments
  <2>2. segs[Len(segs)] \in Seq(Words)
    BY <2>1
  <2>3. Tty!Last(segs) \in Seq(Words)
    BY <2>2 DEF Tty!Last
  <2>4. Append(Tty!Last(segs), w) \in Seq(Words)
    BY <2>3
  <2>5. Tty!Front(segs) \in Seq(Seq(Words))
    BY <2>1 DEF Tty!Front
  <2> QED BY <2>4, <2>5 DEF Segments
<1> QED BY <1>2, <1>3, Zenon DEF Tty!Joins, Whole, Tty!Last

\* The word that a prefix waits for.
LEMMA JoinsPrefix ==
  ASSUME NEW segs \in Segments, NEW p \in Tty!ColorPrefixes, NEW w \in Words
  PROVE  Tty!Joins(Append(segs, p), w) = Append(segs, Append(p, w))
<1> DEFINE s == Append(segs, p)
<1>1. p \in Seq(Words) /\ segs \in Seq(Seq(Words))
  BY PrefixesAre DEF Segments
<1>2. s \in Seq(Seq(Words)) /\ Len(s) = Len(segs) + 1 /\ s # <<>> /\ s[Len(s)] = p
  BY <1>1
<1>3. SubSeq(s, 1, Len(s) - 1) = segs
  BY <1>1, <1>2
<1>4. Tty!Front(s) = segs /\ Tty!Last(s) = p
  BY <1>2, <1>3, Zenon DEF Tty!Front, Tty!Last
<1> HIDE DEF s
<1> QED BY <1>2, <1>4, Zenon DEF Tty!Joins, s

\* The segments after each word.
LEMMA SplitExists ==
  ASSUME NEW words \in Seq(Words)
  PROVE  \E g : g = [i \in 0..Len(words) |-> IF i = 0 THEN <<>> ELSE Tty!Joins(g[i - 1], words[i])]
<1> DEFINE n == Len(words)
           step == [i \in 1..n |-> [u \in Segments |-> Tty!Joins(u, words[i])]]
<1>1. n \in Nat /\ <<>> \in Segments
  BY DEF Segments
<1>2. ASSUME NEW i \in 1..n, NEW u \in Segments PROVE Tty!Joins(u, words[i]) \in Segments
  <2>1. words[i] \in Words
    OBVIOUS
  <2> QED BY <2>1, JoinsIs
<1>3. /\ step \in [1..n -> [Segments -> Segments]]
      /\ \A i \in 1..n : \A u \in Segments : step[i][u] = Tty!Joins(u, words[i])
  BY <1>2
<1> HIDE DEF step, n
<1>4. PICK g \in [0..n -> Segments] : g[0] = <<>> /\ \A i \in 1..n : g[i] = step[i][g[i - 1]]
  <2>1. step \in [1..n -> [Segments -> Segments]]
    BY <1>3
  <2>2. \E g : IsRun(g, n, Segments, <<>>, step)
    BY <1>1, <2>1, Recursion
  <2> QED BY <2>2 DEF IsRun
<1>5. ASSUME NEW i \in 0..n PROVE g[i] = IF i = 0 THEN <<>> ELSE Tty!Joins(g[i - 1], words[i])
  <2>1. CASE i = 0
    BY <1>4, <2>1
  <2>2. CASE i # 0
    <3>1. i \in 1..n /\ i - 1 \in 0..n
      BY <1>1, <2>2
    <3>2. g[i] = step[i][g[i - 1]] /\ g[i - 1] \in Segments
      BY <1>4, <3>1
    <3> QED BY <1>3, <2>2, <3>1, <3>2
  <2> QED BY <2>1, <2>2
<1>6. g = [i \in 0..n |-> IF i = 0 THEN <<>> ELSE Tty!Joins(g[i - 1], words[i])]
  <2>1. g = [i \in 0..n |-> g[i]]
    BY <1>4
  <2> QED BY <1>5, <2>1, Zenon
<1> QED BY <1>6, Zenon DEF n

\* The segments after each word.
IsSplit(g, words) ==
  /\ g \in [0..Len(words) -> Segments] /\ g[0] = <<>>
  /\ \A i \in 1..Len(words) : g[i] = Tty!Joins(g[i - 1], words[i])
  /\ Tty!Split(words) = g[Len(words)]

\* Their last ones are what split_into_formatters returns.
LEMMA SplitIs ==
  ASSUME NEW words \in Seq(Words)
  PROVE  \E g : IsSplit(g, words)
<1> DEFINE n == Len(words)
           g == CHOOSE f : f = [i \in 0..Len(words) |-> IF i = 0 THEN <<>> ELSE Tty!Joins(f[i - 1], words[i])]
<1>1. Tty!Split(words) = g[Len(words)]
  BY Zenon DEF Tty!Split
<1>2. g = [i \in 0..Len(words) |-> IF i = 0 THEN <<>> ELSE Tty!Joins(g[i - 1], words[i])]
  BY SplitExists, Zenon
<1> HIDE DEF g
<1>3. n \in Nat /\ <<>> \in Segments
  BY DEF Segments
<1> DEFINE P == {i \in 0..n : g[i] \in Segments}
<1>4. 0 \in P
  BY <1>2, <1>3
<1>5. ASSUME NEW i \in 1..n, i - 1 \in P PROVE i \in P
  <2>1. words[i] \in Words /\ g[i - 1] \in Segments /\ i \in 0..n /\ i # 0
    BY <1>5
  <2>2. g[i] = Tty!Joins(g[i - 1], words[i])
    BY <1>2, <2>1
  <2> QED BY <2>1, <2>2, JoinsIs
<1> HIDE DEF P
<1>6. \A i \in 0..n : i \in P
  BY <1>3, <1>4, <1>5, Induction
<1>7. \A i \in 0..n : g[i] \in Segments
  BY <1>6 DEF P
<1>8. g \in [0..Len(words) -> Segments]
  BY <1>2, <1>7
<1>9. g[0] = <<>> /\ \A i \in 1..Len(words) : g[i] = Tty!Joins(g[i - 1], words[i])
  BY <1>2, <1>3
<1> QED BY <1>1, <1>8, <1>9 DEF IsSplit

\* One word more.
LEMMA SplitLast ==
  ASSUME NEW u \in Seq(Words), NEW w \in Words
  PROVE  /\ Tty!Split(u) \in Segments
         /\ Tty!Split(Append(u, w)) = Tty!Joins(Tty!Split(u), w)
<1> DEFINE v == Append(u, w)
           n == Len(u)
<1>1. /\ v \in Seq(Words) /\ n \in Nat /\ Len(v) = n + 1 /\ v[n + 1] = w
      /\ \A i \in 1..n : v[i] = u[i]
  OBVIOUS
<1>2. PICK g : IsSplit(g, u)
  BY SplitIs
<1> HIDE DEF v
<1>3. PICK h : IsSplit(h, v)
  BY <1>1, SplitIs
<1> DEFINE P == {i \in 0..n : h[i] = g[i]}
<1>4. 0 \in P
  BY <1>1, <1>2, <1>3 DEF IsSplit
<1>5. ASSUME NEW i \in 1..n, i - 1 \in P PROVE i \in P
  <2>1. h[i] = Tty!Joins(h[i - 1], v[i]) /\ g[i] = Tty!Joins(g[i - 1], u[i])
    BY <1>1, <1>2, <1>3 DEF IsSplit
  <2> QED BY <1>1, <1>5, <2>1
<1> HIDE DEF P
<1>6. \A i \in 0..n : i \in P
  BY <1>1, <1>4, <1>5, Induction
<1>7. h[n] = g[n]
  BY <1>1, <1>6 DEF P
<1>8. h[n + 1] = Tty!Joins(h[n], w)
  <2>1. n + 1 \in 1..Len(v) /\ (n + 1) - 1 = n
    BY <1>1
  <2> QED BY <1>1, <1>3, <2>1 DEF IsSplit
<1>9. Tty!Split(u) = g[n] /\ g[n] \in Segments /\ Tty!Split(v) = h[n + 1]
  BY <1>1, <1>2, <1>3 DEF IsSplit
<1> QED BY <1>7, <1>8, <1>9 DEF v

\* One name more: its words are one segment.
LEMMA SplitName ==
  ASSUME PartsAssumption, NEW u \in Seq(Words), NEW c \in Tty!COMPOUNDABLES, Whole(Tty!Split(u))
  PROVE  Tty!Split(u \o c) = Append(Tty!Split(u), c)
<1>1. PICK p \in Tty!ColorPrefixes, b \in Bases \cup Styles : IsName(c, p, b)
  BY NamesAre
<1>2. p \in Seq(Words) /\ b \in Words /\ c = Append(p, b) /\ "on" \in Words /\ "bright" \in Words
  BY <1>1, PrefixesAre DEF IsName, Words
<1> DEFINE s == Tty!Split(u)
<1>3. s \in Segments
  BY <1>2, SplitLast
<1>4. u \o c = Append(u \o p, b) /\ u \o p \in Seq(Words)
  BY <1>2
<1>5. CASE p = <<>>
  <2>1. u \o c = Append(u, b) /\ c = <<b>>
    BY <1>2, <1>4, <1>5
  <2>2. Tty!Joins(s, b) = Append(s, <<b>>)
    BY <1>2, <1>3, JoinsIs
  <2> QED BY <1>2, <2>1, <2>2, SplitLast
<1>6. ASSUME NEW a \in {"on", "bright"}, p = <<a>> PROVE Tty!Split(u \o c) = Append(s, c)
  <2>1. u \o p = Append(u, a) /\ Append(u, a) \in Seq(Words) /\ a \in Words
    BY <1>2, <1>6
  <2>2. Tty!Split(Append(u, a)) = Append(s, p)
    BY <1>3, <1>6, <2>1, SplitLast, JoinsIs
  <2>3. Tty!Split(Append(u \o p, b)) = Tty!Joins(Append(s, p), b)
    BY <1>2, <1>4, <2>1, <2>2, SplitLast
  <2> HIDE DEF s
  <2> QED BY <1>2, <1>3, <1>4, <2>3, JoinsPrefix
<1>7. CASE p = <<"on", "bright">>
  <2> DEFINE v == Append(u, "on")
  <2>1. u \o p = Append(v, "bright") /\ v \in Seq(Words)
    BY <1>2, <1>7
  <2>2. Tty!Split(v) = Append(s, <<"on">>)
    BY <1>2, <1>3, SplitLast, JoinsIs
  <2>3. Tty!Split(Append(v, "bright")) = Tty!Joins(Append(s, <<"on">>), "bright")
    BY <1>2, <2>1, <2>2, SplitLast
  <2>4. <<"on">> \in Tty!ColorPrefixes /\ Append(<<"on">>, "bright") = p
    <3>1. Append(<<"on">>, "bright") = <<"on", "bright">>
      BY Pair
    <3> QED BY <1>7, <3>1, PrefixesAre
  <2> HIDE DEF s, v
  <2>5. Tty!Split(u \o p) = Append(s, p)
    BY <1>2, <1>3, <2>1, <2>3, <2>4, JoinsPrefix
  <2>6. Tty!Split(Append(u \o p, b)) = Tty!Joins(Append(s, p), b)
    BY <1>2, <1>4, <2>5, SplitLast
  <2> QED BY <1>2, <1>3, <1>4, <2>6, JoinsPrefix DEF s
<1> QED BY <1>5, <1>6, <1>7 DEF Tty!ColorPrefixes

\* The names written one behind the other.
LEMMA FlattenExists ==
  ASSUME NEW names \in Seq(Seq(Words)), Len(names) # 0
  PROVE  \E g : g = [i \in 1..Len(names) |-> IF i = 1 THEN names[i] ELSE g[i - 1] \o names[i]]
<1> DEFINE n == Len(names)
           step == [i \in 1..n |-> [u \in Seq(Words) |-> u \o names[i]]]
<1>1. n \in Nat /\ <<>> \in Seq(Words)
  OBVIOUS
<1>2. ASSUME NEW i \in 1..n, NEW u \in Seq(Words) PROVE u \o names[i] \in Seq(Words)
  <2>1. names[i] \in Seq(Words)
    OBVIOUS
  <2> QED BY <2>1
<1>3. /\ step \in [1..n -> [Seq(Words) -> Seq(Words)]]
      /\ \A i \in 1..n : \A u \in Seq(Words) : step[i][u] = u \o names[i]
  BY <1>2
<1>4. \A i \in 1..n : names[i] \in Seq(Words)
  OBVIOUS
<1> HIDE DEF step, n
<1>5. PICK f \in [0..n -> Seq(Words)] : f[0] = <<>> /\ \A i \in 1..n : f[i] = step[i][f[i - 1]]
  <2>1. step \in [1..n -> [Seq(Words) -> Seq(Words)]]
    BY <1>3
  <2>2. \E g : IsRun(g, n, Seq(Words), <<>>, step)
    BY <1>1, <2>1, Recursion
  <2> QED BY <2>2 DEF IsRun
<1> DEFINE g == [i \in 1..n |-> f[i]]
<1>6. ASSUME NEW i \in 1..n PROVE g[i] = IF i = 1 THEN names[i] ELSE g[i - 1] \o names[i]
  <2>1. i - 1 \in 0..n /\ f[i - 1] \in Seq(Words) /\ f[i] = f[i - 1] \o names[i]
    <3>1. i - 1 \in 0..n
      BY <1>1
    <3>2. f[i - 1] \in Seq(Words)
      BY <1>5, <3>1
    <3>3. f[i] = step[i][f[i - 1]]
      BY <1>5
    <3> QED BY <1>3, <3>1, <3>2, <3>3, Zenon
  <2>2. CASE i = 1
    <3>1. f[1] = <<>> \o names[1] /\ names[1] \in Seq(Words)
      <4>1. i - 1 = 0
        BY <2>2
      <4> QED BY <1>4, <1>5, <2>1, <2>2, <4>1, Zenon
    <3>2. <<>> \o names[1] = names[1]
      BY <3>1
    <3> QED BY <2>2, <3>1, <3>2
  <2>3. CASE i # 1
    <3>1. i - 1 \in 1..n
      BY <1>1, <2>3
    <3> QED BY <2>1, <2>3, <3>1
  <2> QED BY <2>2, <2>3
<1>7. g = [i \in 1..n |-> IF i = 1 THEN names[i] ELSE g[i - 1] \o names[i]]
  <2>1. g = [i \in 1..n |-> g[i]]
    OBVIOUS
  <2> HIDE DEF g
  <2> QED BY <1>6, <2>1, Zenon
<1> HIDE DEF g
<1> QED BY <1>7, Zenon DEF n

IsFlat(g, names) ==
  /\ DOMAIN g = 1..Len(names) /\ g[1] = names[1]
  /\ \A i \in 1..Len(names) : i # 1 => g[i] = g[i - 1] \o names[i]
  /\ Tty!FlattenSeq(names) = g[Len(names)]

\* They are what FlattenSeq returns.
LEMMA FlattenIs ==
  ASSUME NEW names \in Seq(Seq(Words)), Len(names) # 0
  PROVE  \E g : IsFlat(g, names)
<1> DEFINE g == CHOOSE f : f = [i \in 1..Len(names) |-> IF i = 1 THEN names[i] ELSE f[i - 1] \o names[i]]
<1>1. Tty!FlattenSeq(names) = g[Len(names)]
  BY Zenon DEF Tty!FlattenSeq
<1>2. g = [i \in 1..Len(names) |-> IF i = 1 THEN names[i] ELSE g[i - 1] \o names[i]]
  BY FlattenExists, Zenon
<1> HIDE DEF g
<1>3. /\ DOMAIN g = 1..Len(names) /\ \A i \in 1..Len(names) : i # 1 => g[i] = g[i - 1] \o names[i]
  BY <1>2
<1>4. g[1] = names[1]
  <2>1. 1 \in 1..Len(names)
    OBVIOUS
  <2> QED BY <1>2, <2>1
<1> QED BY <1>1, <1>3, <1>4 DEF IsFlat

\* No name waits for a word.
LEMMA WholeNames ==
  ASSUME PartsAssumption, NEW names \in Seq(Tty!COMPOUNDABLES)
  PROVE  names \in Segments /\ Whole(names) /\ \A i \in 1..Len(names) : names[i] \in Seq(Words)
<1>1. ASSUME NEW c \in Tty!COMPOUNDABLES PROVE c \in Seq(Words) /\ c \notin Tty!ColorPrefixes
  BY NamesAre, NameEnds
<1>2. \A i \in 1..Len(names) : names[i] \in Tty!COMPOUNDABLES
  OBVIOUS
<1>3. names # <<>> => Len(names) \in 1..Len(names)
  OBVIOUS
<1>4. names \in Segments
  BY <1>1 DEF Segments
<1> QED BY <1>1, <1>2, <1>3, <1>4 DEF Whole

\* The first names of some.
LEMMA FirstOnes ==
  ASSUME NEW S, NEW names \in Seq(S), NEW i \in 1..Len(names)
  PROVE  /\ SubSeq(names, 1, i) \in Seq(S)
         /\ SubSeq(names, 1, i) = Append(SubSeq(names, 1, i - 1), names[i])
         /\ SubSeq(names, 1, i - 1) \in Seq(S)
         /\ SubSeq(names, 1, 0) = <<>> /\ SubSeq(names, 1, Len(names)) = names
OBVIOUS

\* terminal.py:552-567 - a compound is split into the names it was made of.
LEMMA SplitsBack ==
  ASSUME PartsAssumption, NEW names \in Seq(Tty!COMPOUNDABLES), Len(names) # 0
  PROVE  Tty!Split(Tty!FlattenSeq(names)) = names
<1>1. names \in Seq(Seq(Words)) /\ \A i \in 1..Len(names) : names[i] \in Seq(Words) /\ names[i] \in Tty!COMPOUNDABLES
  BY WholeNames DEF Segments
<1>2. PICK g : IsFlat(g, names)
  BY <1>1, FlattenIs
<1> DEFINE n == Len(names)
           P == {i \in 0..n : i # 0 => g[i] \in Seq(Words) /\ Tty!Split(g[i]) = SubSeq(names, 1, i)}
<1>3. n \in Nat
  OBVIOUS
<1>4. <<>> \in Seq(Words) /\ Tty!Split(<<>>) = <<>> /\ Whole(<<>>)
  <2>1. <<>> \in Seq(Words) /\ Len(<<>>) = 0
    OBVIOUS
  <2>2. PICK h : IsSplit(h, <<>>)
    BY <2>1, SplitIs
  <2> QED BY <2>1, <2>2 DEF IsSplit, Whole
<1>5. 0 \in P
  BY <1>3
<1>6. ASSUME NEW i \in 1..n, i - 1 \in P PROVE i \in P
  <2> DEFINE before == SubSeq(names, 1, i - 1)
  <2>1. before \in Seq(Tty!COMPOUNDABLES) /\ SubSeq(names, 1, i) = Append(before, names[i]) /\ SubSeq(names, 1, 0) = <<>>
    BY FirstOnes
  <2>2. Whole(before)
    BY <2>1, WholeNames
  <2>3. names[i] \in Tty!COMPOUNDABLES /\ names[i] \in Seq(Words)
    BY <1>1
  <2>4. CASE i = 1
    <3>1. Tty!Split(<<>> \o names[1]) = Append(<<>>, names[1])
      BY <1>4, <2>3, <2>4, SplitName
    <3>2. <<>> \o names[1] = names[1] /\ before = <<>>
      BY <2>1, <2>3, <2>4
    <3>3. g[1] = names[1]
      BY <1>2 DEF IsFlat
    <3> QED BY <1>3, <2>1, <2>3, <2>4, <3>1, <3>2, <3>3
  <2>5. CASE i # 1
    <3>1. i - 1 \in 0..n /\ i - 1 # 0
      BY <1>3, <2>5
    <3>2. g[i - 1] \in Seq(Words) /\ Tty!Split(g[i - 1]) = before
      BY <1>6, <3>1
    <3>3. g[i] = g[i - 1] \o names[i]
      BY <1>2, <2>5 DEF IsFlat
    <3> HIDE DEF before
    <3>4. Tty!Split(g[i]) = Append(before, names[i])
      BY <2>2, <2>3, <3>2, <3>3, SplitName
    <3>5. g[i] \in Seq(Words)
      BY <2>3, <3>2, <3>3
    <3> QED BY <2>1, <3>4, <3>5
  <2> QED BY <2>4, <2>5
<1> HIDE DEF P
<1>7. \A i \in 0..n : i \in P
  BY <1>3, <1>5, <1>6, Induction
<1>8. n \in P /\ n # 0
  BY <1>3, <1>7
<1>9. Tty!Split(g[n]) = SubSeq(names, 1, n)
  BY <1>8 DEF P
<1>10. SubSeq(names, 1, n) = names /\ Tty!FlattenSeq(names) = g[n]
  BY <1>2 DEF IsFlat
<1> QED BY <1>9, <1>10

\* The name of one color or style is not that of two.
LEMMA OnlyName ==
  ASSUME PartsAssumption, NEW names \in Seq(Tty!COMPOUNDABLES), Len(names) # 0,
         Tty!FlattenSeq(names) \in Tty!COMPOUNDABLES
  PROVE  <<Tty!FlattenSeq(names)>> = names
<1> DEFINE c == Tty!FlattenSeq(names)
<1>1. <<>> \in Seq(Words) /\ Tty!Split(<<>>) = <<>> /\ Whole(<<>>)
  <2>1. <<>> \in Seq(Words) /\ Len(<<>>) = 0
    OBVIOUS
  <2>2. PICK h : IsSplit(h, <<>>)
    BY <2>1, SplitIs
  <2> QED BY <2>1, <2>2 DEF IsSplit, Whole
<1>2. c \in Seq(Words)
  BY NamesAre, NameEnds
<1> HIDE DEF c
<1>3. c \in Tty!COMPOUNDABLES
  BY DEF c
<1>4. Tty!Split(<<>> \o c) = Append(<<>>, c)
  BY <1>1, <1>3, SplitName
<1>5. <<>> \o c = c /\ Append(<<>>, c) = <<c>>
  BY <1>2
<1>6. Tty!Split(c) = names
  BY SplitsBack DEF c
<1> QED BY <1>4, <1>5, <1>6 DEF c

\* terminal.py:353-418 - and resolved to their codes.
LEMMA ResolveIs ==
  ASSUME PartsAssumption, NEW names \in Seq(Tty!COMPOUNDABLES), Len(names) # 0
  PROVE  Tty!Resolve(Tty!FlattenSeq(names)) = [i \in 1..Len(names) |-> Tty!Code(names[i])]
<1> DEFINE words == Tty!FlattenSeq(names)
           segs == IF words \in Tty!COMPOUNDABLES THEN <<words>> ELSE Tty!Split(words)
<1>1. segs = names
  BY SplitsBack, OnlyName
<1>2. Tty!ToSet(names) \subseteq Tty!COMPOUNDABLES
  BY DEF Tty!ToSet
<1>3. DOMAIN names = 1..Len(names)
  OBVIOUS
<1>4. Tty!Resolve(words) = IF Tty!ToSet(segs) \subseteq Tty!COMPOUNDABLES THEN [i \in DOMAIN segs |-> Tty!Code(segs[i])] ELSE <<>>
  BY Zenon DEF Tty!Resolve
<1> HIDE DEF segs, words
<1> QED BY <1>1, <1>2, <1>3, <1>4, Zenon DEF words

-----------------------------------------------------------------------------
\* The terminal: what names mean and the device shows, the invariant.

-----------------------------------------------------------------------------
(***************************************************************************)
(* What the codes of some names make of a plain text is what they mean.    *)
(***************************************************************************)
Colors == (Bases \X BOOLEAN) \cup {None}
Colored(c) == <<Tty!Last(c), "bright" \in Tty!ToSet(c)>>

\* The attributes as a set of records.
LEMMA AttributesAre ==
  Tty!Attributes = [foreground : Colors, background : Colors, on : SUBSET Styles]
<1>1. ASSUME NEW a \in Tty!Attributes PROVE a \in [foreground : Colors, background : Colors, on : SUBSET Styles]
  <2>1. PICK f \in Colors, b \in Colors, S \in SUBSET Styles : a = [foreground |-> f, background |-> b, on |-> S]
    BY DEF Tty!Attributes, Colors
  <2> QED BY <2>1
<1>2. ASSUME NEW a \in [foreground : Colors, background : Colors, on : SUBSET Styles] PROVE a \in Tty!Attributes
  <2>1. a = [foreground |-> a.foreground, background |-> a.background, on |-> a.on]
        /\ a.foreground \in Colors /\ a.background \in Colors /\ a.on \in SUBSET Styles
    OBVIOUS
  <2> QED BY <2>1 DEF Tty!Attributes, Colors
<1> QED BY <1>1, <1>2

\* The code of a color, and of another name.
LEMMA ColorIs ==
  ASSUME PartsAssumption, NEW c \in Tty!COLORS
  PROVE  /\ Tty!Code(c) = [sets |-> IF c[1] = "on" THEN "background" ELSE "foreground", to |-> Colored(c)]
         /\ Colored(c) \in Bases \X BOOLEAN
         /\ \A s \in Styles : c # <<s>>
<1>1. PICK p \in Tty!ColorPrefixes, b \in Bases : c = Append(p, b)
  BY DEF Tty!COLORS
<1>2. b \notin Styles /\ b \notin {"on", "bright"}
  BY DEF PartsAssumption, Tty!TerminalAssumption
<1>3. p \in Seq(Words) /\ b \in Words
  BY PrefixesAre DEF Words
<1>4. /\ c \in Seq(Words) /\ Len(c) = Len(p) + 1 /\ c[Len(c)] = b /\ DOMAIN c = 1..Len(c)
      /\ \A k \in 1..Len(c) : c[k] = IF k = Len(c) THEN b ELSE p[k]
  BY <1>1, <1>3
<1>5. "on" \in Tty!ToSet(c) <=> c[1] = "on"
  <2>1. Tty!ToSet(c) = {c[k] : k \in 1..Len(c)}
    BY <1>4 DEF Tty!ToSet
  <2>2. ASSUME NEW k \in 1..Len(c), c[k] = "on" PROVE c[1] = "on"
    <3>1. k # Len(c) /\ p[k] = "on" /\ k \in 1..Len(p) /\ 1 \in 1..Len(c) /\ 1 # Len(c)
      BY <1>2, <1>3, <1>4, <2>2
    <3>2. p[1] = "on"
      BY <3>1, PrefixesAre
    <3> QED BY <1>4, <3>1, <3>2
  <2>3. 1 \in 1..Len(c)
    BY <1>3, <1>4
  <2> QED BY <2>1, <2>2, <2>3
<1>7. Tty!Last(c) = b
  BY <1>4 DEF Tty!Last
<1>8. Tty!Code(c) = [sets |-> IF "on" \in Tty!ToSet(c) THEN "background" ELSE "foreground",
                     to |-> <<Tty!Last(c), "bright" \in Tty!ToSet(c)>>]
  BY Zenon DEF Tty!Code
<1>10. Tty!Code(c) = [sets |-> IF c[1] = "on" THEN "background" ELSE "foreground", to |-> Colored(c)]
  BY <1>5, <1>8, Zenon DEF Colored
<1>11. Colored(c) \in Bases \X BOOLEAN
  <2>1. ("bright" \in Tty!ToSet(c)) \in BOOLEAN
    <3>1. CASE "bright" \in Tty!ToSet(c)
      BY <3>1
    <3>2. CASE ~("bright" \in Tty!ToSet(c))
      BY <3>2
    <3> QED BY <3>1, <3>2
  <2>2. \A x \in Bases, y \in BOOLEAN : <<x, y>> \in Bases \X BOOLEAN
    OBVIOUS
  <2> QED BY <1>7, <2>1, <2>2, Zenon DEF Colored
<1>12. ASSUME NEW s \in Styles, c = <<s>> PROVE FALSE
  <2>1. Len(<<s>>) = 1 /\ <<s>>[1] = s
    OBVIOUS
  <2>2. c[1] = s /\ c[1] = b
    BY <1>4, <1>12, <2>1
  <2> QED BY <1>2, <2>2
<1> QED BY <1>10, <1>11, <1>12

\* The code of a style.
LEMMA StyleIs ==
  ASSUME PartsAssumption, NEW c \in Tty!COMPOUNDABLES, c \notin Tty!COLORS
  PROVE  \E s \in Styles : /\ c = <<s>> /\ Tty!Code(c) = [sets |-> "on", to |-> s]
                           /\ c[1] # "on" /\ \A t \in Styles : c = <<t>> <=> t = s
<1>1. PICK s \in Styles : c = <<s>>
  BY DEF Tty!COMPOUNDABLES
<1>2. s # "on" /\ <<s>>[1] = s
  BY DEF PartsAssumption, Tty!TerminalAssumption
<1>3. \A t \in Styles : <<s>> = <<t>> <=> t = s
  OBVIOUS
<1> QED BY <1>1, <1>2, <1>3 DEF Tty!Code

\* Where the colors of the two grounds are, and the one seen.
OnGround(names, g) ==
  IF g = "foreground" THEN {i \in DOMAIN names : names[i] \in Tty!COLORS /\ names[i][1] # "on"}
                      ELSE {i \in DOMAIN names : names[i][1] = "on"}
FinalOf(names, S) ==
  IF S = {} THEN None ELSE LET i == CHOOSE i \in S : \A j \in S : j <= i IN Colored(names[i])

\* Where the colors of the two grounds are, and the one seen.
LEMMA MeantIs ==
  ASSUME NEW names
  PROVE  Tty!Meant(names) = [foreground |-> FinalOf(names, OnGround(names, "foreground")),
                             background |-> FinalOf(names, OnGround(names, "background")),
                             on |-> {s \in Styles : <<s>> \in Tty!ToSet(names)}]
<1>1. "foreground" # "background"
  OBVIOUS
<1> QED BY <1>1 DEF Tty!Meant, FinalOf, OnGround, Colored

\* Of finitely many positions one is the last.
LEMMA Greatest ==
  ASSUME NEW n \in Nat, NEW S, S \subseteq 1..n, S # {}
  PROVE  \E m \in S : \A j \in S : j <= m
<1> DEFINE D == {k \in Nat : \E j \in S : k = n - j}
<1>1. D \in SUBSET Nat /\ D # {}
  <2>1. PICK j \in S : TRUE
    OBVIOUS
  <2>2. n - j \in D
    OBVIOUS
  <2> QED BY <2>2
<1>2. PICK k \in D : \A l \in D : k <= l
  <2> HIDE DEF D
  <2> QED BY <1>1, LeastNat
<1>3. PICK m \in S : k = n - m
  OBVIOUS
<1>4. ASSUME NEW j \in S PROVE j <= m
  <2>1. j \in 1..n /\ m \in 1..n /\ n - j \in D
    OBVIOUS
  <2>2. n - m <= n - j
    BY <1>2, <1>3, <2>1
  <2> QED BY <2>1, <2>2
<1> QED BY <1>4

\* A name more, of this ground or not.
LEMMA FinalGrows ==
  ASSUME NEW names \in Seq(Tty!COMPOUNDABLES), NEW c \in Tty!COMPOUNDABLES, NEW S, S \subseteq 1..Len(names)
  PROVE  /\ FinalOf(Append(names, c), S) = FinalOf(names, S)
         /\ FinalOf(Append(names, c), S \cup {Len(names) + 1}) = Colored(c)
<1> DEFINE n == Len(names)
           q == Append(names, c)
<1>1. /\ n \in Nat /\ q[n + 1] = c /\ \A i \in 1..n : q[i] = names[i]
  BY AppendProperties
<1> HIDE DEF q
<1>2. ASSUME S # {} PROVE FinalOf(q, S) = FinalOf(names, S)
  <2> DEFINE i == CHOOSE i \in S : \A j \in S : j <= i
  <2>1. \E m \in S : \A j \in S : j <= m
    BY <1>1, <1>2, Greatest
  <2>2. i \in S
    BY <2>1
  <2>3. q[i] = names[i]
    BY <1>1, <2>2
  <2> QED BY <1>2, <2>3 DEF FinalOf
<1>3. FinalOf(q, S \cup {n + 1}) = Colored(c)
  <2> DEFINE U == S \cup {n + 1}
             i == CHOOSE i \in U : \A j \in U : j <= i
  <2>1. n + 1 \in U /\ \A j \in U : j <= n + 1
    BY <1>1
  <2>2. i \in U /\ \A j \in U : j <= i
    BY <2>1, Zenon
  <2>3. i = n + 1
    <3> HIDE DEF i
    <3> QED BY <1>1, <2>1, <2>2
  <2>4. FinalOf(q, U) = Colored(q[i])
    BY <2>1, Zenon DEF FinalOf
  <2> HIDE DEF i
  <2> QED BY <1>1, <2>3, <2>4
<1> QED BY <1>2, <1>3 DEF FinalOf, q

\* The device adds a style.
LEMMA ApplyStyle ==
  ASSUME NEW f, NEW b, NEW o, NEW s
  PROVE  Tty!Apply([foreground |-> f, background |-> b, on |-> o], [sets |-> "on", to |-> s])
         = [foreground |-> f, background |-> b, on |-> o \cup {s}]
<1> DEFINE a == [foreground |-> f, background |-> b, on |-> o]
<1>1. Tty!Apply(a, [sets |-> "on", to |-> s]) = [a EXCEPT !.on = o \cup {s}]
  BY DEF Tty!Apply
<1>2. [a EXCEPT !.on = o \cup {s}] = [foreground |-> f, background |-> b, on |-> o \cup {s}]
  OBVIOUS
<1> QED BY <1>1, <1>2

\* What one name more means is what the device makes of its code.
LEMMA MeantGrows ==
  ASSUME PartsAssumption, NEW names \in Seq(Tty!COMPOUNDABLES), NEW c \in Tty!COMPOUNDABLES
  PROVE  Tty!Meant(Append(names, c)) = Tty!Apply(Tty!Meant(names), Tty!Code(c))
<1> DEFINE n == Len(names)
           q == Append(names, c)
           m == Tty!Meant(names)
           F(u) == OnGround(u, "foreground")
           B(u) == OnGround(u, "background")
           O(u) == {s \in Styles : <<s>> \in Tty!ToSet(u)}
<1>1. /\ n \in Nat /\ DOMAIN names = 1..n /\ DOMAIN q = 1..(n + 1) /\ q[n + 1] = c /\ \A i \in 1..n : q[i] = names[i]
  BY AppendProperties
<1> HIDE DEF q
<1>2. /\ F(names) \subseteq 1..n /\ B(names) \subseteq 1..n
      /\ F(q) = IF c \in Tty!COLORS /\ c[1] # "on" THEN F(names) \cup {n + 1} ELSE F(names)
      /\ B(q) = IF c[1] = "on" THEN B(names) \cup {n + 1} ELSE B(names)
      /\ O(q) = O(names) \cup {s \in Styles : c = <<s>>}
  <2>1. \A i \in 1..(n + 1) : i \in 1..n \/ i = n + 1
    BY <1>1
  <2>2. 1..n \subseteq 1..(n + 1) /\ n + 1 \in 1..(n + 1) /\ n + 1 \notin 1..n
    BY <1>1
  <2>3. F(names) \subseteq 1..n /\ B(names) \subseteq 1..n
    BY <1>1 DEF OnGround
  <2>4. F(q) = IF c \in Tty!COLORS /\ c[1] # "on" THEN F(names) \cup {n + 1} ELSE F(names)
    BY <1>1, <2>1, <2>2 DEF OnGround
  <2>5. B(q) = IF c[1] = "on" THEN B(names) \cup {n + 1} ELSE B(names)
    BY <1>1, <2>1, <2>2 DEF OnGround
  <2>6. O(q) = O(names) \cup {s \in Styles : c = <<s>>}
    BY <1>1, <2>1, <2>2 DEF Tty!ToSet
  <2> QED BY <2>3, <2>4, <2>5, <2>6
<1>3. /\ FinalOf(q, F(names)) = FinalOf(names, F(names)) /\ FinalOf(q, F(names) \cup {n + 1}) = Colored(c)
      /\ FinalOf(q, B(names)) = FinalOf(names, B(names)) /\ FinalOf(q, B(names) \cup {n + 1}) = Colored(c)
  <2>1. ASSUME NEW S, S \subseteq 1..n
        PROVE  FinalOf(q, S) = FinalOf(names, S) /\ FinalOf(q, S \cup {n + 1}) = Colored(c)
    <3>1. S \subseteq 1..Len(names)
      BY <2>1
    <3>2. /\ FinalOf(Append(names, c), S) = FinalOf(names, S)
          /\ FinalOf(Append(names, c), S \cup {Len(names) + 1}) = Colored(c)
      BY <3>1, FinalGrows
    <3> QED BY <3>2 DEF q
  <2> HIDE DEF F, B
  <2> QED BY <1>2, <2>1
<1>4. /\ Tty!Meant(q) = [foreground |-> FinalOf(q, F(q)), background |-> FinalOf(q, B(q)), on |-> O(q)]
      /\ m = [foreground |-> FinalOf(names, F(names)), background |-> FinalOf(names, B(names)), on |-> O(names)]
  BY MeantIs
<1> HIDE DEF F, B, O, m
<1>5. CASE c \in Tty!COLORS /\ c[1] = "on"
  <2>1. Tty!Code(c) = [sets |-> "background", to |-> Colored(c)] /\ {s \in Styles : c = <<s>>} = {}
    BY <1>5, ColorIs
  <2>2. Tty!Apply(m, Tty!Code(c)) = [m EXCEPT !.background = Colored(c)]
    BY <2>1 DEF Tty!Apply
  <2>3. FinalOf(q, F(q)) = FinalOf(names, F(names)) /\ FinalOf(q, B(q)) = Colored(c) /\ O(q) = O(names)
    BY <1>2, <1>3, <1>5, <2>1
  <2>4. Tty!Meant(q) = [m EXCEPT !.background = Colored(c)]
    BY <1>4, <2>3
  <2> QED BY <2>2, <2>4, Zenon DEF q, m
<1>6. CASE c \in Tty!COLORS /\ c[1] # "on"
  <2>1. Tty!Code(c) = [sets |-> "foreground", to |-> Colored(c)] /\ {s \in Styles : c = <<s>>} = {}
    BY <1>6, ColorIs
  <2>2. Tty!Apply(m, Tty!Code(c)) = [m EXCEPT !.foreground = Colored(c)]
    BY <2>1 DEF Tty!Apply
  <2>3. FinalOf(q, F(q)) = Colored(c) /\ FinalOf(q, B(q)) = FinalOf(names, B(names)) /\ O(q) = O(names)
    BY <1>2, <1>3, <1>6, <2>1
  <2>4. Tty!Meant(q) = [m EXCEPT !.foreground = Colored(c)]
    BY <1>4, <2>3
  <2> QED BY <2>2, <2>4, Zenon DEF q, m
<1>7. CASE c \notin Tty!COLORS
  <2>1. PICK s \in Styles : /\ Tty!Code(c) = [sets |-> "on", to |-> s] /\ c[1] # "on" /\ {t \in Styles : c = <<t>>} = {s}
    BY <1>7, StyleIs
  <2>2. FinalOf(q, F(q)) = FinalOf(names, F(names)) /\ FinalOf(q, B(q)) = FinalOf(names, B(names)) /\ O(q) = O(names) \cup {s}
    BY <1>2, <1>3, <1>7, <2>1
  <2>3. \E f, b, o : f = FinalOf(names, F(names)) /\ b = FinalOf(names, B(names)) /\ o = O(names)
    BY Zenon
  <2>4. PICK f, b, o : f = FinalOf(names, F(names)) /\ b = FinalOf(names, B(names)) /\ o = O(names)
    BY <2>3, Zenon
  <2>5. m = [foreground |-> f, background |-> b, on |-> o]
        /\ Tty!Meant(q) = [foreground |-> f, background |-> b, on |-> o \cup {s}]
    BY <1>4, <2>2, <2>4, Zenon
  <2>6. Tty!Apply([foreground |-> f, background |-> b, on |-> o], [sets |-> "on", to |-> s])
        = [foreground |-> f, background |-> b, on |-> o \cup {s}]
    BY ApplyStyle
  <2> QED BY <2>1, <2>5, <2>6, Zenon DEF q, m
<1> QED BY <1>5, <1>6, <1>7

\* The color seen is one.
LEMMA FinalType ==
  ASSUME PartsAssumption, NEW names \in Seq(Tty!COMPOUNDABLES), NEW S, S \subseteq 1..Len(names),
         \A i \in S : names[i] \in Tty!COLORS
  PROVE  FinalOf(names, S) \in Colors
<1>1. CASE S = {}
  BY <1>1 DEF FinalOf, Colors
<1>2. CASE S # {}
  <2> DEFINE i == CHOOSE i \in S : \A j \in S : j <= i
  <2>1. i \in S
    <3>1. \E m \in S : \A j \in S : j <= m
      <4>1. Len(names) \in Nat
        OBVIOUS
      <4> QED BY <1>2, <4>1, Greatest
    <3> QED BY <3>1
  <2>2. FinalOf(names, S) = Colored(names[i])
    BY <1>2, Zenon DEF FinalOf
  <2> HIDE DEF i
  <2>3. Colored(names[i]) \in Bases \X BOOLEAN
    BY <2>1, ColorIs
  <2> QED BY <2>2, <2>3 DEF Colors
<1> QED BY <1>1, <1>2

\* What names mean is attributes.
LEMMA MeantType ==
  ASSUME PartsAssumption, NEW names \in Seq(Tty!COMPOUNDABLES)
  PROVE  Tty!Meant(names) \in Tty!Attributes
<1> DEFINE F == OnGround(names, "foreground")
           B == OnGround(names, "background")
<1>1. \A i \in 1..Len(names) : names[i] \in Tty!COMPOUNDABLES
  OBVIOUS
<1>2. F \subseteq 1..Len(names) /\ \A i \in F : names[i] \in Tty!COLORS
  BY DEF OnGround
<1>3. B \subseteq 1..Len(names) /\ \A i \in B : names[i] \in Tty!COLORS
  <2>1. B \subseteq 1..Len(names) /\ \A i \in B : names[i][1] = "on"
    BY DEF OnGround
  <2>2. \A c \in Tty!COMPOUNDABLES : c[1] = "on" => c \in Tty!COLORS
    BY StyleIs
  <2> QED BY <1>1, <2>1, <2>2
<1> HIDE DEF F, B
<1>4. FinalOf(names, F) \in Colors /\ FinalOf(names, B) \in Colors
  BY <1>2, <1>3, FinalType
<1>5. Tty!Meant(names) = [foreground |-> FinalOf(names, F), background |-> FinalOf(names, B),
                          on |-> {s \in Styles : <<s>> \in Tty!ToSet(names)}]
  BY MeantIs DEF F, B
<1> QED BY <1>4, <1>5, AttributesAre

\* The device shows what the names mean.
LEMMA ShownAsMeant ==
  ASSUME PartsAssumption, NEW names \in Seq(Tty!COMPOUNDABLES)
  PROVE  Tty!ApplyAll(Tty!Plain, [i \in 1..Len(names) |-> Tty!Code(names[i])]) = Tty!Meant(names)
<1> DEFINE n == Len(names)
           codes == [i \in 1..n |-> Tty!Code(names[i])]
           m == [i \in 0..n |-> Tty!Meant(SubSeq(names, 1, i))]
           IsAll(g) == g = [i \in 0..Len(codes) |-> IF i = 0 THEN Tty!Plain ELSE Tty!Apply(g[i - 1], codes[i])]
           after == CHOOSE g : IsAll(g)
<1>1. n \in Nat /\ Len(codes) = n /\ \A i \in 1..n : codes[i] = Tty!Code(names[i])
  OBVIOUS
<1>2. Tty!ApplyAll(Tty!Plain, codes) = after[Len(codes)]
  BY Zenon DEF Tty!ApplyAll
<1>3. Tty!Meant(<<>>) = Tty!Plain
  <2>1. DOMAIN <<>> = {} /\ <<>> = <<>>
    OBVIOUS
  <2>2. OnGround(<<>>, "foreground") = {} /\ OnGround(<<>>, "background") = {}
    BY <2>1 DEF OnGround
  <2>3. {s \in Styles : <<s>> \in Tty!ToSet(<<>>)} = {}
    BY <2>1 DEF Tty!ToSet
  <2> QED BY <2>2, <2>3, MeantIs DEF FinalOf, Tty!Plain
<1>4. ASSUME NEW i \in 1..n
      PROVE  Tty!Meant(SubSeq(names, 1, i)) = Tty!Apply(Tty!Meant(SubSeq(names, 1, i - 1)), Tty!Code(names[i]))
  <2>1. /\ SubSeq(names, 1, i) = Append(SubSeq(names, 1, i - 1), names[i])
        /\ SubSeq(names, 1, i - 1) \in Seq(Tty!COMPOUNDABLES) /\ names[i] \in Tty!COMPOUNDABLES
    BY FirstOnes
  <2> QED BY <2>1, MeantGrows
<1> HIDE DEF codes
<1>5. ASSUME NEW i \in 0..n PROVE m[i] = IF i = 0 THEN Tty!Plain ELSE Tty!Apply(m[i - 1], codes[i])
  <2>1. CASE i = 0
    <3>1. SubSeq(names, 1, 0) = <<>>
      OBVIOUS
    <3> QED BY <1>3, <2>1, <3>1
  <2>2. CASE i # 0
    <3>1. i \in 1..n /\ i - 1 \in 0..n
      BY <1>1, <2>2
    <3>2. m[i - 1] = Tty!Meant(SubSeq(names, 1, i - 1)) /\ m[i] = Tty!Meant(SubSeq(names, 1, i))
      BY <3>1
    <3> QED BY <1>1, <1>4, <2>2, <3>1, <3>2
  <2> QED BY <2>1, <2>2
<1>6. m = [i \in 0..n |-> m[i]] /\ m[n] = Tty!Meant(names)
  <2>1. SubSeq(names, 1, n) = names /\ n \in 0..n
    BY <1>1
  <2> QED BY <2>1
<1> HIDE DEF m
<1>7. IsAll(m)
  BY <1>1, <1>5, <1>6, Zenon
<1>8. IsAll(after)
  BY <1>7, Zenon
<1> HIDE DEF after
<1> DEFINE P == {i \in 0..n : after[i] = m[i]}
<1>9. 0 \in P
  BY <1>1, <1>5, <1>8
<1>10. ASSUME NEW i \in 1..n, i - 1 \in P PROVE i \in P
  <2>1. i \in 0..n /\ i # 0
    BY <1>1
  <2>2. after[i] = Tty!Apply(after[i - 1], codes[i])
    BY <1>1, <1>8, <2>1
  <2>3. m[i] = Tty!Apply(m[i - 1], codes[i])
    BY <1>5, <2>1
  <2> QED BY <1>10, <2>1, <2>2, <2>3
<1> HIDE DEF P
<1>11. \A i \in 0..n : i \in P
  BY <1>1, <1>9, <1>10, Induction
<1>12. after[n] = m[n]
  BY <1>1, <1>11 DEF P
<1> QED BY <1>1, <1>2, <1>6, <1>12 DEF codes

-----------------------------------------------------------------------------
(***************************************************************************)
(* The blocks.  As long as a change of the terminal lasts there is a block *)
(* that undoes it, and the device remembers the position of the location   *)
(* entered last.                                                           *)
(***************************************************************************)
Blocks == [kind : Tty!Kinds, back : Tty!Axis \X Tty!Axis, inner : BOOLEAN]

TtyTypes ==
  /\ is_a_tty \in BOOLEAN /\ force_styling \in {TRUE, FALSE, None}
  /\ at \in Tty!Axis \X Tty!Axis /\ ttySaved \in Tty!Axis \X Tty!Axis
  /\ screen \in {"normal", "full"} /\ visible \in BOOLEAN
  /\ style = Tty!Plain
  /\ blocks \in Seq(Blocks)
  /\ ttyRaised \in BOOLEAN /\ escapes \in BOOLEAN

Undone ==
  /\ screen = "full" => \E i \in DOMAIN blocks : blocks[i].kind = "fullscreen"
  /\ ~visible => \E i \in DOMAIN blocks : blocks[i].kind = "hidden_cursor"
  /\ ~Tty!does_styling => screen = "normal" /\ visible

Remembered ==
  Tty!does_styling =>
    \A i \in DOMAIN blocks : blocks[i].kind = "location" /\ ~blocks[i].inner => ttySaved = blocks[i].back

TextIsMeant ==
  text # None => /\ text.shown = (IF Tty!does_styling THEN Tty!Meant(text.names) ELSE Tty!Plain)
                 /\ text.shown \in Tty!Attributes

TtyInv == TtyTypes /\ Undone /\ Remembered /\ TextIsMeant /\ Tty!FilesStayPlain

-----------------------------------------------------------------------------
\* The terminal: its steps.

\* The terminal at the start.
LEMMA TtyBegins ==
  ASSUME PartsAssumption, Tty!Init
  PROVE  TtyInv
<1> USE DEF Tty!Init
<1>1. <<0, 0>> \in Tty!Axis \X Tty!Axis
  BY DEF PartsAssumption, Tty!TerminalAssumption, Tty!Axis
<1>2. <<>> \in Seq(Blocks) /\ DOMAIN <<>> = {}
  OBVIOUS
<1>3. TtyTypes
  BY <1>1, <1>2 DEF TtyTypes
<1>4. Undone /\ Remembered /\ TextIsMeant /\ Tty!FilesStayPlain
  BY <1>2 DEF Undone, Remembered, TextIsMeant, Tty!FilesStayPlain
<1> QED BY <1>3, <1>4 DEF TtyInv

\* A stream stays what it is.
LEMMA StylingStays ==
  ASSUME UNCHANGED <<is_a_tty, force_styling>>
  PROVE  Tty!does_styling' <=> Tty!does_styling
BY DEF Tty!does_styling

\* Codes are written with styling only.
LEMMA EscapesKeep ==
  ASSUME Tty!FilesStayPlain, UNCHANGED <<is_a_tty, force_styling>>, escapes \in BOOLEAN,
         escapes' = escapes \/ escapes' = (escapes \/ Tty!does_styling)
  PROVE  Tty!FilesStayPlain' /\ escapes' \in BOOLEAN
<1>1. escapes' = escapes \/ escapes' = TRUE
  BY Zenon
<1>2. escapes' = escapes \/ Tty!does_styling
  BY <1>1, Zenon
<1>3. CASE escapes' = escapes
  BY <1>3 DEF Tty!FilesStayPlain
<1>4. CASE Tty!does_styling
  <2>1. ~(~is_a_tty' /\ force_styling' # TRUE)
    BY <1>4, Zenon DEF Tty!does_styling
  <2> QED BY <1>1, <2>1, Zenon DEF Tty!FilesStayPlain
<1> QED BY <1>2, <1>3, <1>4

\* Text is shown as its names mean.
LEMMA WriteKeeps ==
  ASSUME PartsAssumption, TtyInv, NEW names \in Tty!SeqOf(Tty!COMPOUNDABLES, MaxNames) \ {<<>>}, Tty!Write(names)
  PROVE  TtyInv'
<1> USE DEF Tty!Write
<1>1. names \in Seq(Tty!COMPOUNDABLES) /\ Len(names) # 0
  <2>1. MaxNames \in Nat
    BY DEF PartsAssumption, Tty!TerminalAssumption
  <2>2. PICK n \in 0..MaxNames : names \in [1..n -> Tty!COMPOUNDABLES]
    BY DEF Tty!SeqOf
  <2>3. names \in Seq(Tty!COMPOUNDABLES)
    BY <2>1, <2>2
  <2> QED BY <2>3
<1>2. text'.names = names /\ text'.shown = Tty!ApplyAll(Tty!Plain, Tty!Capability(names))
  BY DEF TtyInv, TtyTypes
<1>3. Tty!does_styling' <=> Tty!does_styling
  BY StylingStays
<1>4. Tty!Plain \in Tty!Attributes
  BY AttributesAre DEF Tty!Plain, Colors
<1>5. text'.shown = (IF Tty!does_styling THEN Tty!Meant(names) ELSE Tty!Plain)
  <2>1. CASE Tty!does_styling
    <3>1. Tty!Capability(names) = [i \in 1..Len(names) |-> Tty!Code(names[i])]
      BY <1>1, <2>1, ResolveIs, Zenon DEF Tty!Capability
    <3> QED BY <1>1, <1>2, <2>1, <3>1, ShownAsMeant, Zenon
  <2>2. CASE ~Tty!does_styling
    <3>1. Tty!Capability(names) = <<>>
      BY <2>2, Zenon DEF Tty!Capability, Tty!NullCallableString
    <3>2. Tty!ApplyAll(Tty!Plain, <<>>) = Tty!Plain
      <4> DEFINE IsAll(g) == g = [i \in 0..Len(<<>>) |-> IF i = 0 THEN Tty!Plain ELSE Tty!Apply(g[i - 1], <<>>[i])]
                 one == [i \in 0..0 |-> Tty!Plain]
                 after == CHOOSE g : IsAll(g)
      <4>1. Tty!ApplyAll(Tty!Plain, <<>>) = after[Len(<<>>)]
        BY Zenon DEF Tty!ApplyAll
      <4>2. Len(<<>>) = 0
        OBVIOUS
      <4>3. IsAll(one)
        BY <4>2
      <4>4. IsAll(after)
        BY <4>3, Zenon
      <4> HIDE DEF after
      <4>5. after[0] = Tty!Plain
        BY <4>2, <4>4
      <4> QED BY <4>1, <4>2, <4>5
    <3> QED BY <1>2, <2>2, <3>1, <3>2, Zenon
  <2> QED BY <2>1, <2>2
<1>6. text'.shown \in Tty!Attributes
  BY <1>1, <1>4, <1>5, MeantType
<1>7. TextIsMeant'
  BY <1>2, <1>3, <1>5, <1>6 DEF TextIsMeant
<1>8. Tty!FilesStayPlain' /\ escapes' \in BOOLEAN
  BY EscapesKeep DEF TtyInv, TtyTypes
<1>9. at' \in Tty!Axis \X Tty!Axis
  <2>1. Size \in Nat /\ at[1] \in 0..Size /\ at[2] \in 0..Size
    BY DEF PartsAssumption, Tty!TerminalAssumption, TtyInv, TtyTypes, Tty!Axis
  <2>2. (at[1] + 1) % (Size + 1) \in 0..Size
    BY <2>1
  <2> QED BY <2>1, <2>2 DEF Tty!Axis
<1>10. TtyTypes'
  BY <1>8, <1>9 DEF TtyInv, TtyTypes
<1>11. Undone' /\ Remembered'
  BY <1>3 DEF TtyInv, Undone, Remembered
<1> QED BY <1>7, <1>8, <1>10, <1>11 DEF TtyInv

\* The blocks when one is entered.
LEMMA EnterBlocks ==
  ASSUME PartsAssumption, TtyTypes, NEW kind \in Tty!Kinds, Tty!Enters(kind)
  PROVE  /\ blocks' \in Seq(Blocks) /\ DOMAIN blocks' = 1..(Len(blocks) + 1) /\ DOMAIN blocks = 1..Len(blocks)
         /\ \A i \in 1..Len(blocks) :
              /\ blocks'[i].kind = blocks[i].kind /\ blocks'[i].back = blocks[i].back
              /\ blocks'[i].inner <=> blocks[i].inner \/ kind = "location"
         /\ blocks'[Len(blocks) + 1] = [kind |-> kind, back |-> at, inner |-> FALSE]
<1> DEFINE n == Len(blocks)
           around == Tty!Around(kind)
           new == [kind |-> kind, back |-> at, inner |-> FALSE]
<1>1. n \in Nat /\ DOMAIN blocks = 1..n /\ \A i \in 1..n : blocks[i] \in Blocks
  BY DEF TtyTypes
<1>2. ASSUME NEW b \in Blocks
      PROVE  LET c == [b EXCEPT !.inner = @ \/ kind = "location"]
             IN  c \in Blocks /\ c.kind = b.kind /\ c.back = b.back /\ (c.inner <=> b.inner \/ kind = "location")
  BY DEF Blocks
<1>3. around = [i \in 1..n |-> [blocks[i] EXCEPT !.inner = @ \/ kind = "location"]]
  BY <1>1 DEF Tty!Around
<1>4. /\ around \in Seq(Blocks) /\ Len(around) = n
      /\ \A i \in 1..n : /\ around[i].kind = blocks[i].kind /\ around[i].back = blocks[i].back
                         /\ around[i].inner <=> blocks[i].inner \/ kind = "location"
  <2> HIDE DEF n, around
  <2>1. \A i \in 1..n : around[i] = [blocks[i] EXCEPT !.inner = @ \/ kind = "location"]
    BY <1>3
  <2>2. ASSUME NEW i \in 1..n
        PROVE  /\ around[i] \in Blocks /\ around[i].kind = blocks[i].kind /\ around[i].back = blocks[i].back
               /\ around[i].inner <=> blocks[i].inner \/ kind = "location"
    <3>1. blocks[i] \in Blocks
      BY <1>1
    <3>2. around[i] = [blocks[i] EXCEPT !.inner = @ \/ kind = "location"]
      BY <2>1
    <3> QED BY <1>2, <3>1, <3>2, Zenon
  <2>3. around \in [1..n -> Blocks]
    BY <1>3, <2>2
  <2>4. around \in Seq(Blocks) /\ Len(around) = n
    BY <1>1, <2>3
  <2> QED BY <2>2, <2>4
<1>5. new \in Blocks
  BY DEF TtyTypes, Blocks
<1>6. blocks' = Append(around, new)
  BY DEF Tty!Enters
<1> HIDE DEF n, around, new
<1>7. /\ blocks' \in Seq(Blocks) /\ Len(blocks') = n + 1 /\ blocks'[n + 1] = new
      /\ \A i \in 1..n : blocks'[i] = around[i]
  BY <1>4, <1>5, <1>6, AppendProperties
<1>8. DOMAIN blocks' = 1..(n + 1)
  BY <1>7
<1> QED BY <1>1, <1>4, <1>7, <1>8 DEF n, new

\* terminal.py:250-277 - the position is remembered before the cursor moves.
LEMMA EnterLocationKeeps ==
  ASSUME PartsAssumption, TtyInv, NEW x \in Tty!Axis \cup {None}, NEW y \in Tty!Axis \cup {None}, Tty!EnterLocation(x, y)
  PROVE  TtyInv'
<1>1. /\ blocks' \in Seq(Blocks) /\ DOMAIN blocks' = 1..(Len(blocks) + 1) /\ DOMAIN blocks = 1..Len(blocks)
      /\ \A i \in 1..Len(blocks) : blocks'[i].kind = blocks[i].kind /\ blocks'[i].inner
      /\ blocks'[Len(blocks) + 1] = [kind |-> "location", back |-> at, inner |-> FALSE]
      /\ Len(blocks) \in Nat
  <2>1. "location" \in Tty!Kinds /\ TtyTypes /\ Tty!Enters("location")
    BY DEF Tty!Kinds, TtyInv, Tty!EnterLocation
  <2>2. Len(blocks) \in Nat
    BY <2>1 DEF TtyTypes
  <2> QED BY <2>1, <2>2, EnterBlocks, Zenon
<1> USE DEF Tty!EnterLocation, Tty!Enters
<1>2. Tty!does_styling' <=> Tty!does_styling
  BY StylingStays
<1>3. Tty!FilesStayPlain' /\ escapes' \in BOOLEAN
  BY EscapesKeep DEF TtyInv, TtyTypes
<1>4. at' \in Tty!Axis \X Tty!Axis /\ ttySaved' \in Tty!Axis \X Tty!Axis
  BY DEF TtyInv, TtyTypes
<1>5. TtyTypes'
  BY <1>1, <1>3, <1>4 DEF TtyInv, TtyTypes
<1>6. Undone'
  <2>1. \A i \in DOMAIN blocks : i \in DOMAIN blocks' /\ blocks'[i].kind = blocks[i].kind
    BY <1>1
  <2> QED BY <1>2, <2>1 DEF TtyInv, Undone
<1>7. Remembered'
  <2>1. Tty!does_styling => ttySaved' = at
    OBVIOUS
  <2>2. \A i \in DOMAIN blocks' : i \in 1..Len(blocks) \/ i = Len(blocks) + 1
    BY <1>1
  <2>3. blocks'[Len(blocks) + 1].back = at
    BY <1>1
  <2> QED BY <1>1, <1>2, <2>1, <2>2, <2>3 DEF Remembered
<1>8. TextIsMeant'
  BY DEF TextIsMeant
<1> QED BY <1>3, <1>5, <1>6, <1>7, <1>8 DEF TtyInv

\* Entering another block leaves the position that is remembered.
LEMMA EnterKeeps ==
  ASSUME PartsAssumption, TtyInv, NEW kind \in Tty!Kinds, kind # "location", Tty!Enters(kind), UNCHANGED <<at, ttySaved>>,
         screen' = screen \/ (kind = "fullscreen" /\ screen' = "full" /\ Tty!does_styling),
         visible' = visible \/ (kind = "hidden_cursor" /\ visible' = FALSE /\ Tty!does_styling)
  PROVE  TtyInv'
<1>1. /\ blocks' \in Seq(Blocks) /\ DOMAIN blocks' = 1..(Len(blocks) + 1) /\ DOMAIN blocks = 1..Len(blocks)
      /\ \A i \in 1..Len(blocks) :
           /\ blocks'[i].kind = blocks[i].kind /\ blocks'[i].back = blocks[i].back
           /\ blocks'[i].inner <=> blocks[i].inner
      /\ blocks'[Len(blocks) + 1].kind = kind
      /\ Len(blocks) \in Nat
  <2>1. TtyTypes
    BY DEF TtyInv
  <2>2. Len(blocks) \in Nat
    BY <2>1 DEF TtyTypes
  <2>3. blocks'[Len(blocks) + 1].kind = kind
    <3>1. blocks'[Len(blocks) + 1] = [kind |-> kind, back |-> at, inner |-> FALSE]
      BY <2>1, EnterBlocks
    <3> QED BY <3>1
  <2>4. \A i \in 1..Len(blocks) : blocks'[i].inner <=> blocks[i].inner
    BY <2>1, EnterBlocks, Zenon
  <2> QED BY <2>1, <2>2, <2>3, <2>4, EnterBlocks, Zenon
<1> USE DEF Tty!Enters
<1>2. Tty!does_styling' <=> Tty!does_styling
  BY StylingStays
<1>3. Tty!FilesStayPlain' /\ escapes' \in BOOLEAN
  BY EscapesKeep DEF TtyInv, TtyTypes
<1>4. TtyTypes'
  BY <1>1, <1>3 DEF TtyInv, TtyTypes
<1>5. Undone'
  <2>1. \A i \in DOMAIN blocks : i \in DOMAIN blocks' /\ blocks'[i].kind = blocks[i].kind
    BY <1>1
  <2>2. Len(blocks) + 1 \in DOMAIN blocks'
    BY <1>1
  <2> QED BY <1>1, <1>2, <2>1, <2>2 DEF TtyInv, Undone
<1>6. Remembered'
  <2>1. \A i \in DOMAIN blocks' : i \in 1..Len(blocks) \/ i = Len(blocks) + 1
    BY <1>1
  <2> QED BY <1>1, <1>2, <2>1 DEF TtyInv, Remembered
<1>7. TextIsMeant'
  BY DEF TextIsMeant
<1> QED BY <1>3, <1>4, <1>5, <1>6, <1>7 DEF TtyInv

\* An exception changes nothing yet.
LEMMA RaiseKeeps ==
  ASSUME TtyInv, Tty!Raise
  PROVE  TtyInv'
<1> USE DEF Tty!Raise, Tty!device
<1>1. Tty!does_styling' <=> Tty!does_styling
  BY StylingStays
<1>2. TtyTypes'
  BY DEF TtyInv, TtyTypes
<1>3. Undone' /\ Remembered' /\ TextIsMeant' /\ Tty!FilesStayPlain'
  BY <1>1 DEF TtyInv, Undone, Remembered, TextIsMeant, Tty!FilesStayPlain
<1> QED BY <1>2, <1>3 DEF TtyInv

\* A block that is left undoes its own change; a location does so by what the device remembers.
LEMMA LeaveKeeps ==
  ASSUME TtyInv, Tty!Leave
  PROVE  TtyInv' /\ (Tty!does_styling /\ blocks # <<>> /\ Tty!Last(blocks).kind = "location" /\ ~Tty!Last(blocks).inner
                       => at' = Tty!Last(blocks).back)
<1> DEFINE n == Len(blocks)
<1>1. /\ n \in Nat \ {0} /\ DOMAIN blocks = 1..n /\ blocks \in Seq(Blocks) /\ blocks[n] \in Blocks
      /\ Tty!Last(blocks) = blocks[n]
  BY DEF TtyInv, TtyTypes, Tty!Leave, Tty!Last
<1>2. /\ blocks' \in Seq(Blocks) /\ DOMAIN blocks' = 1..(n - 1) /\ \A i \in 1..(n - 1) : blocks'[i] = blocks[i]
  BY <1>1 DEF Tty!Leave, Tty!Front
<1> HIDE DEF n
<1> USE DEF Tty!Leave, Tty!device, Tty!RestoresLocation, Tty!RestoresScreen, Tty!RestoresCursor
<1>3. Tty!does_styling' <=> Tty!does_styling
  BY StylingStays
<1>4. TtyTypes'
  BY <1>2 DEF TtyInv, TtyTypes
<1>5. \A i \in DOMAIN blocks : i # n => i \in DOMAIN blocks' /\ blocks'[i] = blocks[i]
  BY <1>1, <1>2
<1>6. Undone'
  BY <1>1, <1>3, <1>5 DEF TtyInv, Undone
<1>7. Remembered'
  BY <1>1, <1>2, <1>3 DEF TtyInv, Remembered
<1>8. TextIsMeant' /\ Tty!FilesStayPlain'
  BY DEF TtyInv, TextIsMeant, Tty!FilesStayPlain
<1>9. Tty!does_styling /\ Tty!Last(blocks).kind = "location" /\ ~Tty!Last(blocks).inner => at' = Tty!Last(blocks).back
  BY <1>1 DEF TtyInv, Remembered
<1> QED BY <1>4, <1>6, <1>7, <1>8, <1>9 DEF TtyInv

\* A step of another component.
LEMMA TtyRestsWell ==
  ASSUME TtyInv, UNCHANGED ttyVars
  PROVE  TtyInv'
<1> USE DEF ttyVars
<1>1. Tty!does_styling' <=> Tty!does_styling
  BY StylingStays
<1>2. TtyTypes'
  BY DEF TtyInv, TtyTypes
<1>3. Undone' /\ Remembered' /\ TextIsMeant' /\ Tty!FilesStayPlain'
  BY <1>1 DEF TtyInv, Undone, Remembered, TextIsMeant, Tty!FilesStayPlain
<1> QED BY <1>2, <1>3 DEF TtyInv

\* Every step keeps the invariant, and only the step that leaves a block removes one.
LEMMA TtySteps ==
  ASSUME PartsAssumption, TtyInv, Tty!Next
  PROVE  /\ TtyInv'
         /\ Tty!LeavesLocation /\ Tty!does_styling /\ ~Tty!Last(blocks).inner => at' = Tty!Last(blocks).back
<1>1. ASSUME Tty!LeavesLocation, ~Tty!Leave, blocks # <<>> PROVE FALSE
  <2>1. blocks' = Tty!Front(blocks)
    BY <1>1 DEF Tty!LeavesLocation
  <2>2. Len(blocks) \in Nat /\ Len(blocks) # 0 /\ blocks \in Seq(Blocks)
    BY <1>1 DEF TtyInv, TtyTypes
  <2>3. Len(blocks') = Len(blocks) - 1
    <3>1. PICK n \in Nat \ {0} : n = Len(blocks)
      BY <2>2
    <3>2. DOMAIN blocks = 1..n
      BY <2>2, <3>1
    <3>3. blocks' \in Seq(Blocks) /\ DOMAIN blocks' = 1..(n - 1)
      BY <2>1, <2>2, <3>1, <3>2 DEF Tty!Front
    <3>4. Len(blocks') = n - 1
      BY <3>3
    <3> QED BY <3>1, <3>4
  <2>4. blocks' # blocks
    BY <2>2, <2>3
  <2>5. ASSUME NEW kind \in Tty!Kinds, Tty!Enters(kind) PROVE FALSE
    <3>1. DOMAIN blocks' = 1..(Len(blocks) + 1) /\ blocks' \in Seq(Blocks)
      BY <2>5, EnterBlocks DEF TtyInv
    <3>2. Len(blocks') = Len(blocks) + 1
      BY <2>2, <3>1
    <3> QED BY <2>2, <2>3, <3>2
  <2> QED BY <1>1, <2>4, <2>5 DEF Tty!Next, Tty!Write, Tty!EnterLocation, Tty!EnterFullscreen, Tty!EnterHiddenCursor,
        Tty!Raise, Tty!Kinds
<1>2. TtyInv'
  <2>1. CASE \E names \in Tty!SeqOf(Tty!COMPOUNDABLES, MaxNames) \ {<<>>} : Tty!Write(names)
    BY <2>1, WriteKeeps
  <2>2. CASE \E x, y \in Tty!Axis \cup {None} : Tty!EnterLocation(x, y)
    BY <2>2, EnterLocationKeeps
  <2>3. CASE Tty!EnterFullscreen
    <3>1. "fullscreen" \in Tty!Kinds /\ "fullscreen" # "location"
      BY DEF Tty!Kinds
    <3> QED BY <2>3, <3>1, EnterKeeps DEF Tty!EnterFullscreen
  <2>4. CASE Tty!EnterHiddenCursor
    <3>1. "hidden_cursor" \in Tty!Kinds /\ "hidden_cursor" # "location"
      BY DEF Tty!Kinds
    <3> QED BY <2>4, <3>1, EnterKeeps DEF Tty!EnterHiddenCursor
  <2> QED BY <2>1, <2>2, <2>3, <2>4, RaiseKeeps, LeaveKeeps DEF Tty!Next
<1> QED BY <1>1, <1>2, LeaveKeeps DEF Tty!LeavesLocation

\* What the invariant says of the properties.
LEMMA TtyIsFound ==
  ASSUME PartsAssumption, TtyInv
  PROVE  Tty!TypeOK /\ Tty!TextIsShownAsNamed /\ Tty!LeftAsFound /\ Tty!FilesStayPlain
<1>1. Tty!Plain \in Tty!Attributes
  BY AttributesAre DEF Tty!Plain, Colors
<1>2. \A i \in DOMAIN blocks : blocks[i] \in Blocks
  BY DEF TtyInv, TtyTypes
<1>3. \A i \in DOMAIN blocks : blocks[i].kind \in Tty!Kinds /\ blocks[i].back \in Tty!Axis \X Tty!Axis /\ blocks[i].inner \in BOOLEAN
  BY <1>2 DEF Blocks
<1>4. Tty!TypeOK
  BY <1>1, <1>3 DEF TtyInv, TtyTypes, TextIsMeant, Tty!TypeOK
<1>5. Tty!TextIsShownAsNamed
  BY DEF TtyInv, TtyTypes, TextIsMeant, Tty!TextIsShownAsNamed
<1>6. Tty!LeftAsFound
  BY DEF TtyInv, TtyTypes, Undone, Tty!LeftAsFound
<1> QED BY <1>4, <1>5, <1>6 DEF TtyInv

-----------------------------------------------------------------------------
\* The log and the terminal as parts of a call.

ScreenInv == (part = "log" => LogInv) /\ (part = "tty" => TtyInv)

\* Each part begins as it should.
LEMMA ScreenBegins ==
  ASSUME ConsoleInit
  PROVE  ScreenInv
BY PartsAssumption, LogBegins, TtyBegins DEF ConsoleInit, ScreenInv

\* A step is of one part, and the others rest.
LEMMA ScreenSteps ==
  ASSUME ScreenInv, [ConsoleNext]_consoleVars
  PROVE  /\ ScreenInv'
         /\ [(Log!DrawInfos \/ Log!DrawTasks) /\ trouble' = {} => top' = top]_Log!vars
         /\ [Tty!LeavesLocation /\ Tty!does_styling /\ ~Tty!Last(blocks).inner => at' = Tty!Last(blocks).back]_Tty!vars
<1>1. /\ UNCHANGED logVars => UNCHANGED Log!vars
      /\ UNCHANGED ttyVars => UNCHANGED Tty!vars
  BY DEF logVars, ttyVars, Log!vars, Log!lists, Log!thread, Log!term, Tty!vars, Tty!device
<1>2. CASE part = "call" /\ Call!Next /\ UNCHANGED <<part, logVars, ttyVars>>
  BY <1>1, <1>2 DEF ScreenInv
<1>3. CASE part = "log" /\ Log!Next /\ UNCHANGED <<part, callVars, ttyVars>>
  BY <1>1, <1>3, LogSteps, PartsAssumption, Zenon DEF ScreenInv
<1>4. CASE part = "tty" /\ Tty!Next /\ UNCHANGED <<part, callVars, logVars>>
  BY <1>1, <1>4, TtySteps, PartsAssumption, Zenon DEF ScreenInv
<1>5. CASE UNCHANGED consoleVars
  <2>1. UNCHANGED part /\ UNCHANGED logVars /\ UNCHANGED ttyVars
    BY <1>5 DEF consoleVars
  <2> QED BY <1>1, <2>1, LogRestsWell, TtyRestsWell, Zenon DEF ScreenInv
<1> QED BY <1>2, <1>3, <1>4, <1>5 DEF ConsoleNext

\* cursor.py:12-35, logger.py:31-99, 150-171, terminal.py:250-302, 353-431, 486-504, 552-567 -
\* unless the lists grew by two lines or more between their count and their drawing, or the
\* main thread reset them beside a drawing, the log is drawn over its own lines and nothing
\* of the user's, and the last drawing shows all there is with the footer below it; text is
\* shown as its names say, the terminal is left as it was found, and a stream that is not a
\* terminal gets no code.
THEOREM TheScreenIsClean == ConsoleSpec => []ScreenIsClean
<1>1. ScreenInv => ScreenIsClean
  BY PartsAssumption, LogIsClean, TtyIsFound DEF ScreenInv, ScreenIsClean
<1> QED BY <1>1, ScreenBegins, ScreenSteps, PTL DEF ConsoleSpec

\* cursor.py:30-35, logger.py:150-155, terminal.py:250-282 - a drawing has the rows that were
\* counted for it, unless the threads met so, and never scrolls the screen under the saved
\* position; a location that had no other one in it puts the cursor back where it was.
THEOREM TheCursorIsFound == ConsoleSpec => CursorIsFound
BY ScreenBegins, ScreenSteps, PTL DEF ConsoleSpec, CursorIsFound, Log!DrawingDoesNotScroll, Tty!InnermostReturns

=============================================================================
