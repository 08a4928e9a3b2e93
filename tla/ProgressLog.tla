---------------------------- MODULE ProgressLog -----------------------------
(***************************************************************************)
(* Freeline's progress on the terminal.  The logger worker redraws the     *)
(* infos and the tasks that have begun at a saved cursor position; the     *)
(* main thread adds infos and tasks, resets the log before a retry and     *)
(* prints the footer after joining the worker.  Both write to one terminal *)
(* and neither locks it.                                                   *)
(*                                                                         *)
(* A row holds "blank", "user" (what was there before), a line of the log, *)
(* or "mixed": a line written over another one.                            *)
(***************************************************************************)
EXTENDS Naturals, Sequences

CONSTANTS
  Height,    \* rows of the terminal
  StartRow,  \* row of the cursor when Freeline starts
  NumTasks,  \* NumTasks[b]: tasks of the b-th build of the call
  MaxInfos   \* bound on the infos of a build

\* What the constants may be.
ProgressAssumption ==
  /\ Height \in Nat /\ StartRow \in 1..Height /\ MaxInfos \in Nat
  /\ NumTasks \in Seq(Nat) /\ NumTasks # <<>>
  /\ \A b \in DOMAIN NumTasks : NumTasks[b] + MaxInfos + 1 < Height

VARIABLES
  infos,     \* Logger.info_message_array
  tasks,     \* logger.sorted_tasks
  begun,     \* tasks for which can_show_log() holds
  ended,     \* tasks that have ended
  build,     \* number of the current build
  main,      \* program counter of the main thread
  worker,    \* program counter of the logger worker
  stop,      \* the stop event
  rows,      \* what was ever on the terminal, the rows scrolled away included
  top,       \* number of the rows scrolled away
  cursor,    \* row of the cursor on the screen
  saved,     \* row the terminal has saved, 0 if none
  last,      \* the update of the worker is the one after the stop event
  counted,   \* history: infos and tasks there were when the worker cleared
  drawn,     \* history: lines it has drawn since
  trouble    \* history: how the two threads got into each other's way

lists == <<infos, tasks, begun, ended, build>>
term == <<rows, top, cursor, saved>>
thread == <<worker, last, counted, drawn>>
vars == <<lists, main, thread, stop, term, trouble>>

Task(b, i) == <<"task", b, i>>
Info(b, i) == <<"info", b, i>>
Line(t) == IF t \in ended THEN <<"ended", t[2], t[3]>> ELSE <<"working", t[2], t[3]>>

\* The lines drawn now, infos first, and the footer.
Shown ==
  LET upTo[i \in 0..Len(tasks)] ==
        IF i = 0 THEN <<>>
        ELSE IF tasks[i] \in begun THEN Append(upTo[i - 1], tasks[i]) ELSE upTo[i - 1]
  IN  upTo[Len(tasks)]
TaskLines == [i \in DOMAIN Shown |-> Line(Shown[i])]
Footer == <<"footer", 0, 0>>
Blank == <<"blank", 0, 0>>
User == <<"user", 0, 0>>
Mixed == <<"mixed", 0, 0>>

TypeOK ==
  /\ \A i \in DOMAIN infos : infos[i] = Info(build, i)
  /\ \A i \in DOMAIN tasks : tasks[i] \in {Task(b, i) : b \in DOMAIN NumTasks}
  /\ ended \subseteq begun
  /\ build \in DOMAIN NumTasks
  /\ main \in {"builds", "saves", "empties", "joins", "prints", "ended"}
  /\ worker \in {"tests", "clears", "saves", "drawsInfos", "drawsTasks", "ended"}
  /\ stop \in BOOLEAN
  /\ cursor \in 1..Height /\ saved \in 0..Height
  /\ top \in Nat /\ Len(rows) = top + Height
  /\ last \in BOOLEAN /\ counted \in Nat /\ drawn \in Nat
  /\ trouble \subseteq {"grew", "overlapped"}

Init ==
  /\ infos = <<>> /\ tasks = <<>> /\ begun = {} /\ ended = {} /\ build = 1
  /\ main = "builds" /\ worker = "tests" /\ stop = FALSE
  /\ rows = [r \in 1..Height |-> IF r < StartRow THEN User ELSE Blank]
  /\ top = 0 /\ cursor = StartRow /\ saved = 0
  /\ last = FALSE /\ counted = 0 /\ drawn = 0 /\ trouble = {}

-----------------------------------------------------------------------------
\* The terminal: a state is [rows, top, cursor]; save and restore keep a row of
\* the screen, whatever has scrolled in between.
Screen == [rows |-> rows, top |-> top, cursor |-> cursor]

Down(s) ==
  IF s.cursor < Height
    THEN [s EXCEPT !.cursor = @ + 1]
    ELSE [s EXCEPT !.rows = Append(@, Blank), !.top = @ + 1]
Up(s) == [s EXCEPT !.cursor = IF @ > 1 THEN @ - 1 ELSE @]
ClearEol(s) == [s EXCEPT !.rows[s.top + s.cursor] = Blank]
Write(s, line) ==
  Down([s EXCEPT !.rows[s.top + s.cursor] = IF @ = Blank THEN line ELSE Mixed])

Restore(s) == IF saved = 0 THEN s ELSE [s EXCEPT !.cursor = saved]

ClearLines(s, n) ==
  LET down[i \in 0..n] == IF i = 0 THEN s ELSE Down(ClearEol(down[i - 1]))
      up[i \in 0..n] == IF i = 0 THEN down[n] ELSE Up(up[i - 1])
  IN  up[n]

WriteAll(s, lines) ==
  LET after[i \in 0..Len(lines)] == IF i = 0 THEN s ELSE Write(after[i - 1], lines[i])
  IN  after[Len(lines)]

Show(s) == rows' = s.rows /\ top' = s.top /\ cursor' = s.cursor

\* _calculate_lines_num.  task.can_show_log without a call is true of every
\* task: each one is counted, begun or not, and one line more.
LinesNum == Len(tasks) + Len(infos) + 1

-----------------------------------------------------------------------------
\* The worker: update() is clear_space() and draw().  The stop event is read
\* at the head of the loop and followed by one more update.
\* Fault: the worker ends at the stop event.
TestStopEnds ==
  /\ worker = "tests"
  /\ worker' = IF stop THEN "ended" ELSE "clears"
  /\ last' = stop
  /\ UNCHANGED <<lists, main, stop, term, counted, drawn>>

TestStop ==
  /\ worker = "tests"
  /\ worker' = "clears"
  /\ last' = stop
  /\ UNCHANGED <<lists, main, stop, term, counted, drawn>>

Clear ==
  /\ worker = "clears"
  /\ Show(ClearLines(Restore(Screen), LinesNum))
  /\ worker' = "saves"
  /\ counted' = Len(tasks) + Len(infos) /\ drawn' = 0
  /\ UNCHANGED <<lists, main, stop, saved, last>>

Save ==
  /\ worker = "saves"
  /\ saved' = cursor
  /\ worker' = "drawsInfos"
  /\ UNCHANGED <<lists, main, stop, rows, top, cursor, last, counted, drawn>>

DrawInfos ==
  /\ worker = "drawsInfos"
  /\ Show(WriteAll(Restore(Screen), infos))
  /\ worker' = "drawsTasks"
  /\ drawn' = Len(infos)
  /\ UNCHANGED <<lists, main, stop, saved, last, counted>>

DrawTasks ==
  /\ worker = "drawsTasks"
  /\ Show(WriteAll(Screen, TaskLines))
  /\ worker' = IF last THEN "ended" ELSE "tests"
  /\ drawn' = drawn + Len(Shown)
  /\ UNCHANGED <<lists, main, stop, saved, last, counted>>

-----------------------------------------------------------------------------
\* The main thread and the tasks of its build, all of which have ended when it
\* goes on.  An interrupt from the keyboard while tasks run is left out.
AllEnded == \A i \in DOMAIN tasks : tasks[i] \in ended

AddInfo ==
  /\ main = "builds" /\ AllEnded
  /\ Len(infos) < MaxInfos
  /\ infos' = Append(infos, Info(build, Len(infos) + 1))
  /\ UNCHANGED <<tasks, begun, ended, build, main, thread, stop, term>>

SetSortedTasks ==
  /\ main = "builds" /\ tasks = <<>>
  /\ tasks' = [i \in 1..NumTasks[build] |-> Task(build, i)]
  /\ UNCHANGED <<infos, begun, ended, build, main, thread, stop, term>>

Begin ==
  /\ \E i \in DOMAIN tasks : tasks[i] \notin begun /\ begun' = begun \cup {tasks[i]}
  /\ UNCHANGED <<infos, tasks, ended, build, main, thread, stop, term>>

End ==
  /\ \E t \in begun : t \notin ended /\ ended' = ended \cup {t}
  /\ UNCHANGED <<infos, tasks, begun, build, main, thread, stop, term>>

\* reset(), before the retry, in the steps of clear_space() and of its own.
ResetClears ==
  /\ main = "builds" /\ AllEnded /\ build < Len(NumTasks)
  /\ Show(ClearLines(Restore(Screen), LinesNum))
  /\ main' = "saves"
  /\ UNCHANGED <<lists, thread, stop, saved>>

ResetSaves ==
  /\ main = "saves"
  /\ saved' = cursor
  /\ main' = "empties"
  /\ UNCHANGED <<lists, thread, stop, rows, top, cursor>>

ResetEmpties ==
  /\ main = "empties"
  /\ tasks' = <<>> /\ infos' = <<>> /\ build' = build + 1
  /\ main' = "builds"
  /\ UNCHANGED <<begun, ended, thread, stop, term>>

Stop ==
  /\ main = "builds" /\ AllEnded
  /\ stop' = TRUE /\ main' = "joins"
  /\ UNCHANGED <<lists, thread, term>>

Join ==
  /\ main = "joins" /\ worker = "ended"
  /\ main' = "prints"
  /\ UNCHANGED <<lists, thread, stop, term>>

PrintFooter ==
  /\ main = "prints"
  /\ Show(Write(Screen, Footer))
  /\ main' = "ended"
  /\ UNCHANGED <<lists, thread, stop, saved>>

WorkerStep == TestStop \/ Clear \/ Save \/ DrawInfos \/ DrawTasks
MainStep ==
  \/ AddInfo \/ SetSortedTasks \/ Begin \/ End \/ ResetClears \/ ResetSaves
  \/ ResetEmpties \/ Stop \/ Join \/ PrintFooter

\* The main thread resets while the worker redraws, or the lists have grown, by
\* more than the one line kept for it, between their count and their drawing.
Overlap == main \in {"saves", "empties"} /\ worker \in {"saves", "drawsInfos", "drawsTasks"}
Growth == drawn > counted + 1

Next ==
  /\ WorkerStep \/ MainStep
  /\ trouble' = trouble \cup {w \in {"overlapped"} : Overlap'} \cup {w \in {"grew"} : Growth'}

Spec == Init /\ [][Next]_vars

-----------------------------------------------------------------------------
\* logger.py:39-44, 87-95 - the call leaves on the terminal what was there
\* before, then the infos and tasks of its last build as they ended, the footer
\* and nothing of an earlier build or drawing - unless the threads have met.
FinalScreenIsCurrent ==
  (main = "ended" /\ trouble = {}) =>
    LET log == [r \in 1..(StartRow - 1) |-> User] \o infos \o TaskLines \o <<Footer>>
    IN \A r \in DOMAIN rows : rows[r] = IF r \in DOMAIN log THEN log[r] ELSE Blank

\* cursor.py:30-35, logger.py:150-155 - the lines a drawing needs were cleared,
\* and room made for them at the bottom, when they were counted: it never
\* scrolls, which would leave the saved position behind what it stands for.
DrawingDoesNotScroll == [][(DrawInfos \/ DrawTasks) /\ trouble' = {} => top' = top]_vars

\* cursor.py:12-21 - no line is written over another one, and none above the
\* row where the log began, in any state of the two threads' turns but those
\* named in trouble.
RowsAreClean ==
  trouble = {} => \A r \in DOMAIN rows : rows[r] # Mixed /\ (r < StartRow => rows[r] = User)
=============================================================================
