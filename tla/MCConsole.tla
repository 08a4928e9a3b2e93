----------------------------- MODULE MCConsole ------------------------------
(***************************************************************************)
(* A call of the program as its user sees it: the commands and their log   *)
(* (Dispatcher), the drawing of the tasks on the screen (ProgressLog), and *)
(* the terminal they are drawn on (Terminal). A behaviour is of one        *)
(* component; the variables of the others rest.                            *)
(***************************************************************************)
EXTENDS Naturals, Sequences

CONSTANTS
  MaxMessages, IsWindows,                            \* of Dispatcher
  Height, StartRow, NumTasks, MaxInfos,              \* of ProgressLog
  Bases, Styles, Size, MaxDepth, MaxNames,           \* of Terminal
  None

VARIABLES
  part,  \* the component whose behaviour this is
  \* of Dispatcher
  args, callMain, todo, callRaised, handlers, debuggable, callStop, callWorker, queue, backup,
  taken, printed, said, errorLog, footers,
  \* of ProgressLog
  infos, tasks, begun, ended, build, logMain, logWorker, logStop, rows, top, cursor, logSaved,
  last, counted, drawn, trouble,
  \* of Terminal
  is_a_tty, force_styling, at, ttySaved, screen, visible, style, blocks, ttyRaised, text,
  escapes

Call == INSTANCE Dispatcher WITH
  main <- callMain, raised <- callRaised, stop <- callStop, worker <- callWorker
Log == INSTANCE ProgressLog WITH
  main <- logMain, worker <- logWorker, stop <- logStop, saved <- logSaved
Tty == INSTANCE Terminal WITH saved <- ttySaved, raised <- ttyRaised

ASSUME PartsAssumption ==
  /\ Call!DispatcherAssumption /\ Log!ProgressAssumption /\ Tty!TerminalAssumption

callVars ==
  <<args, callMain, todo, callRaised, handlers, debuggable, callStop, callWorker, queue, backup,
    taken, printed, said, errorLog, footers>>
logVars ==
  <<infos, tasks, begun, ended, build, logMain, logWorker, logStop, rows, top, cursor, logSaved,
    last, counted, drawn, trouble>>
ttyVars ==
  <<is_a_tty, force_styling, at, ttySaved, screen, visible, style, blocks, ttyRaised, text,
    escapes>>

\* The variables of a component that this behaviour is not about.
CallRests ==
  /\ args = None /\ callMain = None /\ todo = None /\ callRaised = None /\ handlers = None
  /\ debuggable = None /\ callStop = None /\ callWorker = None /\ queue = None /\ backup = None
  /\ taken = None /\ printed = None /\ said = None /\ errorLog = None /\ footers = None
LogRests ==
  /\ infos = None /\ tasks = None /\ begun = None /\ ended = None /\ build = None
  /\ logMain = None /\ logWorker = None /\ logStop = None /\ rows = None /\ top = None
  /\ cursor = None /\ logSaved = None /\ last = None /\ counted = None /\ drawn = None
  /\ trouble = None
TtyRests ==
  /\ is_a_tty = None /\ force_styling = None /\ at = None /\ ttySaved = None /\ screen = None
  /\ visible = None /\ style = None /\ blocks = <<>> /\ ttyRaised = None /\ text = None
  /\ escapes = None

ConsoleInit ==
  \/ part = "call" /\ Call!Init /\ LogRests /\ TtyRests
  \/ part = "log" /\ Log!Init /\ CallRests /\ TtyRests
  \/ part = "tty" /\ Tty!Init /\ CallRests /\ LogRests

ConsoleNext ==
  \/ part = "call" /\ Call!Next /\ UNCHANGED <<part, logVars, ttyVars>>
  \/ part = "log" /\ Log!Next /\ UNCHANGED <<part, callVars, ttyVars>>
  \/ part = "tty" /\ Tty!Next /\ UNCHANGED <<part, callVars, logVars>>

consoleVars == <<part, callVars, logVars, ttyVars>>
ConsoleSpec == ConsoleInit /\ [][ConsoleNext]_consoleVars
\* Both threads of a call are scheduled; a command that runs ends or raises.
FairConsoleSpec ==
  /\ ConsoleSpec
  /\ WF_consoleVars(part = "call" /\ Call!MainStep /\ UNCHANGED <<part, logVars, ttyVars>>)
  /\ WF_consoleVars(part = "call" /\ Call!WorkerStep /\ UNCHANGED <<part, logVars, ttyVars>>)

-----------------------------------------------------------------------------
\* The tasks of a build and of the clean build it is retried with.
TwoAndOne == <<2, 1>>

-----------------------------------------------------------------------------
\* dispatcher.py:97-145, logger.py:31-42, 121-148 - one call makes at most one clean
\* build more and ends with one footer, of the build that was last; its messages are
\* printed in their order, none twice and, by a worker that ends in debug mode, all; the
\* error log has all of them.
CallIsAnswered ==
  part = "call" =>
    /\ Call!TypeOK /\ Call!RetriesOnce /\ Call!OneFooterAtTheEnd
    /\ Call!PrintedInOrder /\ Call!WorkerLeavesNothing /\ Call!ErrorLogIsWhole

\* cursor.py:12-35, logger.py:39-95, terminal.py - a drawing writes over its own lines
\* only and leaves the last one; whatever blocks were nested, the terminal is as it
\* was, and text is shown as its names say.  See ProgressLog and Terminal.
ScreenIsClean ==
  /\ part = "log" => Log!TypeOK /\ Log!RowsAreClean /\ Log!FinalScreenIsCurrent
  /\ part = "tty" => Tty!TypeOK /\ Tty!TextIsShownAsNamed /\ Tty!LeftAsFound /\ Tty!FilesStayPlain

\* cursor.py:30-35, logger.py:150-155, terminal.py:255-282 - a drawing fits the lines
\* that were counted for it and never scrolls, and a location that had no other one in it
\* puts the cursor back where it was.
CursorIsFound == Log!DrawingDoesNotScroll /\ Tty!InnermostReturns

\* dispatcher.py:138-141 - when no command hangs, the call ends.
CallEnds == part = "call" ~> callMain \in {"ended", "exited"}
=============================================================================
