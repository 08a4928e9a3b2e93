----------------------------- MODULE MCSession ------------------------------
(***************************************************************************)
(* What a client sees of its session: the data connection, which the       *)
(* server thread may close (SessionData), the files it shares with other   *)
(* sessions (FileCommands), and the line ends of its transfers             *)
(* (AsciiTransfer).  A behaviour is of one component; the variables of the *)
(* others rest, those of SessionData in its initial state.                 *)
(***************************************************************************)
EXTENDS SessionData, TLC

CONSTANTS
  \* of FileCommands
  Names, MaxDepth, MaxCommands, Sessions, Params, Kept, MaxChunks, Unlistable, Unknown,
  \* of AsciiTransfer
  MaxBytes

VARIABLES
  part,  \* the component whose behaviour this is
  \* of FileCommands
  tree, data, workingDir, renameFrom, cmd, started, killed, wanted, writers, raced,
  \* of AsciiTransfer
  buffers

Files == INSTANCE FileCommands WITH crashed <- killed
Ascii == INSTANCE AsciiTransfer

ASSUME PartsAssumption ==
  Files!FileSystemAssumption /\ Files!CommandsAssumption /\ Ascii!AsciiAssumption

filesVars ==
  <<tree, data, workingDir, renameFrom, cmd, started, killed, wanted, writers, raced>>

\* The variables of a component that this behaviour is not about.
FilesRests ==
  /\ tree = None /\ data = None /\ workingDir = None /\ renameFrom = None /\ cmd = None
  /\ started = None /\ killed = None /\ wanted = None /\ writers = None /\ raced = None

SessionInit ==
  /\ Init
  /\ \/ part = "data" /\ FilesRests /\ buffers = None
     \/ part = "files" /\ Files!Init /\ buffers = None
     \/ part = "ascii" /\ FilesRests /\ Ascii!Init

SessionNext ==
  \/ part = "data" /\ Next /\ UNCHANGED <<part, filesVars, buffers>>
  \/ part = "files" /\ Files!Next /\ UNCHANGED <<part, vars, buffers>>
  \/ part = "ascii" /\ Ascii!Read /\ UNCHANGED <<part, vars, filesVars>>

sessionsVars == <<part, vars, filesVars, buffers>>
SessionSpec == SessionInit /\ [][SessionNext]_sessionsVars

Symmetry == Permutations(Sessions)

\* Two names in two levels, of which the parameters reach three paths, and one file.
Relative(p) == [absolute |-> FALSE, path |-> p]
Absolute(p) == [absolute |-> TRUE, path |-> p]
FourParams ==
  {Relative(<<"f">>), Absolute(<<"0", "f">>), Absolute(<<"0", "d">>), Absolute(<<>>)}
OneKept == {<<"storage", "0", "d", "f">>}

-----------------------------------------------------------------------------
\* CmdAbstractStore.java, CmdRETR.java and the other commands on files - a path holds
\* what the replies have promised of it, also after transfers that failed and APPEs
\* that took them up, and a RETR that ends well has sent that.  See FileCommands.
FilesAreAsSent == part = "files" => Files!TypeOK /\ Files!FilesAreAsSent

\* CmdAbstractStore.java:66-76, CmdRMD.java:85-93 - sessions at work on one path hurt
\* each other in two ways only: a STOR may open the file of another one that came
\* after it had looked, and a removal may find its directory gone, which ends the
\* process.
SessionsStayApart == part = "files" => Files!StoresDoNotMix /\ Files!CrashNeedsOther

\* CmdRETR.java:99-136, CmdAbstractStore.java:130-144 - see AsciiTransfer.
AsciiIsFaithful == part = "ascii" => Ascii!AsciiIsFaithful
=============================================================================
