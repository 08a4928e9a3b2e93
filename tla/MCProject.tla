----------------------------- MODULE MCProject ------------------------------
(***************************************************************************)
(* What the program learns of the project before it builds: the files that *)
(* have changed (ChangeScan), the modules and their dependencies           *)
(* (ProjectInfo), and the blocks of a gradle script (BuildScript). A       *)
(* behaviour is of one component; the variables of the others rest.        *)
(***************************************************************************)
EXTENDS Naturals, Sequences, FiniteSets

CONSTANTS
  Files, Kind, Md5Files, MaxSrc, MaxClock, MaxContent,  \* of ChangeScan
  Modules, Outside, MaxDeclared, MaxNested,             \* of ProjectInfo
  MaxTokens,                                            \* of BuildScript
  None

VARIABLES
  part,  \* the component whose behaviour this is
  \* of ChangeScan
  disk, stat, md5, apk, accepts, built, phase, todo, changed, clock, during, restored, unused, quiet,
  \* of ProjectInfo
  declared, nested, source, cached, at, i, list, level, found, uses,
  \* of BuildScript
  script

Scan == INSTANCE ChangeScan
Info == INSTANCE ProjectInfo
Script == INSTANCE BuildScript

ASSUME PartsAssumption ==
  /\ Scan!ChangeScanAssumption /\ Info!ProjectAssumption /\ Script!ScriptAssumption

scanVars ==
  <<disk, stat, md5, apk, accepts, built, phase, todo, changed, clock, during, restored, unused, quiet>>
infoVars ==
  <<declared, nested, source, cached, at, i, list, level, found, uses>>
scriptVars ==
  <<script>>

\* The variables of a component that this behaviour is not about.
ScanRests ==
  /\ disk = None /\ stat = None /\ md5 = None /\ apk = None /\ accepts = None /\ built = None
  /\ phase = None /\ todo = None /\ changed = None /\ clock = None /\ during = None
  /\ restored = None /\ unused = None /\ quiet = None
InfoRests ==
  /\ declared = None /\ nested = None /\ source = None /\ cached = None /\ at = None /\ i = None
  /\ list = None /\ level = None /\ found = None /\ uses = None
ScriptRests ==
  /\ script = None

ProjectInit ==
  \/ part = "scan" /\ Scan!Init /\ InfoRests /\ ScriptRests
  \/ part = "info" /\ Info!Init /\ ScanRests /\ ScriptRests
  \/ part = "script" /\ Script!Init /\ ScanRests /\ InfoRests

ProjectNext ==
  \/ part = "scan" /\ Scan!Next /\ UNCHANGED <<part, infoVars, scriptVars>>
  \/ part = "info" /\ Info!Next /\ UNCHANGED <<part, scanVars, scriptVars>>
  \/ part = "script" /\ Script!Type /\ UNCHANGED <<part, scanVars, infoVars>>

projectVars == <<part, scanVars, infoVars, scriptVars>>
ProjectSpec == ProjectInit /\ [][ProjectNext]_projectVars

-----------------------------------------------------------------------------
\* One file of each kind that the scan treats differently, and modules in the order
\* in which settings.gradle might name them.
OneOfEachKind ==
  [f \in {"A.java", "strings.xml", "a.jar", "app.gradle", "root.gradle"} |->
     CASE f = "A.java" -> "src" [] f = "strings.xml" -> "res" [] f = "a.jar" -> "lib"
       [] f = "app.gradle" -> "config" [] OTHER -> "root"]
FourModules == <<"app", "lib", "core", "util">>

-----------------------------------------------------------------------------
\* gradle_tools.py:103-190, gradle_inc_build.py:441-444, dispatcher.py:147-172 - what is
\* not on the device is found by the next scan, a file that is walked as well as a root
\* script, and what has been built is not found again.  See ChangeScan for the exceptions.
ScanIsExact ==
  part = "scan" => /\ Scan!TypeOK /\ Scan!UnbuiltIsFound
                   /\ Scan!RootIsFound /\ Scan!SettledAfterBuild

\* gradle_tools.py:1107-1213 - the modules below a module are all found, from the
\* scripts in whatever order the settings name them, or from the description; and the
\* dependencies of a script are read from the dependencies blocks and from nowhere else.
ProjectIsRead ==
  /\ part = "info" => Info!TypeOK /\ Info!ListsAreClosed /\ Info!ResourcesFromAllBelow
  /\ part = "script" => Script!BlocksAreRead
=============================================================================
