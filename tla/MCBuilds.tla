------------------------------ MODULE MCBuilds ------------------------------
(***************************************************************************)
(* What a clean build leaves behind, seen from two sides: the order of its *)
(* tasks (CleanBuild) and the outputs of gradle it works with, through     *)
(* several builds (BuildOutputs). A behaviour is one of either; the        *)
(* variables of the other rest.                                            *)
(***************************************************************************)
EXTENDS BuildOutputs

CONSTANTS Modules, OldModules, CleanEdits, CleanBuilds \* of CleanBuild

VARIABLES
  part,  \* the component whose behaviour this is
  \* of CleanBuild
  src, config, known, stat, files, syncid, apktime, cleanApk, cleanDevice, builds, phase,
  pc, cache, compiled, interrupted, late

Clean == INSTANCE CleanBuild WITH
  MaxEdits <- CleanEdits, MaxBuilds <- CleanBuilds,
  apk <- cleanApk, device <- cleanDevice

ASSUME PartsAssumption == Clean!CleanBuildAssumption

cleanVars ==
  <<src, config, known, stat, files, syncid, apktime, cleanApk, cleanDevice, builds, phase,
    pc, cache, compiled, interrupted, late>>

\* The variables of a component that this behaviour is not about.
OutputsRests ==
  /\ version = None /\ wanted = None /\ description = None /\ edited = None
  /\ out = None /\ library = None /\ published = None /\ manifest = None /\ public = None
  /\ apk = None /\ device = None /\ ticket = None /\ sync = None /\ todo = None /\ patch = None
  /\ cut = None
CleanRests ==
  /\ src = None /\ config = None /\ known = None /\ stat = None /\ files = None
  /\ syncid = None /\ apktime = None /\ cleanApk = None /\ cleanDevice = None /\ builds = None
  /\ phase = None /\ pc = None /\ cache = None /\ compiled = None /\ interrupted = None
  /\ late = None

BuildsInit ==
  \/ part = "outputs" /\ Init /\ CleanRests
  \/ part = "clean" /\ Clean!Init /\ OutputsRests

BuildsNext ==
  \/ part = "outputs" /\ Next /\ UNCHANGED <<part, cleanVars>>
  \/ part = "clean" /\ Clean!Next /\ UNCHANGED <<part, vars>>

buildsVars == <<part, vars, cleanVars>>
BuildsSpec == BuildsInit /\ [][BuildsNext]_buildsVars

-----------------------------------------------------------------------------
\* gradle_clean_build.py:38-77, android_tools.py:63-76 - an edit the device lacks is found
\* by the next scan, whichever build failed or was killed and whether or not adb installed
\* what it was given; and after a build without a failed task every module is scanned, no
\* cache is missing, and what was installed accepts patches.  See CleanBuild for the
\* exceptions.
CleanBuildIsKnown ==
  part = "clean" => Clean!TypeOK /\ Clean!StatFirstFindsEdits /\ Clean!SuccessIsComplete
=============================================================================
