------------------------------ MODULE MCPatch -------------------------------
(***************************************************************************)
(* From an edit to the running application: the tasks that make a patch    *)
(* and transfer it (IncrementalBuild), and the client that decides from    *)
(* two tickets whether the application may be patched (SyncClient). A      *)
(* behaviour is of one component; the variables of the other rest.         *)
(***************************************************************************)
EXTENDS SyncClient, Parts

CONSTANTS
  \* of IncrementalBuild
  Modules, Main, Deps, DataBinding, NewBindings, Edited, MaxEdits, MaxIncBuilds

VARIABLES  \* of IncrementalBuild
  version, stat, whole, changed, apt, flags, pack, newR, patch, dex, merged, restart, pushed, running,
  accepts, phase, buildPc, buildBuilds, history

Inc == INSTANCE IncrementalBuild WITH
  MaxBuilds <- MaxIncBuilds,
  pc <- buildPc, builds <- buildBuilds

ASSUME PatchAssumption == Inc!IncrementalBuildAssumption

incVars ==
  <<version, stat, whole, changed, apt, flags, pack, newR, patch, dex, merged, restart, pushed,
    running, accepts, phase, buildPc, buildBuilds, history>>

\* The variables of a component that this behaviour is not about.
ClientRests ==
  /\ apktime = None /\ syncid = None /\ believed = None /\ fullPack = None /\ app = None
  /\ pc = None /\ ticket = None /\ port = None /\ attempt = None /\ forwards = None
  /\ builds = None /\ trouble = None
IncRests ==
  /\ version = None /\ stat = None /\ whole = None /\ changed = None /\ apt = None /\ flags = None /\ pack = None
  /\ newR = None /\ patch = None /\ dex = None /\ merged = None /\ restart = None /\ pushed = None
  /\ running = None /\ accepts = None /\ phase = None /\ buildPc = None
  /\ buildBuilds = None /\ history = None

PatchInit ==
  \/ part = "client" /\ Init /\ IncRests
  \/ part = "build" /\ Inc!Init /\ ClientRests

PatchNext ==
  \/ part = "client" /\ Next /\ UNCHANGED <<part, incVars>>
  \/ part = "build" /\ Inc!Next /\ UNCHANGED <<part, vars>>

patchVars == <<part, vars, incVars>>
PatchSpec == PatchInit /\ [][PatchNext]_patchVars

-----------------------------------------------------------------------------
\* Two modules, the dependency between them, and files of every kind.
AppOnLib == {<<"app", "lib">>}
OneOfEachKind == {<<"src", "app">>, <<"src", "lib">>, <<"res", "app">>, <<"lib", "lib">>, <<"so", "app">>}

-----------------------------------------------------------------------------
\* gradle_inc_build.py:77-133, 219-250, gradle_tools.py:460-540 - what the application
\* does not run the next scan finds, after a build whose tasks all returned no marker is
\* left that would make the next one send or restart what has not changed, and the
\* application restarts only for code it has been sent.  See IncrementalBuild for the
\* exceptions.
NothingIsForgotten ==
  /\ part = "build" => /\ Inc!TypeOK /\ Inc!NothingIsForgotten /\ Inc!SuccessLeavesNoMarker
                       /\ Inc!RestartHasCode
  /\ part = "client" => TypeOK
=============================================================================
