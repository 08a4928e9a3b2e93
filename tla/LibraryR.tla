------------------------------ MODULE LibraryR ------------------------------
(***************************************************************************)
(* The R classes a library is compiled with in an incremental build.  Only *)
(* the application's resources are built, so a library's own R.java does   *)
(* not learn of what is new.  Freeline keeps copies of the R.java files    *)
(* and makes the one of a library extend the application's: a name the     *)
(* library's copy lacks is then inherited.  A copy is made once, from the  *)
(* application's build directory, whose ids are those of the application,  *)
(* or from the library's, whose ids are only its own.                      *)
(*                                                                         *)
(* Resources are counted in the order they are added; an R.java holds the  *)
(* first so many.  Ids do not change (ResourceIds).                        *)
(***************************************************************************)
EXTENDS Naturals, FiniteSets

CONSTANTS
  Libraries,
  Deps,       \* pairs <<l, d>>: library l depends on library d, closed under reachability
  MaxNames,   \* bound on the resources added
  MaxBuilds,  \* bound on the builds
  None

App == "main"
AllModules == Libraries \cup {App}

\* What the constants may be.
LibraryRAssumption ==
  /\ App \notin Libraries /\ Deps \subseteq Libraries \X Libraries
  /\ MaxNames \in Nat /\ MaxBuilds \in Nat
  /\ None \notin [from : {"application", "library"}, names : 0..MaxNames]

VARIABLES
  names,    \* number of resources the developer has added
  edited,   \* <<kind, m>> changed and not yet built, kind "src" or "res"
  changed,  \* those of the running build
  packed,   \* number of resources in aapt's R.java
  backup,   \* freeline-backup-r: of each module None or [from, names]
  compiled, \* the R files javac was given with a library's sources, by module
  todo,     \* modules yet to be compiled
  phase,    \* "idle", "aapt", "compile"
  builds,
  history   \* withAapt: modules that had changed in a build whose aapt succeeded

copies == <<packed, backup, compiled>>
vars == <<names, edited, changed, copies, todo, phase, builds, history>>

Copy == [from : {"application", "library"}, names : 0..MaxNames]

TypeOK ==
  /\ names \in 0..MaxNames /\ packed \in 0..MaxNames
  /\ edited \subseteq {"src", "res"} \X AllModules /\ changed \subseteq {"src", "res"} \X AllModules
  /\ backup \in [AllModules -> Copy \cup {None}]
  /\ \A l \in Libraries : compiled[l] \in [AllModules -> Copy \cup {None}]
  /\ todo \subseteq Libraries /\ phase \in {"idle", "aapt", "compile"}
  /\ builds \in 0..MaxBuilds /\ history \subseteq AllModules

\* The clean build has emptied the cache; Gradle's R.java files hold no added name.
Init ==
  /\ names = 0 /\ edited = {} /\ changed = {}
  /\ packed = 0 /\ backup = [m \in AllModules |-> None]
  /\ compiled = [l \in Libraries |-> backup]
  /\ todo = {} /\ phase = "idle" /\ builds = 0 /\ history = {}

EditSource(m) ==
  /\ phase = "idle" /\ edited' = edited \cup {<<"src", m>>}
  /\ edited' # edited
  /\ UNCHANGED <<names, changed, copies, todo, phase, builds, history>>

AddResource(m) ==
  /\ phase = "idle" /\ names < MaxNames /\ names' = names + 1
  /\ edited' = edited \cup {<<"res", m>>}
  /\ UNCHANGED <<changed, copies, todo, phase, builds, history>>

ChangedModules == {e[2] : e \in changed}
ResChanged == \E e \in changed : e[1] = "res"

StartBuild ==
  /\ phase = "idle" /\ edited # {} /\ builds < MaxBuilds /\ builds' = builds + 1
  /\ changed' = edited
  /\ phase' = "aapt" /\ todo' = {l \in Libraries : <<"src", l>> \in edited}
  /\ UNCHANGED <<names, edited, copies, history>>

BuildFails ==
  /\ phase # "idle" /\ phase' = "idle"
  /\ UNCHANGED <<names, edited, changed, copies, todo, builds, history>>

\* __modify_other_modules_r: a copy that exists stays.  Gradle's files, in either
\* build directory, hold what there was at the clean build.
ModifyOtherModulesR(m, from) == IF backup[m] = None THEN [from |-> from, names |-> 0] ELSE backup[m]

SkipAapt ==
  /\ phase = "aapt" /\ ~ResChanged /\ phase' = "compile"
  /\ UNCHANGED <<names, edited, changed, copies, todo, builds, history>>

\* aapt succeeds, and check_other_modules_resources copies the application's R.java,
\* aapt's, in any case and those of the changed modules from its build directory.
Aapt ==
  /\ phase = "aapt" /\ ResChanged /\ phase' = "compile"
  /\ packed' = names
  /\ backup' = [m \in AllModules |->
       IF m = App THEN [from |-> "application", names |-> names]
       ELSE IF m \in ChangedModules THEN ModifyOtherModulesR(m, "application") ELSE backup[m]]
  /\ history' = history \cup ChangedModules
  /\ UNCHANGED <<names, edited, changed, compiled, todo, builds>>

Below(l) == {d \in Libraries : <<l, d>> \in Deps}

\* append_r_file: nothing before the first resource change.  Then the copies of the
\* application, of the library and of those it depends on; of the library itself
\* one is made if there is none, from its own build directory.
\* Fault: a copy is made whether resources have changed or not.
AppendAlways(l) ==
  /\ backup' = [backup EXCEPT ![l] = ModifyOtherModulesR(l, "library")]
  /\ compiled' = [compiled EXCEPT ![l] = [m \in AllModules |->
       IF m \in {App, l} \cup Below(l) THEN backup'[m] ELSE None]]

AppendRFile(l) ==
  /\ backup' = IF backup[App] = None THEN backup
               ELSE [backup EXCEPT ![l] = ModifyOtherModulesR(l, "library")]
  /\ compiled' = [compiled EXCEPT ![l] = [m \in AllModules |->
       IF backup[App] # None /\ m \in {App, l} \cup Below(l) THEN backup'[m] ELSE None]]

Compile(l) ==
  /\ phase = "compile" /\ l \in todo
  /\ \A d \in Below(l) : d \notin todo
  /\ AppendRFile(l)
  /\ todo' = todo \ {l}
  /\ UNCHANGED <<names, edited, changed, packed, phase, builds, history>>

Finish ==
  /\ phase = "compile" /\ todo = {} /\ phase' = "idle"
  /\ edited' = edited \ changed
  /\ UNCHANGED <<names, changed, copies, todo, builds, history>>

Next ==
  \/ \E m \in AllModules : EditSource(m) \/ AddResource(m)
  \/ StartBuild \/ BuildFails \/ SkipAapt \/ Aapt
  \/ \E l \in Libraries : Compile(l)
  \/ Finish

Spec == Init /\ [][Next]_vars

-----------------------------------------------------------------------------
(* Properties *)

CompiledNow(l) == phase = "compile" /\ <<"src", l>> \in changed /\ l \notin todo

\* gradle_inc_build.py:448-486 - a library compiled after a resource was added sees
\* every resource of the pack, be the resource its own or another module's and added
\* in this build or in an earlier one: its own R.java extends an application's R.java
\* that is as new as the pack.
NewResourcesAreSeen ==
  \A l \in Libraries :
    CompiledNow(l) /\ packed > 0 =>
      /\ compiled[l][l] # None
      /\ compiled[l][App] # None /\ compiled[l][App].names = packed

\* gradle_inc_build.py:467-469, 498-502 - the ids in a copy are the application's.
\* Exception: a library that was compiled after the first resource change without
\* ever having changed in a build that ran aapt; its copy is never replaced.
OwnIdsOnlyIfLate ==
  [][phase = "compile" => \A l \in Libraries :
       backup[l] = None /\ backup'[l] # None /\ backup'[l].from = "library"
       => backup[App] # None /\ l \notin history]_vars

\* The library's R.java and those of the libraries below it that have a copy are
\* compiled from one copy each, whichever module they are compiled with.
OneCopyOfEach ==
  \A l, k \in Libraries, m \in Libraries :
    compiled[l][m] # None /\ compiled[k][m] # None => compiled[l][m] = compiled[k][m]
=============================================================================
