-------------------------- MODULE IncrementalBuild --------------------------
(***************************************************************************)
(* Freeline's incremental build: aapt, then javac and dx of every module   *)
(* in the order of their dependencies, the merge of the dexes, the         *)
(* transfer to the application, the removal of the markers, and the        *)
(* recording of the stat.  The markers are files of the cache directory    *)
(* and outlive a build that fails or is killed.                            *)
(*                                                                         *)
(* What can change is the sources, the resources and the jars of a module  *)
(* and the native libraries; each is a number that grows with every edit.  *)
(* The scan and the clean build have modules of their own; which task may  *)
(* run beside which is the task engine's.                                  *)
(***************************************************************************)
EXTENDS Naturals, FiniteSets

CONSTANTS
  Modules,
  Main,         \* the module of the application
  Deps,         \* pairs <<m, d>>: module m depends on module d
  DataBinding,  \* modules with data binding
  NewBindings,  \* versions of resources that generate other code than the clean build did
  Edited,       \* the items the developer edits, of those of Items
  MaxEdits,     \* bound on the edits
  MaxBuilds,    \* bound on the builds
  None

Items == ({"src", "res", "lib"} \X Modules) \cup {<<"so", Main>>}

\* The tasks beside those that compile a module.
MainLine == {"aapt", "merge_dex", "connect", "sync", "clean_cache", "update_stat"}

\* Of any modules one depends on no other of them, and one no other depends on:
\* Gradle accepts nothing else.
NoCircle ==
  \A S \in (SUBSET Modules) \ {{}} :
    /\ \E m \in S : \A d \in S : <<m, d>> \notin Deps
    /\ \E d \in S : \A m \in S : <<m, d>> \notin Deps

\* What the constants may be.
IncrementalBuildAssumption ==
  /\ Main \in Modules /\ DataBinding \subseteq Modules /\ Deps \subseteq Modules \X Modules
  /\ NewBindings \subseteq Nat
  /\ Edited \subseteq Items /\ MaxEdits \in Nat /\ MaxBuilds \in Nat
  /\ None \notin Nat /\ None \notin [Modules -> Nat \cup {None}]
  /\ Modules \cap MainLine = {} /\ NoCircle

Src(m) == <<"src", m>>
Res == {"res"} \X Modules
Libs == {"lib"} \X Modules
So == <<"so", Main>>

\* The files that outlive a build and tell the next one what it has to do: sources have
\* changed; aapt is at work; a pack is to be sent; R has changed; the application is
\* to restart; native libraries are to be sent.
Markers == {"src", "job", "sync", "rflag", "restart", "native"}

\* What a transfer consists of, in the order of GradleSyncTask.
Steps == {"res", "dex", "native", "state"}
\* A module names the task that compiles it.
Compile(m) == m
Tasks == {Compile(m) : m \in Modules} \cup MainLine

VARIABLES
  version,  \* the developer's files
  stat,     \* what stat_cache.json says is built, or will say once it is written
  whole,    \* stat_cache.json can be read
  changed,  \* items the scan has found
  apt,      \* modules with generated sources to be compiled
  flags,    \* the markers that exist
  pack,     \* resources in the main module's pack
  newR,     \* the R.java of aapt differs from the one javac knows
  patch,    \* version of the classes compiled since the clean build, or None
  dex,      \* the same for the dex of each module
  merged,   \* merged.dex: the dex of each module, or None
  restart,  \* the marker as GradleSyncTask has read it when it was made
  pushed,   \* what the application has received
  running,  \* what it has loaded
  accepts,  \* the tickets on both sides agree
  phase,
  pc,       \* step of each task
  builds,
  history   \* during: items edited while a build that includes them runs;
            \* dropped: items whose patch was not merged or not received,
            \* or that were recorded although another task had failed;
            \* unused: jars that were recorded, which no task had used

cache == <<flags, pack, newR, patch, dex, merged>>
device == <<pushed, running, accepts>>
inputs == <<changed, apt, restart>>
record == <<stat, whole>>
vars == <<version, record, inputs, cache, device, phase, pc, builds, history>>

Versions == [Items -> 0..MaxEdits]
PerModule == [Modules -> 0..MaxEdits \cup {None}]

TypeOK ==
  /\ version \in Versions /\ stat \in Versions /\ whole \in BOOLEAN
  /\ changed \subseteq Items /\ apt \subseteq DataBinding
  /\ flags \subseteq Markers
  /\ pack \in [Res -> 0..MaxEdits] /\ newR \in BOOLEAN
  /\ patch \in PerModule /\ dex \in PerModule
  /\ merged \in PerModule \cup {None}
  /\ restart \in BOOLEAN
  /\ pushed \in Versions /\ running \in Versions /\ accepts \in BOOLEAN
  /\ phase \in {"idle", "tasks"}
  /\ pc \in [Tasks -> {"waiting", "dx", "done", "raised", "failed", "write"} \cup Steps]
  /\ builds \in 0..MaxBuilds
  /\ history \in [during : SUBSET Items, dropped : SUBSET Items, unused : SUBSET Items]

\* The clean build has just been installed.
Init ==
  /\ version = [i \in Items |-> 0] /\ stat = version /\ whole = TRUE
  /\ changed = {} /\ apt = {} /\ restart = FALSE
  /\ flags = {} /\ pack = [r \in Res |-> 0] /\ newR = FALSE
  /\ patch = [m \in Modules |-> None] /\ dex = patch /\ merged = None
  /\ pushed = version /\ running = version /\ accepts = TRUE
  /\ phase = "idle" /\ pc = [t \in Tasks |-> "done"] /\ builds = 0
  /\ history = [during |-> {}, dropped |-> {}, unused |-> {}]

-----------------------------------------------------------------------------
(* The tasks and their order: generate_sorted_build_tasks, incremental_build *)

Roots == {m \in Modules : \A d \in Modules : <<m, d>> \notin Deps}
Lasts == {m \in Modules : \A n \in Modules : <<n, m>> \notin Deps}

Parents(t) ==
  CASE t \in {"aapt", "connect"} -> {}
    [] t = "merge_dex" -> {Compile(m) : m \in Lasts}
    [] t = "sync" -> {"merge_dex", "connect"}
    [] t = "clean_cache" -> {"sync"}
    [] t = "update_stat" -> {"clean_cache"}
    [] OTHER -> IF t \in Roots THEN {"aapt"} ELSE {Compile(d) : d \in {e \in Modules : <<t, e>> \in Deps}}

At(t, step) == phase = "tasks" /\ pc[t] = step
Ended(t) == pc[t] \in {"done", "raised", "failed"}
Ready(t) == phase = "tasks" /\ pc[t] = "waiting" /\ \A p \in Parents(t) : Ended(p)
GoesTo(t, step) == pc' = [pc EXCEPT ![t] = step]
Returns(t) == GoesTo(t, "done")
Raises(t) == GoesTo(t, "raised")

\* The exception of a task is passed to the tasks that have not ended.  One that has
\* not begun then does nothing any more; as no task begins after it, it has failed at once.
PassException(t) ==
  /\ At(t, "raised")
  /\ pc' = [u \in Tasks |-> IF u = t \/ pc[u] = "waiting" THEN "failed" ELSE pc[u]]
  /\ UNCHANGED <<version, record, inputs, cache, device, phase, builds, history>>

-----------------------------------------------------------------------------
\* The developer saves a file.
Edit(i) ==
  /\ \E n \in 1..MaxEdits :
       /\ \A j \in Items : version[j] < n
       /\ \E j \in Items : version[j] = n - 1
       /\ version' = [version EXCEPT ![i] = n]
  /\ history' = [history EXCEPT !.during = IF phase = "tasks" /\ i \in changed THEN @ \cup {i} ELSE @]
  /\ UNCHANGED <<record, inputs, cache, device, phase, pc, builds>>

\* The scan marks that sources have changed; the native libraries are packed when
\* the builder is made, and GradleSyncTask reads the restart marker when it is.
StartBuild ==
  /\ phase = "idle" /\ builds < MaxBuilds /\ whole
  /\ builds' = builds + 1 /\ phase' = "tasks"
  /\ changed' = {i \in Items : version[i] > stat[i]}
  /\ apt' = {} /\ restart' = ("restart" \in flags)
  /\ flags' = flags \cup (IF \E m \in Modules : Src(m) \in changed' THEN {"src"} ELSE {})
                    \cup (IF So \in changed' THEN {"native"} ELSE {})
  /\ pc' = [t \in Tasks |-> "waiting"]
  /\ UNCHANGED <<version, record, pack, newR, patch, dex, merged, device, history>>

\* A stat that cannot be read is loaded as an empty one, of which no module is scanned;
\* GradleIncBuilder then looks for the files of the main module, and its KeyError ends
\* the build before it has a task.
BuildWithoutStat ==
  /\ phase = "idle" /\ builds < MaxBuilds /\ ~whole
  /\ builds' = builds + 1
  /\ pc' = [t \in Tasks |-> "failed"]
  /\ UNCHANGED <<version, record, inputs, cache, device, phase, history>>

\* Every task has ended, or the process is killed.  Of what it held in memory only
\* whether all tasks have returned is remembered.
BuildEnds ==
  /\ phase = "tasks"
  /\ phase' = "idle"
  /\ changed' = {} /\ apt' = {} /\ restart' = FALSE
  /\ pc' = IF \A t \in Tasks : pc[t] = "done" THEN pc ELSE [t \in Tasks |-> "failed"]
  /\ UNCHANGED <<version, record, cache, device, builds, history>>

-----------------------------------------------------------------------------
(* GradleAaptTask *)

\* The resources of all modules are built into the pack of the main one.
ResChanged == changed \cap Res # {}

\* check_res_task: a job is marked; without a changed file there is nothing to
\* do, except that a pack still to be sent marks R as changed.
SkipAapt ==
  /\ Ready("aapt") /\ ~ResChanged
  /\ "job" \in flags => "sync" \in flags
  /\ flags' = IF "job" \in flags THEN flags \cup {"rflag"} ELSE flags
  /\ Returns("aapt")
  /\ UNCHANGED <<version, record, inputs, pack, newR, patch, dex, merged, device, phase, builds, history>>

\* process_databinding: what is generated from the layouts has to be compiled.
Bound == {m \in DataBinding : <<"res", m>> \in changed}

\* The data binding tool may fail, which leaves the job; so may aapt, which removes it.
Aapt ==
  /\ Ready("aapt") /\ (ResChanged \/ ({"job", "sync"} \cap flags = {"job"}))
  /\ LET marked == flags \cup {"job"} \cup (IF Bound # {} THEN {"src"} ELSE {})
     IN  \/ /\ Bound # {} /\ Raises("aapt")
            /\ flags' = flags \cup {"job"}
            /\ UNCHANGED <<apt, pack, newR>>
         \/ /\ Raises("aapt")
            /\ flags' = marked \ {"job"} /\ apt' = Bound
            /\ UNCHANGED <<pack, newR>>
         \/ /\ Returns("aapt")
            /\ flags' = marked \cup {"sync"} /\ apt' = Bound
            /\ pack' = [r \in Res |-> version[r]]
            /\ newR' \in {newR, TRUE}
  /\ UNCHANGED <<version, record, changed, restart, patch, dex, merged, device, phase, builds, history>>

-----------------------------------------------------------------------------
(* GradleCompileCommand: GradleIncJavacCommand, GradleIncDexCommand *)

\* check_r_md5: only the main module has an R.java of aapt.
RChanged(m) == m = Main /\ newR
RFlag(m) == IF RChanged(m) THEN {"rflag"} ELSE {}

\* check_javac_task: a new R.java alone is no reason.
NeedsJavac(m) == Src(m) \in changed \/ m \in apt

SkipJavac(m) ==
  /\ Ready(Compile(m)) /\ ~NeedsJavac(m)
  /\ flags' = flags \cup RFlag(m)
  /\ Returns(Compile(m))
  /\ UNCHANGED <<version, record, inputs, pack, newR, patch, dex, merged, device, phase, builds, history>>

\* The code generated for data binding is new to run_apt_only.
GeneratesNew(m) == m \in apt /\ pack[<<"res", m>>] \in NewBindings

\* run_apt_only finds nothing new and no source has changed: run_javac_task takes
\* away the marker of changed sources, which is that of all modules.
NothingNewGenerated(m) ==
  /\ Ready(Compile(m)) /\ m \in apt /\ ~GeneratesNew(m) /\ Src(m) \notin changed
  /\ \/ /\ Raises(Compile(m))
        /\ flags' = flags \cup RFlag(m) /\ UNCHANGED history
     \/ /\ Returns(Compile(m))
        /\ flags' = (flags \cup RFlag(m)) \ {"src"}
        /\ history' = [history EXCEPT !.dropped = @ \cup {Src(m)} \cup {i \in changed : i[1] = "src"}]
  /\ UNCHANGED <<version, record, inputs, pack, newR, patch, dex, merged, device, phase, builds>>

\* The new classes go to the patch directory.  clean_dex_cache would remove a file
\* of the module's name, but dx calls its output classes.dex.
Javac(m) ==
  /\ Ready(Compile(m))
  /\ Src(m) \in changed \/ GeneratesNew(m)
  /\ flags' = flags \cup RFlag(m)
  /\ \/ Raises(Compile(m)) /\ UNCHANGED <<patch, newR>>
     \/ /\ patch' = [patch EXCEPT ![m] = version[Src(m)]]
        /\ newR' = (newR /\ m # Main)
        /\ GoesTo(Compile(m), "dx")
  /\ UNCHANGED <<version, record, inputs, pack, dex, merged, device, phase, builds, history>>

\* All classes of the patch directory go into the dex.
Dx(m) ==
  /\ At(Compile(m), "dx")
  /\ \/ Raises(Compile(m)) /\ UNCHANGED <<dex, flags>>
     \/ /\ dex' = [dex EXCEPT ![m] = patch[m]]
        /\ flags' = flags \cup {"restart"}
        /\ Returns(Compile(m))
  /\ UNCHANGED <<version, record, inputs, pack, newR, patch, merged, device, phase, builds, history>>

-----------------------------------------------------------------------------
(* The main line after the compilation *)

\* One dex is copied, several are merged by a tool that may fail.
MergeDex ==
  /\ Ready("merge_dex")
  /\ LET dexes == {m \in Modules : dex[m] # None}
     IN  \/ /\ "src" \in flags /\ dexes # {}
            /\ merged' = dex /\ Returns("merge_dex")
         \/ /\ "src" \in flags /\ Cardinality(dexes) > 1
            /\ Raises("merge_dex") /\ UNCHANGED merged
         \/ /\ "src" \notin flags \/ dexes = {}
            /\ Returns("merge_dex") /\ UNCHANGED merged
  /\ UNCHANGED <<version, record, inputs, flags, pack, newR, patch, dex, device, phase, builds, history>>

\* ConnectDeviceTask: the application is not found, or refuses.
Connect ==
  /\ Ready("connect")
  /\ Raises("connect") \/ (accepts /\ Returns("connect"))
  /\ UNCHANGED <<version, record, inputs, cache, device, phase, builds, history>>

\* sync_incremental_res: the pack is sent and the job is done; the marker stays.
PushRes ==
  /\ Ready("sync")
  /\ \/ "sync" \notin flags /\ GoesTo("sync", "dex") /\ UNCHANGED <<pushed, flags>>
     \/ "sync" \in flags /\ Raises("sync") /\ UNCHANGED <<pushed, flags>>
     \/ /\ "sync" \in flags
        /\ pushed' = [i \in Items |-> IF i \in Res THEN pack[i] ELSE pushed[i]]
        /\ flags' = flags \ {"job"}
        /\ GoesTo("sync", "dex")
  /\ UNCHANGED <<version, record, inputs, pack, newR, patch, dex, merged, running, accepts, phase, builds, history>>

\* sync_incremental_dex: the dex replaces the one sent before.
PushDex ==
  /\ At("sync", "dex")
  /\ \/ merged = None /\ GoesTo("sync", "native") /\ UNCHANGED pushed
     \/ merged # None /\ Raises("sync") /\ UNCHANGED pushed
     \/ /\ merged # None
        /\ pushed' = [i \in Items |-> IF i[1] # "src" THEN pushed[i]
                                       ELSE IF merged[i[2]] = None THEN 0 ELSE merged[i[2]]]
        /\ GoesTo("sync", "native")
  /\ UNCHANGED <<version, record, inputs, cache, running, accepts, phase, builds, history>>

\* sync_incremental_native does not look at the answer.
PushNative ==
  /\ At("sync", "native")
  /\ GoesTo("sync", "state")
  /\ \/ "native" \notin flags /\ UNCHANGED <<pushed, history>>
     \/ /\ "native" \in flags
        /\ pushed' = [pushed EXCEPT ![So] = version[So]] /\ UNCHANGED history
     \/ /\ "native" \in flags
        /\ history' = [history EXCEPT !.dropped = @ \cup {So}] /\ UNCHANGED pushed
  /\ UNCHANGED <<version, record, inputs, cache, running, accepts, phase, builds>>

NeedsSync == merged # None \/ {"sync", "native"} \cap flags # {}
TellsRestart == restart \/ "native" \in flags

\* sync_state: the application loads what it has received.  A request that is lost
\* is rolled back; after a lost answer the application has the new ticket.
SyncState ==
  /\ At("sync", "state")
  /\ \/ ~NeedsSync /\ Returns("sync") /\ UNCHANGED <<running, accepts>>
     \/ NeedsSync /\ Raises("sync") /\ UNCHANGED <<running, accepts>>
     \/ NeedsSync /\ Raises("sync") /\ running' = pushed /\ accepts' = FALSE
     \/ NeedsSync /\ Returns("sync") /\ running' = pushed /\ UNCHANGED accepts
  /\ UNCHANGED <<version, record, inputs, cache, pushed, phase, builds, history>>

CleanCache ==
  /\ Ready("clean_cache")
  /\ flags' = flags \cap {"job"} /\ merged' = None
  /\ Returns("clean_cache")
  /\ UNCHANGED <<version, record, inputs, pack, newR, patch, dex, device, phase, builds, history>>

\* Fault: only the changed files are written back.
UpdateStatOfChanged ==
  /\ Ready("update_stat")
  /\ stat' = [i \in changed |-> version[i]]
  /\ whole' = FALSE
  /\ GoesTo("update_stat", "write")
  /\ UNCHANGED <<version, inputs, cache, device, phase, builds, history>>

\* UpdateStatTask: the changed files, jars included, are touched, recorded as they are
\* now, and stat_cache.json is opened for writing, which empties it.  A task that begins
\* before the exception of another has been passed to it runs nevertheless.
UpdateStat ==
  /\ Ready("update_stat")
  /\ stat' = [i \in Items |-> IF i \in changed THEN version[i] ELSE stat[i]]
  /\ whole' = FALSE
  /\ history' = [history EXCEPT
       !.dropped = IF \E t \in Tasks : pc[t] \in {"raised", "failed"} THEN @ \cup changed ELSE @,
       !.unused = @ \cup (changed \cap Libs)]
  /\ GoesTo("update_stat", "write")
  /\ UNCHANGED <<version, inputs, cache, device, phase, builds>>

\* write_json_cache: a dump that fails is not reported.
WriteStat ==
  /\ At("update_stat", "write")
  /\ whole' \in BOOLEAN
  /\ Returns("update_stat")
  /\ UNCHANGED <<version, stat, inputs, cache, device, phase, builds, history>>

-----------------------------------------------------------------------------
Next ==
  \/ \E i \in Edited : Edit(i)
  \/ StartBuild \/ BuildWithoutStat \/ BuildEnds
  \/ \E t \in Tasks : PassException(t)
  \/ SkipAapt \/ Aapt
  \/ \E m \in Modules : SkipJavac(m) \/ NothingNewGenerated(m) \/ Javac(m) \/ Dx(m)
  \/ MergeDex \/ Connect \/ PushRes \/ PushDex \/ PushNative \/ SyncState
  \/ CleanCache \/ UpdateStat \/ WriteStat

Spec == Init /\ [][Next]_vars

-----------------------------------------------------------------------------
(* Properties *)

Succeeded == phase = "idle" /\ builds > 0 /\ \A t \in Tasks : pc[t] = "done"

\* What the application does not run the next scan finds, whatever build failed or
\* was killed at whatever step: the stat is recorded last.  Exceptions are an edit
\* made while its file is built, recorded by UpdateStatTask as built, the jars it
\* records, which nothing has used, and the three cases in `dropped': the global marker
\* taken away by one module's data binding, native libraries the application has not
\* received, and tasks begun between the failure of another one and the passing of its
\* exception.  A stat that was not written whole finds nothing, and starts nothing.
NothingIsForgotten ==
  whole => \A i \in Items \ (history.during \cup history.dropped \cup history.unused) :
             version[i] > stat[i] \/ running[i] = version[i]

\* After a build whose tasks all returned no marker is left that would make the
\* next one send, restart or build what has not changed.
SuccessLeavesNoMarker == Succeeded => flags = {} /\ merged = None

\* The application is told to restart only for native libraries or with a dex: a
\* marker read before this build ran dx belongs to a build whose dex is still unsent.
\* (Exceptions as above.)
RestartHasCode ==
  /\ At("sync", "state") /\ TellsRestart /\ history.dropped = {}
  /\ \A t \in Tasks : pc[t] \notin {"raised", "failed"}
  => "native" \in flags \/ merged # None
=============================================================================
