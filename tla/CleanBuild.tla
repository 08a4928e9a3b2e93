----------------------------- MODULE CleanBuild -----------------------------
(***************************************************************************)
(* Freeline's clean build.  Nine tasks of the engine share the cache       *)
(* directory: one records the stat of every source file, one adds the      *)
(* modules gradle has only just reported, one compiles, one empties the    *)
(* cache, one installs.  The developer edits meanwhile, and tasks fail.    *)
(* A process killed at any step leaves the disk as it is then, so what     *)
(* must hold of the disk is stated of every state, not of the last one.    *)
(*                                                                         *)
(* A module's files are one file with a version; a version stands for its  *)
(* mtime.  The ticket in the file apktime, which is packed into the apk,  *)
(* is the number of the clean build (in the code the microseconds of the   *)
(* clock); 0 is that of an earlier program.                                *)
(***************************************************************************)
EXTENDS Naturals

CONSTANTS
  Modules,      \* the modules of the gradle project
  OldModules,   \* those the project description names when the program starts
  MaxEdits,     \* bound on the edits of each module
  MaxBuilds,    \* bound on the clean builds
  None

Versions == UNION {[S -> 0..MaxEdits] : S \in SUBSET Modules}
Apks == [ticket : 0..MaxBuilds, versions : [Modules -> 0..MaxEdits]]
Applications == [ticket : 0..MaxBuilds, versions : [Modules -> 0..MaxEdits], lastSync : 0..1]

\* What the constants may be.
CleanBuildAssumption ==
  /\ OldModules \subseteq Modules /\ MaxEdits \in Nat /\ MaxBuilds \in Nat
  /\ None \notin Versions \cup Apks \cup Applications

StatTasks == {"generate_stat", "append_stat"}
Tasks == StatTasks \cup {"read_project_info", "build", "clean_all_cache", "install",
                         "build_base_resource", "generate_project_info", "generate_apt"}
CacheFiles == {"md5", "project_info", "base_res", "apt_stat"}

VARIABLES
  src,      \* version of the sources of each module
  config,   \* modules in the project description on disk
  known,    \* modules in the configuration the program has read at its start
  stat,     \* stat_cache.json: None, or the versions recorded (<<>> while it is being written)
  files,    \* which of the other cache files exist
  syncid,   \* the local sync ticket
  apktime,  \* the local ticket of the last clean build
  apk,      \* the apk gradle has built, with its ticket
  device,   \* the application on the device, its ticket and its sync ticket
  builds,   \* clean builds so far
  phase,    \* "idle", or "tasks" while the engine runs
  pc,       \* step of each task
  cache,    \* _stat_cache of the two stat tasks, until it is saved
  compiled, \* what gradle has read of the sources so far
  interrupted, \* tasks that have been passed the exception of another one
  late      \* history: gradle began while generate_stat was still at work

disk == <<config, stat, files, syncid, apktime, apk>>
vars == <<src, disk, known, device, builds, phase, pc, cache, compiled, interrupted, late>>

TypeOK ==
  /\ src \in [Modules -> 0..MaxEdits]
  /\ config \in {OldModules, Modules} /\ known \in {OldModules, Modules}
  /\ stat \in Versions \cup {None}
  /\ files \subseteq CacheFiles
  /\ syncid \in 0..1 /\ apktime \in 0..MaxBuilds
  /\ apk \in Apks \cup {None} /\ device \in Applications \cup {None}
  /\ phase \in {"idle", "tasks"}
  /\ pc \in [Tasks -> {"waiting", "begun", "exists", "remove", "open", "dump", "md5", "done", "raised", "failed"}]
  /\ cache \in [StatTasks -> Versions]
  /\ compiled \in Versions
  /\ interrupted \subseteq Tasks
  /\ builds \in 0..MaxBuilds /\ late \in BOOLEAN

\* A project never built, or one built and then patched once.
Init ==
  /\ src = [m \in Modules |-> 0]
  /\ config = OldModules /\ known = OldModules
  /\ apktime = 0
  /\ \/ stat = None /\ files = {} /\ syncid = 0 /\ apk = None /\ device = None
     \/ /\ stat = [m \in OldModules |-> 0] /\ files = CacheFiles /\ syncid = 1
        /\ apk = [ticket |-> 0, versions |-> src]
        /\ device = [ticket |-> 0, versions |-> src, lastSync |-> 1]
  /\ builds = 0 /\ phase = "idle"
  /\ pc = [t \in Tasks |-> "waiting"]
  /\ cache = [t \in StatTasks |-> <<>>]
  /\ compiled = <<>> /\ interrupted = {} /\ late = FALSE

\* generate_sorted_build_tasks: the line that made read_project_info a child of
\* generate_stat is commented out.
Parents(t) ==
  CASE t \in {"generate_stat", "read_project_info"} -> {}
    [] t = "build" -> {"read_project_info"}
    [] t \in {"clean_all_cache", "install"} -> {"build"}
    [] OTHER -> {"clean_all_cache"}

Ended(t) == pc[t] \in {"done", "raised", "failed"}

\* What checkSync on the device will answer to the local tickets.
Accepted == device # None /\ device.ticket = apktime /\ device.lastSync = syncid

-----------------------------------------------------------------------------
\* The developer saves a file while the build runs.
Edit(m) ==
  /\ phase = "tasks"
  /\ src[m] < MaxEdits
  /\ src' = [src EXCEPT ![m] = @ + 1]
  /\ UNCHANGED <<disk, known, device, builds, phase, pc, cache, compiled, interrupted, late>>

\* Fault: the ticket is left as it is.
StartBuildKeepsApktime ==
  /\ phase = "idle" /\ builds < MaxBuilds
  /\ phase' = "tasks"
  /\ builds' = builds + 1
  /\ known' = config
  /\ pc' = [t \in Tasks |-> "waiting"]
  /\ cache' = [t \in StatTasks |-> <<>>]
  /\ compiled' = <<>> /\ interrupted' = {} /\ late' = FALSE
  /\ UNCHANGED <<src, disk, device>>

\* The program reads the description, makes the tasks, and gives the build its
\* ticket before the first of them runs (the commands of CleanBuildCommand).
StartBuild ==
  /\ phase = "idle" /\ builds < MaxBuilds
  /\ phase' = "tasks"
  /\ builds' = builds + 1
  /\ apktime' = builds'
  /\ known' = config
  /\ pc' = [t \in Tasks |-> "waiting"]
  /\ cache' = [t \in StatTasks |-> <<>>]
  /\ compiled' = <<>> /\ interrupted' = {} /\ late' = FALSE
  /\ UNCHANGED <<src, config, stat, files, syncid, apk, device>>

\* The engine begins a task when its parents have ended.
Starts(t) ==
  /\ phase = "tasks" /\ pc[t] = "waiting" /\ t \notin interrupted
  /\ \A p \in Parents(t) : Ended(p)

\* It is not executed when it has been passed the exception of another one.
Skip(t) ==
  /\ phase = "tasks" /\ pc[t] = "waiting" /\ t \in interrupted
  /\ \A p \in Parents(t) : Ended(p)
  /\ pc' = [pc EXCEPT ![t] = "failed"]
  /\ UNCHANGED <<src, disk, known, device, builds, phase, cache, compiled, interrupted, late>>

\* A task that has raised passes the exception to all that have not ended.
PassException(t) ==
  /\ pc[t] = "raised"
  /\ pc' = [pc EXCEPT ![t] = "failed"]
  /\ interrupted' = interrupted \cup {u \in Tasks : ~Ended(u)}
  /\ UNCHANGED <<src, disk, known, device, builds, phase, cache, compiled, late>>

Raises(t) == pc' = [pc EXCEPT ![t] = "raised"] /\ UNCHANGED interrupted
Returns(t) == pc' = [pc EXCEPT ![t] = "done"] /\ UNCHANGED interrupted
GoesTo(t, step) == pc' = [pc EXCEPT ![t] = step] /\ UNCHANGED interrupted

-----------------------------------------------------------------------------
(* GenerateFileStatTask, as generate_stat and as append_stat *)

Recorded(S) == [m \in S |-> src[m]]

\* In append mode the cache is read again and only modules it lacks are added;
\* a file that is missing or half written reads as an empty cache.
FillStat(t) ==
  /\ Starts(t)
  /\ LET old == IF t = "append_stat" /\ stat # None THEN stat ELSE <<>>
         new == IF t = "append_stat" THEN config \ DOMAIN old ELSE known
     IN  IF t = "append_stat" /\ stat # None /\ new = {}
           THEN GoesTo(t, "md5") /\ UNCHANGED cache
           ELSE /\ GoesTo(t, "exists")
                /\ cache' = [cache EXCEPT ![t] =
                     [m \in (DOMAIN old) \cup new |-> IF m \in new THEN src[m] ELSE old[m]]]
  /\ UNCHANGED <<src, disk, known, device, builds, phase, compiled, late>>

\* _save_cache: a file that exists is removed, then the new one is written.
SaveChecks(t) ==
  /\ pc[t] = "exists"
  /\ GoesTo(t, IF stat # None THEN "remove" ELSE "open")
  /\ UNCHANGED <<src, disk, known, device, builds, phase, cache, compiled, late>>

SaveRemoves(t) ==
  /\ pc[t] = "remove"
  /\ IF stat = None THEN Raises(t) ELSE GoesTo(t, "open")
  /\ stat' = None
  /\ UNCHANGED <<src, config, files, syncid, apktime, apk, known, device, builds, phase, cache, compiled, late>>

SaveOpens(t) ==
  /\ pc[t] = "open"
  /\ stat' = <<>>
  /\ GoesTo(t, "dump")
  /\ UNCHANGED <<src, config, files, syncid, apktime, apk, known, device, builds, phase, cache, compiled, late>>

SaveDumps(t) ==
  /\ pc[t] = "dump"
  /\ stat' = cache[t]
  /\ cache' = [cache EXCEPT ![t] = <<>>]
  /\ GoesTo(t, "md5")
  /\ UNCHANGED <<src, config, files, syncid, apktime, apk, known, device, builds, phase, compiled, late>>

\* _save_cache_md5 goes the same way with its own file; in one step here.
SaveMd5(t) ==
  /\ pc[t] = "md5"
  /\ files' = files \cup {"md5"}
  /\ Returns(t)
  /\ UNCHANGED <<src, config, stat, syncid, apktime, apk, known, device, builds, phase, cache, compiled, late>>

StatTask(t) ==
  FillStat(t) \/ SaveChecks(t) \/ SaveRemoves(t) \/ SaveOpens(t) \/ SaveDumps(t) \/ SaveMd5(t)

-----------------------------------------------------------------------------
(* The other tasks *)

\* Gradle writes the project description anew.
ReadProjectInfo ==
  /\ Starts("read_project_info")
  /\ \/ Raises("read_project_info") /\ UNCHANGED config
     \/ Returns("read_project_info") /\ config' = Modules
  /\ UNCHANGED <<src, stat, files, syncid, apktime, apk, known, device, builds, phase, cache, compiled, late>>

GradleBegins ==
  /\ Starts("build")
  /\ GoesTo("build", "begun")
  /\ late' = ~Ended("generate_stat")
  /\ UNCHANGED <<src, disk, known, device, builds, phase, cache, compiled>>

\* Gradle reads the sources, one module after the other.
Compile(m) ==
  /\ pc["build"] = "begun" /\ m \notin DOMAIN compiled
  /\ compiled' = [n \in (DOMAIN compiled) \cup {m} |-> IF n = m THEN src[m] ELSE compiled[n]]
  /\ UNCHANGED <<src, disk, known, device, builds, phase, pc, cache, interrupted, late>>

\* GradleCleanBuildTask: an exit code other than 0 raises.
GradleEnds ==
  /\ pc["build"] = "begun"
  /\ \/ Raises("build") /\ UNCHANGED apk
     \/ /\ DOMAIN compiled = Modules
        /\ apk' = [ticket |-> apktime, versions |-> compiled]
        /\ Returns("build")
  /\ compiled' = <<>>
  /\ UNCHANGED <<src, config, stat, files, syncid, apktime, known, device, builds, phase, cache, late>>

\* Everything goes but the files on the ignore list, among them the stat and apktime.
CleanAllCache ==
  /\ Starts("clean_all_cache")
  /\ files' = files \cap {"md5"}
  /\ syncid' = 0
  /\ Returns("clean_all_cache")
  /\ UNCHANGED <<src, config, stat, apktime, apk, known, device, builds, phase, cache, compiled, late>>

\* A newly installed application has no sync ticket.
Installed == [ticket |-> apk.ticket, versions |-> apk.versions, lastSync |-> 0]

\* InstallApkTask raises when it finds no device or no apk, and when adb has said
\* "Failure" twice.  Its exit code is not asked: an installation that failed without
\* the word, or was never tried for want of an adb, leaves the device as it was and
\* ends like one that did not.
InstallApk ==
  /\ Starts("install")
  /\ \/ Raises("install") /\ UNCHANGED device
     \/ Returns("install") /\ device' \in {device} \cup (IF apk = None THEN {} ELSE {Installed})
  /\ UNCHANGED <<src, disk, known, builds, phase, cache, compiled, late>>

\* keep_ids, then aapt, which may fail.
BuildBaseResource ==
  /\ Starts("build_base_resource")
  /\ \/ Raises("build_base_resource") /\ UNCHANGED files
     \/ Returns("build_base_resource") /\ files' = files \cup {"base_res"}
  /\ UNCHANGED <<src, config, stat, syncid, apktime, apk, known, device, builds, phase, cache, compiled, late>>

GenerateProjectInfo(fs) == fs \cup {"project_info"}
\* For the modules with data binding the md5 of every generated file is kept.
GenerateAptFilesStat(fs) == fs \cup {"apt_stat"}

\* Two tasks without failure that share nothing, in one step.
GenerateInfoAndApt ==
  /\ \A t \in {"generate_project_info", "generate_apt"} : Starts(t)
  /\ files' = GenerateAptFilesStat(GenerateProjectInfo(files))
  /\ pc' = [pc EXCEPT !["generate_project_info"] = "done", !["generate_apt"] = "done"]
  /\ UNCHANGED <<src, config, stat, syncid, apktime, apk, known, device, builds, phase, cache, compiled, interrupted, late>>

-----------------------------------------------------------------------------
\* start() of the engine is over: the program ends.
BuildEnds ==
  /\ phase = "tasks"
  /\ \A t \in Tasks : pc[t] \in {"done", "failed"}
  /\ phase' = "idle"
  /\ UNCHANGED <<src, disk, known, device, builds, pc, cache, compiled, interrupted, late>>

Next ==
  \/ \E m \in Modules : Edit(m) \/ Compile(m)
  \/ StartBuild \/ BuildEnds
  \/ \E t \in Tasks : Skip(t) \/ PassException(t)
  \/ \E t \in StatTasks : StatTask(t)
  \/ ReadProjectInfo \/ GradleBegins \/ GradleEnds \/ CleanAllCache \/ InstallApk
  \/ BuildBaseResource \/ GenerateInfoAndApt

Spec == Init /\ [][Next]_vars

-----------------------------------------------------------------------------
(* Properties *)

Succeeded == phase = "idle" /\ builds > 0 /\ \A t \in Tasks : pc[t] = "done"

\* The next scan finds what the device does not have of module m.
Finds(m) == m \in DOMAIN stat /\ stat[m] <= device.versions[m]

\* Whenever the device would accept a patch, the stat of a module known at the
\* start is no newer than what was compiled, so that an edit the device lacks is
\* found, also after a build that failed or was killed: its new ticket keeps the old
\* application out (UpdateApkCreatedTimeCommand before ExecuteCleanBuildCommand).
\* It needs generate_stat to have ended before gradle began; without a stat the
\* scan asks for a clean build, and one half written by append_stat is the exception.
StatFirstFindsEdits ==
  Accepted /\ ~late /\ stat \notin {None, <<>>} => \A m \in known : Finds(m)

\* After a build without a failed task every module of the project will be
\* scanned, the caches it emptied are there again, and the device accepts patches
\* if it got the new application (_install_apk may leave the old one, whose ticket
\* keeps it out).
SuccessIsComplete ==
  Succeeded /\ ~late => /\ device # None /\ device.ticket = builds => Accepted
                        /\ files = CacheFiles
                        /\ stat # None /\ Modules = DOMAIN stat
=============================================================================
