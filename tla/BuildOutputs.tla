---------------------------- MODULE BuildOutputs ----------------------------
(***************************************************************************)
(* Which of gradle's outputs an incremental build works with.  Aapt needs  *)
(* the merged manifest, with the package the sources have, and the ids of  *)
(* R.java; javac needs the classes.  Gradle leaves them in a directory for *)
(* each variant it ever built, Freeline looks for the right one, and keeps *)
(* what it made of manifest and R.java in a backup directory that the next *)
(* clean build empties.                                                    *)
(*                                                                         *)
(* What only a clean build compiles (manifest, gradle scripts) is one      *)
(* version, raised by every edit.  A clean build is five of its tasks, in  *)
(* the order of CleanBuild; it stops at any point.                         *)
(***************************************************************************)
EXTENDS Naturals, FiniteSets

CONSTANTS
  Flavors,       \* values of product_flavor
  Packages,      \* packages the sources may have
  ApplicationId, \* debug_package: the package of the merged manifest
  MaxEdits,      \* bound on the edits
  MaxBuilds,     \* bound on the clean builds
  MaxSyncs,      \* bound on the patches of one apk
  None

ASSUME BuildOutputsAssumption ==
  /\ ApplicationId \in Packages /\ {MaxEdits, MaxBuilds, MaxSyncs} \subseteq Nat /\ None \notin Nat

Settings == [flavor : Flavors, package : Packages]
Tasks == {"read_project_info", "build", "clean_all_cache", "install", "build_base_resource"}
LibraryTypes == {"release", "debug"}

\* The directory of a flavor's debug variant.
Dir(flavor) == IF flavor \in {"", "debug"} THEN "debug" ELSE flavor
Dirs == {Dir(f) : f \in Flavors}

VARIABLES
  version,     \* of the manifest and the gradle scripts
  wanted,      \* what the gradle scripts say
  description, \* freeline_project_description.json
  edited,      \* the scan finds an edit that takes a clean build
  out,         \* version of the outputs of each variant of the application, or None
  library,     \* version of the classes of each variant of a library, or None
  published,   \* the variant of the library an application is built with
  manifest,    \* AndroidManifest.xml in the backup directory, or None
  public,      \* version of the ids in freeline_id_keeper_public.xml, or None
  apk, device, \* what gradle built, and what is installed: version, package, ticket
  ticket,      \* apktime
  sync,        \* the local sync ticket and that of the device
  todo,        \* tasks of the clean build that are still to run
  patch,       \* what the last patch of the installed application was made with
  cut          \* history: the application was installed by a build that never emptied the cache

local == <<manifest, public>>
vars == <<version, wanted, description, edited, out, library, published, local, apk, device,
          ticket, sync, todo, patch, cut>>

Versions == 0..MaxEdits
Apks == [version : Versions, package : Packages, ticket : 0..MaxBuilds]

TypeOK ==
  /\ version \in Versions /\ {wanted, description} \subseteq Settings
  /\ {edited, cut} \subseteq BOOLEAN
  /\ out \in [Dirs -> Versions \cup {None}] /\ library \in [LibraryTypes -> Versions \cup {None}]
  /\ published \in LibraryTypes
  /\ manifest # None => manifest \in [version : Versions, package : Packages]
  /\ public \in Versions \cup {None}
  /\ \A a \in {apk, device} : a # None => a \in Apks
  /\ ticket \in 0..MaxBuilds /\ sync \in [local : 0..MaxSyncs, remote : 0..MaxSyncs]
  /\ todo \subseteq Tasks
  /\ patch # None => patch.public \in Versions /\ patch.manifest.package \in Packages

\* The description of a project that was never built.
Init ==
  /\ version = 0 /\ wanted \in Settings /\ description = wanted
  /\ edited = TRUE
  /\ out = [d \in Dirs |-> None] /\ library = [t \in LibraryTypes |-> None] /\ published \in LibraryTypes
  /\ manifest = None /\ public = None /\ apk = None /\ device = None /\ ticket = 0
  /\ sync = [local |-> 0, remote |-> 0] /\ todo = {} /\ patch = None
  /\ cut = FALSE

-----------------------------------------------------------------------------
(* The files Freeline finds; a walk over the directory finds any of them *)

\* find_manifest, find_r_file.
Walked == {out[d] : d \in Dirs} \ {None}

\* get_dst_manifest_path: the variant's, or else the first there is.  R.java is
\* found by main_r_path in the same way.
Found(c) ==
  IF out[Dir(c.flavor)] # None THEN {out[Dir(c.flavor)]} ELSE Walked

\* fix_package_name: a fixed manifest that is there is taken as it is.
FixPackageName(c, v) ==
  IF c.package = ApplicationId THEN [version |-> v, package |-> ApplicationId]
  ELSE IF manifest # None THEN manifest ELSE [version |-> v, package |-> c.package]

\* What is kept of it for the next time.
KeepManifest(c, m) == manifest' = IF c.package = ApplicationId THEN manifest ELSE m

\* Fault: the classes of the debug variant for every flavor.
MainClassesOfDebug(c) == out["debug"]

\* get_dst_classes_dir, of the application and of a library.
MainClasses(c) == out[Dir(c.flavor)]

LibraryClasses == IF library["release"] # None THEN library["release"] ELSE library["debug"]

-----------------------------------------------------------------------------
(* The developer *)

Edit ==
  /\ version < MaxEdits
  /\ version' = version + 1 /\ edited' = TRUE
  /\ wanted' \in Settings
  /\ UNCHANGED <<description, out, library, published, local, apk, device, ticket, sync, todo, patch, cut>>

\* A release build of the library, by hand.
ReleaseLibrary ==
  /\ todo = {} /\ library' = [library EXCEPT !["release"] = version] /\ library' # library
  /\ UNCHANGED <<version, wanted, description, edited, out, published, local, apk, device, ticket, sync,
                 todo, patch, cut>>

-----------------------------------------------------------------------------
(* The clean build *)

\* The stat is taken and the ticket written before gradle begins.
BeginsClean ==
  /\ ticket < MaxBuilds /\ ticket' = ticket + 1
  /\ todo' = Tasks /\ edited' = FALSE

CleanBuild ==
  /\ todo = {} /\ BeginsClean
  /\ UNCHANGED <<version, wanted, description, out, library, published, local, apk, device, sync, patch, cut>>

\* A task that fails, or the end of the process: the rest is not executed.
Stop ==
  /\ todo # {} /\ todo' = {}
  /\ UNCHANGED <<version, wanted, description, edited, out, library, published, local, apk, device, ticket,
                 sync, patch, cut>>

ReadProjectInfo ==
  /\ "read_project_info" \in todo /\ todo' = todo \ {"read_project_info"}
  /\ description' = wanted
  /\ UNCHANGED <<version, wanted, edited, out, library, published, local, apk, device, ticket, sync, patch,
                 cut>>

\* Gradle is told the variant by the description, and reads the rest for itself.
Build ==
  /\ "build" \in todo /\ "read_project_info" \notin todo /\ todo' = todo \ {"build"}
  /\ out' = [out EXCEPT ![Dir(description.flavor)] = version]
  /\ library' = [library EXCEPT ![published] = version]
  /\ apk' = [version |-> version, package |-> wanted.package, ticket |-> ticket]
  /\ UNCHANGED <<version, wanted, description, edited, published, local, device, ticket, sync, patch, cut>>

\* Fault: the backup directory is spared.
CleanAllButManifest ==
  /\ "clean_all_cache" \in todo /\ "build" \notin todo /\ todo' = todo \ {"clean_all_cache"}
  /\ public' = None /\ UNCHANGED manifest
  /\ sync' = [sync EXCEPT !.local = 0]
  /\ cut' = FALSE
  /\ UNCHANGED <<version, wanted, description, edited, out, library, published, apk, device, ticket, patch>>

\* Neither the fixed manifest nor the id files are on the ignore list.
CleanAllCache ==
  /\ "clean_all_cache" \in todo /\ "build" \notin todo /\ todo' = todo \ {"clean_all_cache"}
  /\ manifest' = None /\ public' = None
  /\ sync' = [sync EXCEPT !.local = 0]
  /\ cut' = FALSE
  /\ UNCHANGED <<version, wanted, description, edited, out, library, published, apk, device, ticket, patch>>

\* An installation that fails may end without an exception (InstallApk of CleanBuild).
Install ==
  /\ "install" \in todo /\ "build" \notin todo /\ todo' = todo \ {"install"}
  /\ \/ /\ device' = apk /\ sync' = [sync EXCEPT !.remote = 0] /\ patch' = None
        /\ cut' = ("clean_all_cache" \in todo)
     \/ UNCHANGED <<device, sync, patch, cut>>
  /\ UNCHANGED <<version, wanted, description, edited, out, library, published, local, apk, ticket>>

\* keep_ids and run_aapt, with the description as read_project_info has left it.
BuildBaseResource ==
  /\ "build_base_resource" \in todo /\ "clean_all_cache" \notin todo /\ todo' = todo \ {"build_base_resource"}
  /\ \E v \in Found(description), r \in Found(description) :
       KeepManifest(description, FixPackageName(description, v)) /\ public' = r
  /\ UNCHANGED <<version, wanted, description, edited, out, library, published, apk, device, ticket, sync,
                 patch, cut>>

-----------------------------------------------------------------------------
Accepted == device # None /\ device.ticket = ticket /\ sync.local = sync.remote

\* An incremental build with changed resources and sources: generate_r_file,
\* _get_aapt_args, fill_classpaths, and the patch, or the clean build instead.
Incremental ==
  /\ todo = {} /\ ~edited
  /\ \E v \in Found(description), r \in Found(description) :
       LET m == FixPackageName(description, v)
           p == IF public # None THEN public ELSE r
       IN  /\ KeepManifest(description, m) /\ public' = p
           /\ \/ /\ Accepted /\ sync.local < MaxSyncs
                 /\ sync' = [local |-> sync.local + 1, remote |-> sync.remote + 1]
                 /\ patch' = [manifest |-> m, public |-> p,
                              main |-> MainClasses(description), library |-> LibraryClasses,
                              cut |-> cut]
                 /\ UNCHANGED <<edited, ticket, todo>>
              \/ ~Accepted /\ BeginsClean /\ UNCHANGED <<sync, patch>>
  /\ UNCHANGED <<version, wanted, description, out, library, published, apk, device, cut>>

Next ==
  \/ Edit \/ ReleaseLibrary \/ CleanBuild \/ Stop
  \/ ReadProjectInfo \/ Build \/ CleanAllCache \/ Install \/ BuildBaseResource
  \/ Incremental

Spec == Init /\ [][Next]_vars

-----------------------------------------------------------------------------
(* Properties *)

\* A patch is made from the manifest, the package and the ids of the application
\* it patches, through every sequence of edits, changes of the variant, failed
\* and killed builds (get_dst_manifest_path, fix_package_name, keep_ids). The one
\* exception is an application installed before the cache was emptied by a build
\* that then stopped (cut): it is patched with what an older build has kept.
PatchFitsApplication ==
  patch # None /\ ~patch.cut =>
    /\ patch.manifest = [version |-> device.version, package |-> device.package]
    /\ patch.public = device.version

\* A patch is compiled against the classes of the application it patches; a release
\* build hides those of a library that is published as debug.
PatchCompiledAgainstApplication ==
  patch # None =>
    /\ patch.main = device.version
    /\ published = "release" \/ library["release"] = None => patch.library = device.version
=============================================================================
