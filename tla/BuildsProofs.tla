---------------------------- MODULE BuildsProofs ----------------------------
(***************************************************************************)
(* What a clean build leaves behind, for any project and any number of     *)
(* edits and builds.                                                       *)
(*                                                                         *)
(* A patch is made from the outputs of the application it patches.  The    *)
(* invariant follows what the current clean build has done so far: a new   *)
(* ticket makes the installed application foreign until this build has     *)
(* installed its own, and the cache is emptied between the two or the      *)
(* history variable cut says so.                                           *)
(*                                                                         *)
(* The stat is no newer than the application.  The invariant bounds it by  *)
(* the sources until gradle reads a module, by what gradle has read from   *)
(* then on, and by the apk when it is built; it follows the stat through   *)
(* the task that takes it, the file on the disk, and the task that adds    *)
(* the modules gradle has reported.                                        *)
(***************************************************************************)
EXTENDS MCBuilds, TLAPS

-----------------------------------------------------------------------------
(* BuildOutputs *)

\* The application on the device has the ticket of the last clean build.
Installed == device # None /\ device.ticket = ticket

\* The outputs are those of the last clean build.
Current == ("install" \in todo /\ "build" \notin todo) \/ Installed

\* Its cache was emptied by it.
Cleaned == ("install" \in todo /\ "clean_all_cache" \notin todo) \/ (Installed /\ ~cut)

Order ==
  /\ "read_project_info" \in todo => "build" \in todo
  /\ "build" \in todo => {"clean_all_cache", "install"} \subseteq todo
  /\ "clean_all_cache" \in todo => "build_base_resource" \in todo
  /\ "install" \in todo => ~Installed

Tickets ==
  /\ apk # None => apk.ticket <= ticket
  /\ device # None => device.ticket <= ticket

SameApk == Installed => device = apk /\ ("clean_all_cache" \in todo => cut)

Described == "build" \in todo /\ "read_project_info" \notin todo /\ ~edited => description = wanted

Outputs ==
  Current /\ ~edited =>
    /\ apk.version = version /\ apk.package = description.package
    /\ out[Dir(description.flavor)] = version
    /\ library[published] = version

Emptied == "build_base_resource" \in todo /\ "clean_all_cache" \notin todo => manifest = None

Backup ==
  Cleaned /\ ~edited =>
    /\ \/ description.package = ApplicationId
       \/ manifest = None
       \/ manifest = [version |-> version, package |-> description.package]
    /\ public = None \/ public = version

IInv ==
  /\ Order /\ Tickets /\ SameApk /\ Described /\ Outputs /\ Emptied /\ Backup
  /\ PatchFitsApplication /\ PatchCompiledAgainstApplication

-----------------------------------------------------------------------------
(* Types *)

LEMMA Constants == /\ ApplicationId \in Packages /\ MaxEdits \in Nat /\ MaxBuilds \in Nat /\ MaxSyncs \in Nat
                   /\ None \notin Versions
BY BuildOutputsAssumption DEF Versions

\* The files found are versions gradle has built.
LEMMA FoundVersions ==
  ASSUME TypeOK, NEW c \in Settings
  PROVE  Found(c) \subseteq Versions /\ None \notin Found(c)
<1>1. \A d \in Dirs : out[d] \in Versions \cup {None}
  BY DEF TypeOK
<1>2. Dir(c.flavor) \in Dirs
  BY DEF Settings, Dirs
<1>. QED
  BY <1>1, <1>2, Constants DEF Found, Walked

LEMMA DirsOfSettings == ASSUME NEW c \in Settings PROVE Dir(c.flavor) \in Dirs
BY DEF Settings, Dirs

\* A fixed manifest has the types of a manifest.
LEMMA FixedManifest ==
  ASSUME TypeOK, NEW c \in Settings, NEW v \in Versions
  PROVE  FixPackageName(c, v) \in [version : Versions, package : Packages]
BY Constants DEF TypeOK, FixPackageName, Settings

\* Every variable has its type, in particular what a patch is made with: the
\* files an incremental build uses exist.
THEOREM TypeCorrect == Spec => []TypeOK
<1>1. Init => TypeOK
  <2>. SUFFICES ASSUME Init PROVE TypeOK
    OBVIOUS
  <2>1. 0 \in Versions /\ 0 \in 0..MaxBuilds
    BY Constants DEF Versions
  <2>2. sync \in [local : 0..MaxSyncs, remote : 0..MaxSyncs]
    BY Constants DEF Init
  <2>3. out \in [Dirs -> Versions \cup {None}] /\ library \in [LibraryTypes -> Versions \cup {None}]
    BY DEF Init
  <2>. QED
    BY <2>1, <2>2, <2>3 DEF Init, TypeOK
<1>2. TypeOK /\ [Next]_vars => TypeOK'
  <2>. SUFFICES ASSUME TypeOK, [Next]_vars PROVE TypeOK'
    OBVIOUS
  <2>. USE DEF TypeOK
  <2>1. CASE Edit
    <3>1. version' \in Versions
      BY <2>1, Constants DEF Edit, Versions
    <3>. QED
      BY <2>1, <3>1 DEF Edit, local
  <2>2. CASE ReleaseLibrary
    BY <2>2 DEF ReleaseLibrary, local, LibraryTypes
  <2>3. ASSUME BeginsClean PROVE ticket' \in 0..MaxBuilds /\ todo' \subseteq Tasks /\ edited' \in BOOLEAN
    <3>1. ticket' \in 0..MaxBuilds
      BY <2>3, Constants DEF BeginsClean
    <3>. QED
      BY <2>3, <3>1 DEF BeginsClean
  <2>4. CASE CleanBuild
    BY <2>3, <2>4 DEF CleanBuild, BeginsClean, local
  <2>5. CASE Stop
    BY <2>5 DEF Stop, local
  <2>6. CASE ReadProjectInfo
    BY <2>6 DEF ReadProjectInfo, local
  <2>7. CASE Build
    <3>1. Dir(description.flavor) \in Dirs
      BY DirsOfSettings
    <3>2. apk' \in Apks
      BY <2>7 DEF Build, Apks, Settings
    <3>3. out' \in [Dirs -> Versions \cup {None}] /\ library' \in [LibraryTypes -> Versions \cup {None}]
      BY <2>7, <3>1 DEF Build
    <3>. QED
      BY <2>7, <3>2, <3>3 DEF Build, local
  <2>8. CASE CleanAllCache
    <3>1. sync' \in [local : 0..MaxSyncs, remote : 0..MaxSyncs]
      BY <2>8, Constants DEF CleanAllCache
    <3>. QED
      BY <2>8, <3>1 DEF CleanAllCache
  <2>9. CASE Install
    <3>1. sync' \in [local : 0..MaxSyncs, remote : 0..MaxSyncs]
      BY <2>9, Constants DEF Install
    <3>2. (device' = apk /\ patch' = None /\ cut' = ("clean_all_cache" \in todo)) \/ UNCHANGED <<device, patch, cut>>
      BY <2>9 DEF Install
    <3>3. todo' \subseteq Tasks
          /\ UNCHANGED <<version, wanted, description, edited, out, library, published, manifest, public, apk, ticket>>
      BY <2>9 DEF Install, local
    <3>4. CASE device' = apk /\ patch' = None /\ cut' = ("clean_all_cache" \in todo)
      BY <3>1, <3>3, <3>4
    <3>5. CASE UNCHANGED <<device, patch, cut>>
      BY <3>1, <3>3, <3>5
    <3>. QED
      BY <3>2, <3>4, <3>5
  <2>10. CASE BuildBaseResource
    <3>1. PICK v \in Found(description), r \in Found(description) :
            KeepManifest(description, FixPackageName(description, v)) /\ public' = r
      BY <2>10 DEF BuildBaseResource
    <3>2. v \in Versions /\ r \in Versions
      BY <3>1, FoundVersions
    <3>3. manifest' # None => manifest' \in [version : Versions, package : Packages]
      BY <3>1, <3>2, FixedManifest DEF KeepManifest
    <3>. QED
      BY <2>10, <3>1, <3>2, <3>3 DEF BuildBaseResource
  <2>11. CASE Incremental
    <3>1. PICK v \in Found(description), r \in Found(description) :
            LET m == FixPackageName(description, v)
                p == IF public # None THEN public ELSE r
            IN  /\ KeepManifest(description, m) /\ public' = p
                /\ \/ /\ Accepted /\ sync.local < MaxSyncs
                      /\ sync' = [local |-> sync.local + 1, remote |-> sync.remote + 1]
                      /\ patch' = [manifest |-> m, public |-> p,
                                   main |-> MainClasses(description), library |-> LibraryClasses,
                                   cut |-> cut]
                      /\ UNCHANGED <<edited, ticket, todo>>
                   \/ ~Accepted /\ BeginsClean /\ UNCHANGED <<sync, patch>>
      BY <2>11, ZenonT(60) DEF Incremental, FixPackageName, Found, Walked, MainClasses
    <3>2. v \in Versions /\ r \in Versions
      BY <3>1, FoundVersions
    <3>3. FixPackageName(description, v) \in [version : Versions, package : Packages]
      BY <3>2, FixedManifest
    <3>4. public' \in Versions
      BY <3>1, <3>2
    <3>5. manifest' # None => manifest' \in [version : Versions, package : Packages]
      BY <3>1, <3>3 DEF KeepManifest
    <3>6. UNCHANGED <<version, wanted, description, out, library, published, apk, device, cut>>
      BY <2>11 DEF Incremental
    <3>7. CASE Accepted /\ sync.local < MaxSyncs
      <4>1. sync' \in [local : 0..MaxSyncs, remote : 0..MaxSyncs]
        BY <3>1, <3>7, Constants DEF Accepted
      <4>2. patch'.public \in Versions /\ patch'.manifest.package \in Packages
        BY <3>1, <3>2, <3>3, <3>7
      <4>3. UNCHANGED <<edited, ticket, todo>>
        BY <3>1, <3>7
      <4>. QED
        BY <3>4, <3>5, <3>6, <4>1, <4>2, <4>3
    <3>8. CASE ~Accepted
      <4>1. BeginsClean /\ UNCHANGED <<sync, patch>>
        BY <3>1, <3>8
      <4>. QED
        BY <2>3, <3>4, <3>5, <3>6, <4>1
    <3>. QED
      BY <3>1, <3>7, <3>8
  <2>12. CASE UNCHANGED vars
    BY <2>12 DEF vars, local
  <2>. QED
    BY <2>1, <2>2, <2>4, <2>5, <2>6, <2>7, <2>8, <2>9, <2>10, <2>11, <2>12 DEF Next
<1>. QED
  BY <1>1, <1>2, PTL DEF Spec

-----------------------------------------------------------------------------
(* The patches *)

\* The file found for the description is gradle's last output, if that is of its variant.
LEMMA FoundCurrent ==
  ASSUME TypeOK, out[Dir(description.flavor)] = version
  PROVE  Found(description) = {version} /\ MainClasses(description) = version
BY Constants DEF TypeOK, Found, MainClasses

LEMMA InvInit == Init => IInv
<1>. SUFFICES ASSUME Init PROVE IInv
  OBVIOUS
<1>1. ~Installed /\ todo = {} /\ patch = None /\ apk = None /\ device = None
  BY DEF Init, Installed
<1>. QED
  BY <1>1 DEF IInv, Order, Tickets, SameApk, Described, Outputs, Current, Emptied, Backup, Cleaned,
              PatchFitsApplication, PatchCompiledAgainstApplication

\* A new ticket: nothing is current any more.
LEMMA InvBeginsClean ==
  ASSUME TypeOK, Tickets, PatchFitsApplication, PatchCompiledAgainstApplication, BeginsClean,
         UNCHANGED <<apk, device, patch, library, published>>
  PROVE  IInv'
<1>1. ticket \in Nat /\ ticket' = ticket + 1 /\ todo' = Tasks
  BY Constants DEF TypeOK, BeginsClean
<1>2. apk # None => apk.ticket \in Nat /\ apk.ticket <= ticket
  BY Constants DEF TypeOK, Tickets, Apks
<1>3. device # None => device.ticket \in Nat /\ device.ticket <= ticket
  BY Constants DEF TypeOK, Tickets, Apks
<1>4. ~Installed'
  BY <1>1, <1>3 DEF Installed
<1>5. Tickets'
  BY <1>1, <1>2, <1>3 DEF Tickets
<1>6. "build" \in todo' /\ "clean_all_cache" \in todo' /\ "read_project_info" \in todo' /\ "build_base_resource" \in todo'
      /\ "install" \in todo'
  BY <1>1 DEF Tasks
<1>7. PatchFitsApplication' /\ PatchCompiledAgainstApplication'
  BY DEF PatchFitsApplication, PatchCompiledAgainstApplication
<1>. QED
  BY <1>4, <1>5, <1>6, <1>7
     DEF IInv, Order, SameApk, Described, Outputs, Current, Emptied, Backup, Cleaned

LEMMA InvNext == TypeOK /\ IInv /\ [Next]_vars => IInv'
<1>. SUFFICES ASSUME TypeOK, IInv, [Next]_vars PROVE IInv'
  OBVIOUS
<1>. USE DEF IInv
<1>1. CASE Edit
  <2>1. edited' /\ UNCHANGED <<description, out, library, published, manifest, public, apk, device, ticket, todo, patch, cut>>
    BY <1>1 DEF Edit, local
  <2>. QED
    BY <2>1 DEF Order, Tickets, SameApk, Described, Outputs, Current, Emptied, Backup, Cleaned, Installed,
                PatchFitsApplication, PatchCompiledAgainstApplication
<1>2. CASE ReleaseLibrary
  <2>1. /\ library' = [library EXCEPT !["release"] = version]
        /\ UNCHANGED <<version, wanted, description, edited, out, published, manifest, public, apk, device, ticket, todo,
                       patch, cut>>
    BY <1>2 DEF ReleaseLibrary, local
  <2>2. published \in DOMAIN library /\ "release" \in DOMAIN library /\ version # None
    BY Constants DEF TypeOK, LibraryTypes
  <2>3. Outputs'
    BY <2>1, <2>2 DEF Outputs, Current, Installed
  <2>4. PatchCompiledAgainstApplication'
    BY <2>1, <2>2 DEF PatchCompiledAgainstApplication
  <2>. QED
    BY <2>1, <2>3, <2>4 DEF Order, Tickets, SameApk, Described, Current, Emptied, Backup, Cleaned, Installed,
                            PatchFitsApplication
<1>3. CASE CleanBuild
  BY <1>3, InvBeginsClean DEF CleanBuild
<1>4. CASE Stop
  <2>1. todo' = {} /\ UNCHANGED <<version, description, wanted, edited, out, library, published, manifest, public, apk, device,
                                  ticket, patch, cut>>
    BY <1>4 DEF Stop, local
  <2>. QED
    BY <2>1 DEF Order, Tickets, SameApk, Described, Outputs, Current, Emptied, Backup, Cleaned, Installed,
                PatchFitsApplication, PatchCompiledAgainstApplication
<1>5. CASE ReadProjectInfo
  <2>1. /\ "read_project_info" \in todo /\ todo' = todo \ {"read_project_info"} /\ description' = wanted
        /\ UNCHANGED <<version, wanted, edited, out, library, published, manifest, public, apk, device, ticket, patch, cut>>
    BY <1>5 DEF ReadProjectInfo, local
  <2>2. "build" \in todo /\ "clean_all_cache" \in todo /\ ~Installed
    BY <2>1 DEF Order
  <2>3. ~Current' /\ ~Cleaned'
    BY <2>1, <2>2 DEF Current, Cleaned, Installed
  <2>. QED
    BY <2>1, <2>2, <2>3 DEF Order, Tickets, SameApk, Described, Outputs, Emptied, Backup, Installed,
                PatchFitsApplication, PatchCompiledAgainstApplication
<1>6. CASE Build
  <2>1. /\ "build" \in todo /\ "read_project_info" \notin todo /\ todo' = todo \ {"build"}
        /\ out' = [out EXCEPT ![Dir(description.flavor)] = version]
        /\ library' = [library EXCEPT ![published] = version]
        /\ apk' = [version |-> version, package |-> wanted.package, ticket |-> ticket]
        /\ UNCHANGED <<version, wanted, description, edited, published, manifest, public, device, ticket, patch, cut>>
    BY <1>6 DEF Build, local
  <2>2. "clean_all_cache" \in todo' /\ ~Installed'
    BY <2>1 DEF Order, Installed
  <2>3. Dir(description.flavor) \in DOMAIN out /\ published \in DOMAIN library /\ version # None
    BY DirsOfSettings, Constants DEF TypeOK
  <2>4. Outputs'
    BY <2>1, <2>3 DEF Outputs, Described
  <2>5. Tickets'
    <3>1. ticket \in Nat /\ ticket <= ticket
      BY Constants DEF TypeOK
    <3>. QED
      BY <2>1, <3>1 DEF Tickets
  <2>6. PatchCompiledAgainstApplication'
    BY <2>1, <2>3 DEF PatchCompiledAgainstApplication, TypeOK, LibraryTypes
  <2>. QED
    BY <2>1, <2>2, <2>4, <2>5, <2>6 DEF Order, SameApk, Described, Emptied, Backup, Cleaned, Installed,
                PatchFitsApplication
<1>7. CASE CleanAllCache
  <2>1. /\ "clean_all_cache" \in todo /\ "build" \notin todo /\ todo' = todo \ {"clean_all_cache"}
        /\ manifest' = None /\ public' = None /\ cut' = FALSE
        /\ UNCHANGED <<version, wanted, description, edited, out, library, published, apk, device, ticket, patch>>
    BY <1>7 DEF CleanAllCache
  <2>. QED
    BY <2>1 DEF Order, Tickets, SameApk, Described, Outputs, Current, Emptied, Backup, Cleaned, Installed,
                PatchFitsApplication, PatchCompiledAgainstApplication
<1>8. CASE Install
  <2>1. /\ "install" \in todo /\ "build" \notin todo /\ todo' = todo \ {"install"}
        /\ \/ device' = apk /\ patch' = None /\ cut' = ("clean_all_cache" \in todo)
           \/ UNCHANGED <<device, patch, cut>>
        /\ UNCHANGED <<version, wanted, description, edited, out, library, published, manifest, public, apk, ticket>>
    BY <1>8 DEF Install, local
  <2>2. Cleaned' => Cleaned
    BY <2>1 DEF Cleaned, Order, Installed
  <2>3. Backup'
    BY <2>1, <2>2 DEF Backup
  <2>4. SameApk'
    BY <2>1 DEF SameApk, Installed, Order
  <2>. QED
    BY <2>1, <2>3, <2>4 DEF Order, Tickets, Described, Outputs, Current, Emptied, Installed,
                PatchFitsApplication, PatchCompiledAgainstApplication
<1>9. CASE BuildBaseResource
  <2>1. /\ "build_base_resource" \in todo /\ "clean_all_cache" \notin todo /\ todo' = todo \ {"build_base_resource"}
        /\ UNCHANGED <<version, wanted, description, edited, out, library, published, apk, device, ticket, patch, cut>>
    BY <1>9 DEF BuildBaseResource
  <2>2. PICK v \in Found(description), r \in Found(description) :
          KeepManifest(description, FixPackageName(description, v)) /\ public' = r
    BY <1>9 DEF BuildBaseResource
  <2>3. manifest = None /\ "build" \notin todo
    BY <2>1 DEF Emptied, Order
  <2>4. Backup'
    <3>. SUFFICES ASSUME Cleaned', ~edited
                  PROVE  /\ \/ description.package = ApplicationId
                            \/ manifest' = None
                            \/ manifest' = [version |-> version, package |-> description.package]
                         /\ public' = None \/ public' = version
      BY <2>1 DEF Backup
    <3>1. Current
      BY <2>1, <2>3 DEF Cleaned, Current, Installed
    <3>2. v = version /\ r = version
      BY <2>2, <3>1, FoundCurrent DEF Outputs
    <3>. QED
      BY <2>2, <2>3, <3>2 DEF KeepManifest, FixPackageName
  <2>5. Order' /\ Described' /\ Emptied'
    BY <2>1, <2>3 DEF Order, Described, Emptied, Installed
  <2>6. Tickets' /\ SameApk' /\ Outputs'
    BY <2>1 DEF Tickets, SameApk, Outputs, Current, Installed
  <2>7. PatchFitsApplication' /\ PatchCompiledAgainstApplication'
    BY <2>1 DEF PatchFitsApplication, PatchCompiledAgainstApplication
  <2>. QED
    BY <2>4, <2>5, <2>6, <2>7
<1>10. CASE Incremental
  <2>1. /\ todo = {} /\ ~edited
        /\ UNCHANGED <<version, wanted, description, out, library, published, apk, device, cut>>
    BY <1>10 DEF Incremental
  <2>2. PICK v \in Found(description), r \in Found(description) :
          LET m == FixPackageName(description, v)
              p == IF public # None THEN public ELSE r
          IN  /\ KeepManifest(description, m) /\ public' = p
              /\ \/ /\ Accepted /\ sync.local < MaxSyncs
                    /\ sync' = [local |-> sync.local + 1, remote |-> sync.remote + 1]
                    /\ patch' = [manifest |-> m, public |-> p,
                                 main |-> MainClasses(description), library |-> LibraryClasses,
                                 cut |-> cut]
                    /\ UNCHANGED <<edited, ticket, todo>>
                 \/ ~Accepted /\ BeginsClean /\ UNCHANGED <<sync, patch>>
    BY <1>10, ZenonT(60) DEF Incremental, FixPackageName, Found, Walked, MainClasses
  <2>3. CASE ~Accepted
    BY <2>1, <2>2, <2>3, InvBeginsClean
  <2>4. CASE Accepted
    <3>1. /\ patch' = [manifest |-> FixPackageName(description, v), public |-> IF public # None THEN public ELSE r,
                       main |-> MainClasses(description), library |-> LibraryClasses, cut |-> cut]
          /\ public' = IF public # None THEN public ELSE r
          /\ KeepManifest(description, FixPackageName(description, v))
          /\ UNCHANGED <<edited, ticket, todo>>
      BY <2>2, <2>4
    <3>2. Installed /\ device = apk
      BY <2>4 DEF Accepted, Installed, SameApk
    <3>3. /\ device.version = version /\ device.package = description.package
          /\ out[Dir(description.flavor)] = version /\ library[published] = version
      BY <2>1, <3>2 DEF Outputs, Current
    <3>4. v = version /\ r = version /\ MainClasses(description) = version
      BY <3>3, FoundCurrent
    <3>5. ASSUME ~cut
          PROVE  /\ FixPackageName(description, v) = [version |-> version, package |-> description.package]
                 /\ public' = version
      <4>1. /\ \/ description.package = ApplicationId
               \/ manifest = None
               \/ manifest = [version |-> version, package |-> description.package]
            /\ public = None \/ public = version
        BY <2>1, <3>2, <3>5 DEF Backup, Cleaned
      <4>. QED
        BY <3>1, <3>4, <4>1 DEF FixPackageName
    <3>6. PatchFitsApplication'
      BY <2>1, <3>1, <3>3, <3>5 DEF PatchFitsApplication
    <3>7. PatchCompiledAgainstApplication'
      <4>1. version # None /\ published \in LibraryTypes
        BY Constants DEF TypeOK
      <4>. QED
        BY <2>1, <3>1, <3>3, <3>4, <4>1 DEF PatchCompiledAgainstApplication, LibraryClasses, LibraryTypes
    <3>8. Backup'
      BY <2>1, <3>1, <3>2, <3>5 DEF Backup, Cleaned, KeepManifest
    <3>. QED
      BY <2>1, <3>1, <3>6, <3>7, <3>8 DEF Order, Tickets, SameApk, Described, Outputs, Current, Emptied, Installed
  <2>. QED
    BY <2>3, <2>4
<1>11. CASE UNCHANGED vars
  <2>1. UNCHANGED <<version, wanted, description, edited, out, library, published, manifest, public, apk, device, ticket, todo,
                    patch, cut>>
    BY <1>11 DEF vars, local
  <2>. QED
    BY <2>1 DEF Order, Tickets, SameApk, Described, Outputs, Current, Emptied, Backup, Cleaned, Installed,
                PatchFitsApplication, PatchCompiledAgainstApplication
<1>. QED
  BY <1>1, <1>2, <1>3, <1>4, <1>5, <1>6, <1>7, <1>8, <1>9, <1>10, <1>11 DEF Next

LEMMA Invariant == Spec => []IInv
BY TypeCorrect, InvInit, InvNext, PTL DEF Spec

\* Whatever the flavors and packages are and however many builds there are, a
\* patch has the manifest, the package and the ids of the application it patches,
\* with the one exception of the property.
THEOREM PatchesFit == Spec => []PatchFitsApplication
BY Invariant, PTL DEF IInv

\* It is compiled against the classes of that application.
THEOREM PatchesCompiled == Spec => []PatchCompiledAgainstApplication
BY Invariant, PTL DEF IInv

-----------------------------------------------------------------------------
(* CleanBuild *)

\* A task has begun only when its parents have ended, and has steps of its own only.
InOrder ==
  /\ \A t \in Clean!Tasks : pc[t] # "waiting" => \A p \in Clean!Parents(t) : Clean!Ended(p)
  /\ \A t \in Clean!Tasks : pc[t] = "begun" => t = "build"
  /\ \A t \in Clean!Tasks : pc[t] \in {"exists", "remove", "open", "dump", "md5"} => t \in Clean!StatTasks

\* What a task that was executed has left, as long as the build lasts.
Left ==
  /\ pc["read_project_info"] = "done" => config = Modules
  /\ pc["build"] = "done" => cleanApk # None /\ cleanApk.ticket = builds
  /\ pc["clean_all_cache"] = "done" => syncid = 0
  /\ pc["generate_stat"] = "done" \/ pc["append_stat"] = "done" => "md5" \in files
  /\ pc["build_base_resource"] = "done" => "base_res" \in files
  /\ pc["generate_project_info"] = "done" => {"project_info", "apt_stat"} \subseteq files

\* Only this build gives its ticket.
CleanTickets ==
  /\ apktime = builds
  /\ cleanApk # None => cleanApk.ticket <= builds
  /\ cleanDevice # None => cleanDevice.ticket <= builds
  /\ builds > 0 /\ cleanApk # None /\ cleanApk.ticket = builds => pc["build"] = "done"
  /\ builds > 0 /\ cleanDevice # None /\ cleanDevice.ticket = builds =>
       pc["build"] = "done" /\ cleanDevice.versions = cleanApk.versions /\ cleanDevice.lastSync = 0

\* Before the first build the application is as it was installed.
Beginning ==
  builds = 0 =>
    /\ phase = "idle" /\ \A t \in Clean!Tasks : pc[t] = "waiting"
    /\ cleanDevice # None =>
         /\ known = OldModules /\ stat = [m \in OldModules |-> 0]
         /\ cleanDevice.versions = [m \in Modules |-> 0]

\* Gradle that was not early has waited for the stat.
StatEnds ==
  /\ pc["build"] = "waiting" => ~late /\ DOMAIN compiled = {}
  /\ "generate_stat" \in interrupted => pc["build"] # "waiting" \/ "build" \in interrupted
  /\ pc["generate_stat"] \in {"raised", "failed"} => pc["build"] # "waiting" \/ "build" \in interrupted
  /\ pc["generate_stat"] = "remove" /\ stat = None => pc["append_stat"] # "waiting"
  /\ pc["build"] \in {"begun", "done"} /\ ~late => pc["generate_stat"] = "done"

\* The newest version that a stat taken in time may have of a module.
Limit(m) ==
  IF pc["build"] = "done" THEN cleanApk.versions[m]
  ELSE IF pc["build"] = "begun" /\ m \in DOMAIN compiled THEN compiled[m]
  ELSE src[m]

InTime(f) == known \subseteq DOMAIN f /\ \A m \in known : f[m] <= Limit(m)

\* What generate_stat has not written yet.
StatIsTaken ==
  pc["generate_stat"] \in {"exists", "remove", "open", "dump"} =>
    /\ DOMAIN cache["generate_stat"] = known
    /\ \A m \in known : cache["generate_stat"][m] <= src[m]

OnTime == pc["build"] \in {"waiting", "begun", "done"} /\ ~late

\* The stat is taken in time, and append_stat keeps what it has of the modules.
StatIsInTime ==
  pc["generate_stat"] \in {"md5", "done"} /\ OnTime =>
    /\ pc["append_stat"] = "waiting" => stat # None /\ DOMAIN stat = known /\ InTime(stat)
    /\ pc["append_stat"] \in {"exists", "remove", "open", "dump"} => InTime(cache["append_stat"])
    /\ pc["append_stat"] \in {"exists", "md5", "done"} => stat # None
    /\ stat \notin {None, <<>>} => InTime(stat)

\* A module that gradle has reported is in the stat that append_stat leaves.
StatIsWhole ==
  pc["read_project_info"] = "done" /\ pc["generate_stat"] = "done" /\ OnTime =>
    /\ pc["append_stat"] \in {"exists", "remove", "open", "dump"} => DOMAIN cache["append_stat"] = Modules
    /\ pc["append_stat"] \in {"md5", "done"} => DOMAIN stat = Modules

Orderly == InOrder /\ Left /\ CleanTickets /\ Beginning
StatInv == StatEnds /\ StatIsTaken /\ StatIsInTime /\ StatIsWhole
CleanInv == Clean!TypeOK /\ Orderly /\ StatInv

\* Steps of a task.
Ends == {"done", "raised", "failed"}
Steps == {"waiting", "begun", "exists", "remove", "open", "dump", "md5", "done", "raised", "failed"}

LEMMA TasksAre ==
  /\ Clean!Tasks = {"generate_stat", "append_stat", "read_project_info", "build", "clean_all_cache", "install",
                    "build_base_resource", "generate_project_info", "generate_apt"}
  /\ Clean!StatTasks = {"generate_stat", "append_stat"}
BY DEF Clean!Tasks, Clean!StatTasks

LEMMA ParentsAre ==
  /\ Clean!Parents("generate_stat") = {} /\ Clean!Parents("read_project_info") = {}
  /\ Clean!Parents("build") = {"read_project_info"}
  /\ Clean!Parents("clean_all_cache") = {"build"} /\ Clean!Parents("install") = {"build"}
  /\ Clean!Parents("append_stat") = {"clean_all_cache"}
  /\ Clean!Parents("build_base_resource") = {"clean_all_cache"}
  /\ Clean!Parents("generate_project_info") = {"clean_all_cache"}
  /\ Clean!Parents("generate_apt") = {"clean_all_cache"}
  /\ \A t \in Clean!Tasks : Clean!Parents(t) \subseteq Clean!Tasks
BY DEF Clean!Parents, Clean!Tasks, Clean!StatTasks

\* A task's step, and the steps of the others.
LEMMA Steps9 ==
  ASSUME Clean!TypeOK, NEW t \in Clean!Tasks, NEW step, pc' = [pc EXCEPT ![t] = step]
  PROVE  pc'[t] = step /\ \A u \in Clean!Tasks : u # t => pc'[u] = pc[u]
BY DEF Clean!TypeOK

\* A task that goes on leaves the order as it is.
LEMMA OrderStays ==
  ASSUME Clean!TypeOK, InOrder, NEW t \in Clean!Tasks, NEW step,
         pc' = [pc EXCEPT ![t] = step],
         \A p \in Clean!Parents(t) : Clean!Ended(p),
         Clean!Ended(t) => step \in Ends,
         step = "begun" => t = "build",
         step \in {"exists", "remove", "open", "dump", "md5"} => t \in Clean!StatTasks
  PROVE  InOrder'
<1>1. pc'[t] = step /\ \A u \in Clean!Tasks : u # t => pc'[u] = pc[u]
  BY Steps9
<1>2. \A u \in Clean!Tasks : Clean!Ended(u) => (Clean!Ended(u))'
  BY <1>1 DEF Clean!Ended, Ends
<1>3. ASSUME NEW u \in Clean!Tasks, pc'[u] # "waiting", NEW p \in Clean!Parents(u) PROVE (Clean!Ended(p))'
  <2>1. p \in Clean!Tasks /\ Clean!Ended(p)
    BY <1>1, <1>3, ParentsAre DEF InOrder
  <2> QED BY <1>2, <2>1
<1>4. \A u \in Clean!Tasks : (pc'[u] = "begun" => u = "build")
                             /\ (pc'[u] \in {"exists", "remove", "open", "dump", "md5"} => u \in Clean!StatTasks)
  BY <1>1 DEF InOrder
<1>5. \A u : (Clean!Parents(u))' = Clean!Parents(u)
  BY DEF Clean!Parents
<1> QED BY <1>3, <1>4, <1>5 DEF InOrder
\* Versions are numbers, and not None.
LEMMA VersionsAre ==
  /\ \A f \in Clean!Versions : DOMAIN f \subseteq Modules /\ f # None /\ \A m \in DOMAIN f : f[m] \in 0..CleanEdits
  /\ \A S \in SUBSET Modules : \A f \in [S -> 0..CleanEdits] : f \in Clean!Versions
  /\ \A f \in Clean!Versions : DOMAIN f = Modules => f \in [Modules -> 0..CleanEdits]
  /\ <<>> \in Clean!Versions /\ DOMAIN <<>> = {}
  /\ None \notin Clean!Apks /\ None \notin Clean!Applications
  /\ CleanEdits \in Nat /\ CleanBuilds \in Nat /\ OldModules \subseteq Modules
<1>1. /\ CleanEdits \in Nat /\ CleanBuilds \in Nat /\ OldModules \subseteq Modules
      /\ None \notin Clean!Versions /\ None \notin Clean!Apks /\ None \notin Clean!Applications
  BY PartsAssumption DEF Clean!CleanBuildAssumption
<1>2. /\ \A f \in Clean!Versions : DOMAIN f \subseteq Modules /\ \A m \in DOMAIN f : f[m] \in 0..CleanEdits
      /\ \A S \in SUBSET Modules : \A f \in [S -> 0..CleanEdits] : f \in Clean!Versions
      /\ \A f \in Clean!Versions : DOMAIN f = Modules => f \in [Modules -> 0..CleanEdits]
  BY DEF Clean!Versions
<1>3. <<>> \in [{} -> 0..CleanEdits] /\ DOMAIN <<>> = {}
  OBVIOUS
<1> QED BY <1>1, <1>2, <1>3

LEMMA LimitIsANumber ==
  ASSUME Clean!TypeOK, Left, NEW m \in Modules
  PROVE  Limit(m) \in Nat
<1>1. src[m] \in Nat /\ (m \in DOMAIN compiled => compiled[m] \in Nat)
  BY VersionsAre DEF Clean!TypeOK
<1>2. pc["build"] = "done" => cleanApk.versions[m] \in Nat
  BY DEF Clean!TypeOK, Left, Clean!Apks
<1> QED BY <1>1, <1>2 DEF Limit

\* A task that has nothing to do with the stat: what was taken in time still is.
LEMMA StatRests ==
  ASSUME CleanInv, Clean!TypeOK', Left', UNCHANGED <<stat, cache, known>>,
         pc'["generate_stat"] = pc["generate_stat"], pc'["append_stat"] = pc["append_stat"],
         OnTime' => OnTime,
         OnTime' => \A m \in known : Limit(m) <= (Limit(m))'
  PROVE  StatIsInTime'
<1> SUFFICES ASSUME pc'["generate_stat"] \in {"md5", "done"}, OnTime' PROVE StatIsInTime'
  BY DEF StatIsInTime
<1>1. known \subseteq Modules
  BY VersionsAre DEF CleanInv, Clean!TypeOK
<1>2. \A f \in Clean!Versions : InTime(f) => (InTime(f))'
  <2> SUFFICES ASSUME NEW f \in Clean!Versions, InTime(f), NEW m \in known PROVE f[m] <= (Limit(m))'
    BY DEF InTime
  <2>1. f[m] \in Nat /\ f[m] <= Limit(m)
    BY VersionsAre DEF InTime
  <2>2. Limit(m) \in Nat /\ (Limit(m))' \in Nat
    <3>1. Limit(m) \in Nat
      BY <1>1, LimitIsANumber DEF CleanInv, Orderly
    <3>2. (Limit(m))' \in Nat
      <4>1. src'[m] \in Nat /\ (m \in DOMAIN compiled' => compiled'[m] \in Nat)
        BY <1>1, VersionsAre DEF Clean!TypeOK
      <4>2. pc'["build"] = "done" => cleanApk'.versions[m] \in Nat
        BY <1>1 DEF Clean!TypeOK, Left, Clean!Apks
      <4> QED BY <4>1, <4>2 DEF Limit
    <3> QED BY <3>1, <3>2
  <2> QED BY <2>1, <2>2
<1>3. (stat # None => stat \in Clean!Versions) /\ cache["append_stat"] \in Clean!Versions
  BY TasksAre DEF CleanInv, Clean!TypeOK
<1>4. StatIsInTime
  BY DEF CleanInv, StatInv
<1> QED BY <1>2, <1>3, <1>4 DEF StatIsInTime

LEMMA CleanBegins == Clean!Init => CleanInv
<1> SUFFICES ASSUME Clean!Init PROVE CleanInv
  OBVIOUS
<1> USE DEF Clean!Init
<1>1. \A t \in Clean!Tasks : pc[t] = "waiting"
  OBVIOUS
<1>2. Clean!TypeOK
  <2> DEFINE zero == [m \in Modules |-> 0]
  <2>1. zero \in [Modules -> 0..CleanEdits] /\ [m \in OldModules |-> 0] \in Clean!Versions
    <3>1. 0 \in 0..CleanEdits /\ OldModules \in SUBSET Modules
      BY VersionsAre
    <3>2. zero \in [Modules -> 0..CleanEdits] /\ [m \in OldModules |-> 0] \in [OldModules -> 0..CleanEdits]
      BY <3>1
    <3> QED BY <3>1, <3>2, VersionsAre
  <2>2. [ticket |-> 0, versions |-> src] \in Clean!Apks
    BY <2>1, VersionsAre DEF Clean!Apks
  <2>3. [ticket |-> 0, versions |-> src, lastSync |-> 1] \in Clean!Applications
    BY <2>1, VersionsAre DEF Clean!Applications
  <2>4. stat \in Clean!Versions \cup {None} /\ files \subseteq Clean!CacheFiles /\ syncid \in 0..1
        /\ cleanApk \in Clean!Apks \cup {None} /\ cleanDevice \in Clean!Applications \cup {None}
    BY <2>1, <2>2, <2>3
  <2>5. cache \in [Clean!StatTasks -> Clean!Versions] /\ compiled \in Clean!Versions
    BY VersionsAre
  <2>6. pc \in [Clean!Tasks -> Steps] /\ src \in [Modules -> 0..CleanEdits]
        /\ apktime \in 0..CleanBuilds /\ builds \in 0..CleanBuilds
    BY <2>1, VersionsAre DEF Steps
  <2> QED BY <2>4, <2>5, <2>6 DEF Clean!TypeOK, Steps
<1>3. InOrder /\ Left /\ StatEnds
  BY <1>1, TasksAre, VersionsAre DEF InOrder, Left, StatEnds
<1>4. CleanTickets
  BY <1>2, VersionsAre DEF CleanTickets, Clean!TypeOK
<1>5. Beginning
  BY <1>1 DEF Beginning
<1>6. StatIsTaken /\ StatIsInTime /\ StatIsWhole
  BY <1>1, TasksAre DEF StatIsTaken, StatIsInTime, StatIsWhole
<1> QED BY <1>2, <1>3, <1>4, <1>5, <1>6 DEF CleanInv, Orderly, StatInv

LEMMA CleanEditStep == ASSUME CleanInv, NEW m \in Modules, Clean!Edit(m) PROVE CleanInv'
<1> USE DEF Clean!Edit, Clean!disk
<1>1. src' \in [Modules -> 0..CleanEdits] /\ \A n \in Modules : src[n] <= src'[n]
  <2>1. src[m] + 1 \in 0..CleanEdits
    BY VersionsAre DEF CleanInv, Clean!TypeOK
  <2> QED BY <2>1, VersionsAre DEF CleanInv, Clean!TypeOK
<1>2. Clean!TypeOK'
  BY <1>1 DEF CleanInv, Clean!TypeOK
<1>3. Orderly'
  BY DEF CleanInv, Orderly, InOrder, Left, CleanTickets, Beginning, Clean!Ended, Clean!Parents
<1>4. StatEnds' /\ StatIsWhole'
  BY DEF CleanInv, StatInv, StatEnds, StatIsWhole, OnTime
<1>5. known \subseteq Modules
  BY VersionsAre DEF CleanInv, Clean!TypeOK
<1>6. StatIsTaken'
  <2> SUFFICES ASSUME pc["generate_stat"] \in {"exists", "remove", "open", "dump"}, NEW n \in known
               PROVE  cache["generate_stat"][n] <= src'[n]
    BY DEF CleanInv, StatInv, StatIsTaken
  <2>1. cache["generate_stat"][n] <= src[n] /\ n \in DOMAIN cache["generate_stat"]
    BY DEF CleanInv, StatInv, StatIsTaken
  <2>2. cache["generate_stat"][n] \in Nat /\ src[n] \in Nat /\ src'[n] \in Nat /\ src[n] <= src'[n]
    BY <1>1, <1>5, <2>1, TasksAre, VersionsAre DEF CleanInv, Clean!TypeOK
  <2> QED BY <2>1, <2>2
<1>7. StatIsInTime'
  <2>1. \A n \in known : Limit(n) <= (Limit(n))'
    <3> SUFFICES ASSUME NEW n \in known PROVE Limit(n) <= (Limit(n))'
      OBVIOUS
    <3>1. src[n] <= src'[n] /\ Limit(n) \in Nat
      BY <1>1, <1>5, LimitIsANumber DEF CleanInv, Orderly
    <3>2. (Limit(n))' = Limit(n) \/ (Limit(n) = src[n] /\ (Limit(n))' = src'[n])
      BY DEF Limit
    <3> QED BY <3>1, <3>2
  <2> QED BY <1>2, <1>3, <2>1, StatRests DEF Orderly, OnTime
<1> QED BY <1>2, <1>3, <1>4, <1>6, <1>7 DEF CleanInv, StatInv

LEMMA CompileStep == ASSUME CleanInv, NEW m \in Modules, Clean!Compile(m) PROVE CleanInv'
<1> USE DEF Clean!Compile, Clean!disk
<1>1. DOMAIN compiled' = (DOMAIN compiled) \cup {m}
      /\ \A n \in DOMAIN compiled' : compiled'[n] = (IF n = m THEN src[m] ELSE compiled[n])
  OBVIOUS
<1>2. Clean!TypeOK'
  <2>1. compiled' \in [DOMAIN compiled' -> 0..CleanEdits] /\ DOMAIN compiled' \subseteq Modules
    BY VersionsAre DEF CleanInv, Clean!TypeOK
  <2>2. compiled' \in Clean!Versions
    BY <2>1, VersionsAre
  <2> QED BY <2>2 DEF CleanInv, Clean!TypeOK
<1>3. Orderly'
  BY DEF CleanInv, Orderly, InOrder, Left, CleanTickets, Beginning, Clean!Ended, Clean!Parents
<1>4. StatEnds' /\ StatIsTaken' /\ StatIsWhole'
  BY DEF CleanInv, StatInv, StatEnds, StatIsTaken, StatIsWhole, OnTime
<1>5. StatIsInTime'
  <2>1. \A n \in known : Limit(n) <= (Limit(n))'
    <3> SUFFICES ASSUME NEW n \in known PROVE Limit(n) <= (Limit(n))'
      OBVIOUS
    <3>1. n \in Modules
      BY VersionsAre DEF CleanInv, Clean!TypeOK
    <3>2. Limit(n) \in Nat
      BY <3>1, LimitIsANumber DEF CleanInv, Orderly
    <3>3. (Limit(n))' = Limit(n)
      BY <1>1 DEF Limit
    <3> QED BY <3>2, <3>3
  <2> QED BY <1>2, <1>3, <2>1, StatRests DEF Orderly, OnTime
<1> QED BY <1>2, <1>3, <1>4, <1>5 DEF CleanInv, StatInv

LEMMA StartBuildStep == ASSUME CleanInv, Clean!StartBuild PROVE CleanInv'
<1> USE DEF Clean!StartBuild
<1>1. \A t \in Clean!Tasks : pc'[t] = "waiting"
  OBVIOUS
<1>2. builds \in Nat /\ builds' = builds + 1 /\ builds' \in 0..CleanBuilds /\ builds' > 0
  BY VersionsAre DEF CleanInv, Clean!TypeOK
<1>3. Clean!TypeOK'
  <2>1. cache' \in [Clean!StatTasks -> Clean!Versions] /\ compiled' \in Clean!Versions /\ DOMAIN compiled' = {}
    BY VersionsAre
  <2>2. pc' \in [Clean!Tasks -> Steps]
    BY DEF Steps
  <2> QED BY <1>2, <2>1, <2>2 DEF CleanInv, Clean!TypeOK, Steps
<1>4. InOrder' /\ Left' /\ StatEnds'
  BY <1>1, TasksAre, VersionsAre DEF InOrder, Left, StatEnds
<1>5. CleanTickets'
  <2>1. cleanApk # None => cleanApk.ticket \in Nat /\ cleanApk.ticket <= builds
    BY DEF CleanInv, Orderly, CleanTickets, Clean!TypeOK, Clean!Apks
  <2>2. cleanDevice # None => cleanDevice.ticket \in Nat /\ cleanDevice.ticket <= builds
    BY DEF CleanInv, Orderly, CleanTickets, Clean!TypeOK, Clean!Applications
  <2> QED BY <1>2, <2>1, <2>2 DEF CleanTickets
<1>6. Beginning'
  BY <1>2 DEF Beginning
<1>7. StatIsTaken' /\ StatIsInTime' /\ StatIsWhole'
  BY <1>1, TasksAre DEF StatIsTaken, StatIsInTime, StatIsWhole
<1> QED BY <1>3, <1>4, <1>5, <1>6, <1>7 DEF CleanInv, Orderly, StatInv

LEMMA BuildEndsStep == ASSUME CleanInv, Clean!BuildEnds PROVE CleanInv'
<1> USE DEF Clean!BuildEnds, Clean!disk
<1>1. Clean!TypeOK'
  BY DEF CleanInv, Clean!TypeOK
<1>2. Orderly'
  BY DEF CleanInv, Orderly, InOrder, Left, CleanTickets, Beginning, Clean!Ended, Clean!Parents
<1>3. StatInv'
  BY DEF CleanInv, StatInv, StatEnds, StatIsTaken, StatIsWhole, StatIsInTime, OnTime, InTime, Limit
<1> QED BY <1>1, <1>2, <1>3 DEF CleanInv

\* A build has begun when a task has, or the engine runs.
LEMMA HasBegun ==
  ASSUME CleanInv, phase = "tasks" \/ \E t \in Clean!Tasks : pc[t] # "waiting"
  PROVE  builds > 0 /\ (builds' = builds => Beginning')
<1>1. builds # 0 /\ builds \in Nat
  BY DEF CleanInv, Orderly, Beginning, Clean!TypeOK
<1> QED BY <1>1 DEF Beginning

\* What a failed or skipped task means for the stat.
LEMMA SkipStep == ASSUME CleanInv, NEW t \in Clean!Tasks, Clean!Skip(t) PROVE CleanInv'
<1> USE DEF Clean!Skip, Clean!disk
<1>1. pc'[t] = "failed" /\ \A u \in Clean!Tasks : u # t => pc'[u] = pc[u]
  BY Steps9 DEF CleanInv
<1>2. Clean!TypeOK'
  BY DEF CleanInv, Clean!TypeOK
<1>3. InOrder'
  BY OrderStays DEF CleanInv, Orderly, Ends
<1>4. Left'
  BY <1>1, TasksAre DEF CleanInv, Orderly, Left
<1>5. CleanTickets'
  BY <1>1, TasksAre DEF CleanInv, Orderly, CleanTickets
<1>6. Beginning'
  BY HasBegun
<1>7. StatEnds'
  BY <1>1, TasksAre DEF CleanInv, StatInv, StatEnds
<1>8. StatIsTaken' /\ StatIsWhole'
  BY <1>1, TasksAre DEF CleanInv, StatInv, StatIsTaken, StatIsWhole, OnTime
<1>9. StatIsInTime'
  <2>1. CASE t \in {"generate_stat", "build"}
    BY <1>1, <2>1, TasksAre DEF StatIsInTime, OnTime
  <2>2. CASE t \notin {"generate_stat", "build"}
    <3>1. pc'["generate_stat"] = pc["generate_stat"] /\ pc'["build"] = pc["build"]
          /\ (pc'["append_stat"] = pc["append_stat"] \/ pc'["append_stat"] = "failed")
      BY <1>1, <2>2, TasksAre
    <3> QED BY <3>1 DEF CleanInv, StatInv, StatIsInTime, OnTime, InTime, Limit
  <2> QED BY <2>1, <2>2
<1> QED BY <1>2, <1>3, <1>4, <1>5, <1>6, <1>7, <1>8, <1>9 DEF CleanInv, Orderly, StatInv

LEMMA PassExceptionStep == ASSUME CleanInv, NEW t \in Clean!Tasks, Clean!PassException(t) PROVE CleanInv'
<1> USE DEF Clean!PassException, Clean!disk
<1>1. pc'[t] = "failed" /\ \A u \in Clean!Tasks : u # t => pc'[u] = pc[u]
  BY Steps9 DEF CleanInv
<1>2. Clean!TypeOK'
  BY DEF CleanInv, Clean!TypeOK
<1>3. InOrder'
  <2>1. \A p \in Clean!Parents(t) : Clean!Ended(p)
    BY DEF CleanInv, Orderly, InOrder
  <2> QED BY <2>1, OrderStays DEF CleanInv, Orderly, Ends
<1>4. Left'
  BY <1>1, TasksAre DEF CleanInv, Orderly, Left
<1>5. CleanTickets'
  BY <1>1, TasksAre DEF CleanInv, Orderly, CleanTickets
<1>6. Beginning'
  BY HasBegun
<1>7. StatEnds'
  <2>1. pc["build"] = "waiting" => "build" \in interrupted'
    BY TasksAre DEF Clean!Ended
  <2>2. (pc["build"] = "waiting" <=> pc'["build"] = "waiting") /\ interrupted \subseteq interrupted'
    BY <1>1, TasksAre
  <2>3. StatEnds
    BY DEF CleanInv, StatInv
  <2> QED BY <1>1, <2>1, <2>2, <2>3, TasksAre DEF StatEnds
<1>8. StatIsTaken' /\ StatIsWhole'
  BY <1>1, TasksAre DEF CleanInv, StatInv, StatIsTaken, StatIsWhole, OnTime
<1>9. StatIsInTime'
  <2>1. CASE t \in {"generate_stat", "build"}
    BY <1>1, <2>1, TasksAre DEF StatIsInTime, OnTime
  <2>2. CASE t \notin {"generate_stat", "build"}
    <3>1. pc'["generate_stat"] = pc["generate_stat"] /\ pc'["build"] = pc["build"]
          /\ (pc'["append_stat"] = pc["append_stat"] \/ pc'["append_stat"] = "failed")
      BY <1>1, <2>2, TasksAre
    <3> QED BY <3>1 DEF CleanInv, StatInv, StatIsInTime, OnTime, InTime, Limit
  <2> QED BY <2>1, <2>2
<1> QED BY <1>2, <1>3, <1>4, <1>5, <1>6, <1>7, <1>8, <1>9 DEF CleanInv, Orderly, StatInv

LEMMA ReadProjectInfoStep == ASSUME CleanInv, Clean!ReadProjectInfo PROVE CleanInv'
<1> USE DEF Clean!ReadProjectInfo
<1>1. PICK step \in {"raised", "done"} :
        /\ pc' = [pc EXCEPT !["read_project_info"] = step] /\ UNCHANGED interrupted
        /\ IF step = "done" THEN config' = Modules ELSE UNCHANGED config
  BY DEF Clean!Raises, Clean!Returns
<1>2. pc'["read_project_info"] = step /\ \A u \in Clean!Tasks : u # "read_project_info" => pc'[u] = pc[u]
  BY <1>1, Steps9, TasksAre DEF CleanInv
<1>3. Clean!TypeOK'
  BY <1>1 DEF CleanInv, Clean!TypeOK
<1>4. InOrder'
  BY <1>1, OrderStays, TasksAre DEF CleanInv, Orderly, Ends, Clean!Starts
<1>5. Left'
  BY <1>1, <1>2, TasksAre DEF CleanInv, Orderly, Left
<1>6. CleanTickets'
  BY <1>2, TasksAre DEF CleanInv, Orderly, CleanTickets
<1>7. Beginning'
  BY HasBegun DEF Clean!Starts
<1>8. StatEnds' /\ StatIsTaken'
  BY <1>1, <1>2, TasksAre DEF CleanInv, StatInv, StatEnds, StatIsTaken
<1>9. pc["read_project_info"] = "waiting" /\ pc["build"] = "waiting" /\ pc["append_stat"] = "waiting"
  <2>1. pc["read_project_info"] = "waiting"
    BY DEF Clean!Starts
  <2>2. pc["build"] = "waiting"
    BY <2>1, TasksAre, ParentsAre DEF CleanInv, Orderly, InOrder, Clean!Ended
  <2>3. pc["clean_all_cache"] = "waiting"
    BY <2>2, TasksAre, ParentsAre DEF CleanInv, Orderly, InOrder, Clean!Ended
  <2> QED BY <2>1, <2>2, <2>3, TasksAre, ParentsAre DEF CleanInv, Orderly, InOrder, Clean!Ended
<1>10. StatIsWhole'
  BY <1>2, <1>9, TasksAre DEF StatIsWhole
<1>11. StatIsInTime'
  BY <1>2, TasksAre DEF CleanInv, StatInv, StatIsInTime, OnTime, InTime, Limit
<1> QED BY <1>3, <1>4, <1>5, <1>6, <1>7, <1>8, <1>10, <1>11 DEF CleanInv, Orderly, StatInv

LEMMA GradleBeginsStep == ASSUME CleanInv, Clean!GradleBegins PROVE CleanInv'
<1> USE DEF Clean!GradleBegins, Clean!GoesTo, Clean!disk
<1>1. pc'["build"] = "begun" /\ \A u \in Clean!Tasks : u # "build" => pc'[u] = pc[u]
  BY Steps9, TasksAre DEF CleanInv
<1>2. pc["build"] = "waiting" /\ "build" \notin interrupted
  BY DEF Clean!Starts
<1>3. Clean!TypeOK'
  BY DEF CleanInv, Clean!TypeOK
<1>4. InOrder'
  BY OrderStays, TasksAre DEF CleanInv, Orderly, Ends, Clean!Starts, Clean!Ended
<1>5. Left' /\ CleanTickets'
  BY <1>1, <1>2, TasksAre DEF CleanInv, Orderly, Left, CleanTickets
<1>6. Beginning'
  BY HasBegun DEF Clean!Starts
<1>7. ~late' => pc["generate_stat"] = "done"
  BY <1>2, TasksAre DEF CleanInv, StatInv, StatEnds, Clean!Ended
<1>8. StatEnds' /\ StatIsTaken'
  BY <1>1, <1>2, <1>7, TasksAre DEF CleanInv, StatInv, StatEnds, StatIsTaken
<1>9. pc["append_stat"] = "waiting"
  <2>1. pc["clean_all_cache"] = "waiting"
    BY <1>2, TasksAre, ParentsAre DEF CleanInv, Orderly, InOrder, Clean!Ended
  <2> QED BY <2>1, TasksAre, ParentsAre DEF CleanInv, Orderly, InOrder, Clean!Ended
<1>10. StatIsWhole'
  BY <1>1, <1>9, TasksAre DEF StatIsWhole
<1>11. StatIsInTime'
  <2>1. OnTime /\ DOMAIN compiled = {}
    BY <1>2 DEF CleanInv, StatInv, StatEnds, OnTime
  <2> QED BY <1>1, <1>2, <2>1, TasksAre DEF CleanInv, StatInv, StatIsInTime, InTime, Limit
<1> QED BY <1>3, <1>4, <1>5, <1>6, <1>8, <1>10, <1>11 DEF CleanInv, Orderly, StatInv

LEMMA GradleEndsStep == ASSUME CleanInv, Clean!GradleEnds PROVE CleanInv'
<1> USE DEF Clean!GradleEnds
<1>1. PICK step \in {"raised", "done"} :
        /\ pc' = [pc EXCEPT !["build"] = step] /\ UNCHANGED interrupted
        /\ IF step = "done" THEN DOMAIN compiled = Modules /\ cleanApk' = [ticket |-> apktime, versions |-> compiled]
           ELSE UNCHANGED cleanApk
  BY DEF Clean!Raises, Clean!Returns
<1>2. pc'["build"] = step /\ \A u \in Clean!Tasks : u # "build" => pc'[u] = pc[u]
  BY <1>1, Steps9, TasksAre DEF CleanInv
<1>3. step = "done" => cleanApk' \in Clean!Apks /\ cleanApk' # None
                       /\ cleanApk'.ticket = builds /\ cleanApk'.versions = compiled
  BY <1>1, VersionsAre DEF CleanInv, Orderly, CleanTickets, Clean!TypeOK, Clean!Apks
<1>4. Clean!TypeOK'
  BY <1>1, <1>3, VersionsAre DEF CleanInv, Clean!TypeOK
<1>5. \A p \in Clean!Parents("build") : Clean!Ended(p)
  BY TasksAre DEF CleanInv, Orderly, InOrder
<1>6. InOrder'
  BY <1>1, <1>5, OrderStays, TasksAre DEF CleanInv, Orderly, Ends
<1>7. pc["clean_all_cache"] = "waiting" /\ pc["install"] = "waiting" /\ pc["append_stat"] = "waiting"
  <2>1. pc["clean_all_cache"] = "waiting" /\ pc["install"] = "waiting"
    BY TasksAre, ParentsAre DEF CleanInv, Orderly, InOrder, Clean!Ended
  <2> QED BY <2>1, TasksAre, ParentsAre DEF CleanInv, Orderly, InOrder, Clean!Ended
<1>8. Left'
  BY <1>1, <1>2, <1>3, <1>7, TasksAre DEF CleanInv, Orderly, Left
<1>9. CleanTickets'
  <2>1. builds > 0
    BY HasBegun, TasksAre
  <2>2. builds \in Nat
    BY DEF CleanInv, Clean!TypeOK
  <2>3. step = "raised" => UNCHANGED cleanApk
    BY <1>1
  <2> QED BY <1>2, <1>3, <2>1, <2>2, <2>3, TasksAre DEF CleanInv, Orderly, CleanTickets
<1>10. Beginning'
  BY HasBegun, TasksAre
<1>11. StatEnds' /\ StatIsTaken'
  BY <1>1, <1>2, TasksAre DEF CleanInv, StatInv, StatEnds, StatIsTaken
<1>12. StatIsWhole'
  BY <1>2, <1>7, TasksAre DEF StatIsWhole
<1>13. StatIsInTime'
  <2> SUFFICES ASSUME step = "done", ~late PROVE StatIsInTime'
    BY <1>2 DEF StatIsInTime, OnTime
  <2>1. DOMAIN compiled = Modules /\ known \subseteq Modules
    BY <1>1, VersionsAre DEF CleanInv, Clean!TypeOK
  <2>2. \A m \in known : (Limit(m))' = Limit(m)
    BY <1>2, <1>3, <2>1 DEF Limit
  <2>3. \A f : InTime(f) => (InTime(f))'
    BY <2>2 DEF InTime
  <2> QED BY <1>2, <2>3, TasksAre DEF CleanInv, StatInv, StatIsInTime, OnTime
<1> QED BY <1>4, <1>6, <1>8, <1>9, <1>10, <1>11, <1>12, <1>13 DEF CleanInv, Orderly, StatInv

\* The other tasks, which have nothing to do with versions or the stat.
LEMMA OtherTask ==
  ASSUME CleanInv, NEW t \in Clean!Tasks \ (Clean!StatTasks \cup {"read_project_info", "build"}),
         NEW step \in Ends, pc' = [pc EXCEPT ![t] = step], Clean!Starts(t),
         UNCHANGED <<src, config, stat, apktime, cleanApk, known, builds, phase, cache, compiled,
                     interrupted, late>>
  PROVE  InOrder' /\ Beginning' /\ StatInv'
<1>1. /\ pc'["generate_stat"] = pc["generate_stat"] /\ pc'["append_stat"] = pc["append_stat"]
      /\ pc'["build"] = pc["build"] /\ pc'["read_project_info"] = pc["read_project_info"]
  BY Steps9, TasksAre DEF CleanInv
<1>2. InOrder'
  BY OrderStays DEF CleanInv, Orderly, Ends, Clean!Starts
<1>3. Beginning'
  BY HasBegun DEF Clean!Starts
<1>4. StatInv'
  BY <1>1 DEF CleanInv, StatInv, StatEnds, StatIsTaken, StatIsInTime, StatIsWhole, OnTime, InTime, Limit
<1> QED BY <1>2, <1>3, <1>4

LEMMA CleanAllCacheStep == ASSUME CleanInv, Clean!CleanAllCache PROVE CleanInv'
<1> USE DEF Clean!CleanAllCache, Clean!Returns
<1>1. pc'["clean_all_cache"] = "done" /\ \A u \in Clean!Tasks : u # "clean_all_cache" => pc'[u] = pc[u]
  BY Steps9, TasksAre DEF CleanInv
<1>2. InOrder' /\ Beginning' /\ StatInv'
  BY OtherTask, TasksAre DEF Ends
<1>3. Clean!TypeOK'
  <2>1. pc' \in [Clean!Tasks -> Steps]
    BY DEF CleanInv, Clean!TypeOK, Steps
  <2>2. files' \subseteq Clean!CacheFiles
    BY DEF CleanInv, Clean!TypeOK
  <2>3. syncid' \in 0..1
    OBVIOUS
  <2> QED BY <2>1, <2>2, <2>3 DEF CleanInv, Clean!TypeOK, Steps
<1>4. pc["build_base_resource"] = "waiting" /\ pc["generate_project_info"] = "waiting"
  BY TasksAre, ParentsAre DEF CleanInv, Orderly, InOrder, Clean!Ended, Clean!Starts
<1>5. Left' /\ CleanTickets'
  BY <1>1, <1>4, TasksAre DEF CleanInv, Orderly, Left, CleanTickets
<1> QED BY <1>2, <1>3, <1>5 DEF CleanInv, Orderly

LEMMA InstallApkStep == ASSUME CleanInv, Clean!InstallApk PROVE CleanInv'
<1> USE DEF Clean!InstallApk, Clean!disk
<1>1. PICK step \in {"raised", "done"} :
        /\ pc' = [pc EXCEPT !["install"] = step] /\ UNCHANGED interrupted
        /\ \/ UNCHANGED cleanDevice
           \/ /\ cleanApk # None
              /\ cleanDevice' = [ticket |-> cleanApk.ticket, versions |-> cleanApk.versions, lastSync |-> 0]
  BY DEF Clean!Raises, Clean!Returns, Clean!Installed
<1>2. pc'["install"] = step /\ \A u \in Clean!Tasks : u # "install" => pc'[u] = pc[u]
  BY <1>1, Steps9, TasksAre DEF CleanInv
<1>3. InOrder' /\ Beginning' /\ StatInv'
  BY <1>1, OtherTask, TasksAre DEF Ends
<1>4. \/ UNCHANGED cleanDevice
      \/ /\ cleanApk # None /\ cleanDevice' \in Clean!Applications /\ cleanDevice' # None
         /\ cleanDevice'.ticket = cleanApk.ticket /\ cleanDevice'.versions = cleanApk.versions
         /\ cleanDevice'.lastSync = 0
  BY <1>1, VersionsAre DEF CleanInv, Clean!TypeOK, Clean!Apks, Clean!Applications
<1>5. Clean!TypeOK'
  BY <1>1, <1>4 DEF CleanInv, Clean!TypeOK
<1>7. Left'
  BY <1>2, TasksAre DEF CleanInv, Orderly, Left
<1>8. CleanTickets'
  BY <1>2, <1>4, TasksAre DEF CleanInv, Orderly, CleanTickets
<1> QED BY <1>3, <1>5, <1>7, <1>8 DEF CleanInv, Orderly

LEMMA BuildBaseResourceStep == ASSUME CleanInv, Clean!BuildBaseResource PROVE CleanInv'
<1> USE DEF Clean!BuildBaseResource
<1>1. PICK step \in {"raised", "done"} :
        /\ pc' = [pc EXCEPT !["build_base_resource"] = step] /\ UNCHANGED interrupted
        /\ files' = files \cup (IF step = "done" THEN {"base_res"} ELSE {})
  BY DEF Clean!Raises, Clean!Returns
<1>2. pc'["build_base_resource"] = step /\ \A u \in Clean!Tasks : u # "build_base_resource" => pc'[u] = pc[u]
  BY <1>1, Steps9, TasksAre DEF CleanInv
<1>3. InOrder' /\ Beginning' /\ StatInv'
  BY <1>1, OtherTask, TasksAre DEF Ends
<1>4. Clean!TypeOK'
  BY <1>1 DEF CleanInv, Clean!TypeOK, Clean!CacheFiles
<1>5. Left' /\ CleanTickets'
  BY <1>1, <1>2, TasksAre DEF CleanInv, Orderly, Left, CleanTickets
<1> QED BY <1>3, <1>4, <1>5 DEF CleanInv, Orderly

LEMMA GenerateInfoAndAptStep == ASSUME CleanInv, Clean!GenerateInfoAndApt PROVE CleanInv'
<1> USE DEF Clean!GenerateInfoAndApt
<1>1. /\ pc'["generate_project_info"] = "done" /\ pc'["generate_apt"] = "done"
      /\ \A u \in Clean!Tasks \ {"generate_project_info", "generate_apt"} : pc'[u] = pc[u]
  BY TasksAre DEF CleanInv, Clean!TypeOK
<1>2. files' = files \cup {"project_info", "apt_stat"}
  BY DEF Clean!GenerateAptFilesStat, Clean!GenerateProjectInfo
<1>3. Clean!Starts("generate_project_info") /\ Clean!Starts("generate_apt")
  OBVIOUS
<1>4. Clean!TypeOK'
  <2>1. pc' \in [Clean!Tasks -> Steps] /\ files' \subseteq Clean!CacheFiles
    BY <1>2, TasksAre DEF CleanInv, Clean!TypeOK, Steps, Clean!CacheFiles
  <2> QED BY <2>1 DEF CleanInv, Clean!TypeOK, Steps
<1>5. InOrder'
  <2>1. \A u \in Clean!Tasks : Clean!Ended(u) => (Clean!Ended(u))'
    BY <1>1, <1>3 DEF Clean!Ended, Clean!Starts
  <2>2. ASSUME NEW u \in Clean!Tasks, pc'[u] # "waiting", NEW p \in Clean!Parents(u) PROVE (Clean!Ended(p))'
    <3>1. p \in Clean!Tasks /\ Clean!Ended(p)
      BY <1>1, <1>3, <2>2, ParentsAre DEF CleanInv, Orderly, InOrder, Clean!Starts
    <3> QED BY <2>1, <3>1
  <2>3. \A u \in Clean!Tasks : (pc'[u] = "begun" => u = "build")
                               /\ (pc'[u] \in {"exists", "remove", "open", "dump", "md5"} => u \in Clean!StatTasks)
    BY <1>1 DEF CleanInv, Orderly, InOrder
  <2>4. \A u : (Clean!Parents(u))' = Clean!Parents(u)
    BY DEF Clean!Parents
  <2> QED BY <2>2, <2>3, <2>4 DEF InOrder
<1>6. Left' /\ CleanTickets'
  BY <1>1, <1>2, TasksAre DEF CleanInv, Orderly, Left, CleanTickets
<1>7. Beginning'
  BY HasBegun DEF Clean!Starts
<1>8. StatInv'
  <2>1. /\ pc'["generate_stat"] = pc["generate_stat"] /\ pc'["append_stat"] = pc["append_stat"]
        /\ pc'["build"] = pc["build"] /\ pc'["read_project_info"] = pc["read_project_info"]
    BY <1>1, TasksAre
  <2> QED BY <2>1 DEF CleanInv, StatInv, StatEnds, StatIsTaken, StatIsInTime, StatIsWhole, OnTime, InTime, Limit
<1> QED BY <1>4, <1>5, <1>6, <1>7, <1>8 DEF CleanInv, Orderly

-----------------------------------------------------------------------------
(* The two stat tasks *)

\* What their steps do not touch.
LEMMA StatTask ==
  ASSUME CleanInv, NEW t \in Clean!StatTasks, NEW step \in Steps \ {"waiting", "begun"},
         pc' = [pc EXCEPT ![t] = step], Clean!Starts(t) \/ pc[t] \in {"exists", "remove", "open", "dump", "md5"},
         step = "done" => "md5" \in files', files \subseteq files', files' \subseteq Clean!CacheFiles,
         stat' \in Clean!Versions \cup {None}, cache' \in [Clean!StatTasks -> Clean!Versions],
         UNCHANGED <<src, config, syncid, apktime, cleanApk, cleanDevice, known, builds, phase, compiled,
                     interrupted, late>>
  PROVE  Clean!TypeOK' /\ Orderly' /\ pc'[t] = step /\ \A u \in Clean!Tasks : u # t => pc'[u] = pc[u]
<1>1. t \in Clean!Tasks /\ pc'[t] = step /\ \A u \in Clean!Tasks : u # t => pc'[u] = pc[u]
  BY Steps9, TasksAre DEF CleanInv
<1>2. Clean!TypeOK'
  BY DEF CleanInv, Clean!TypeOK, Steps
<1>3. InOrder'
  <2>1. \A p \in Clean!Parents(t) : Clean!Ended(p)
    BY <1>1 DEF CleanInv, Orderly, InOrder, Clean!Starts
  <2>2. ~Clean!Ended(t)
    BY DEF Clean!Ended, Clean!Starts
  <2> QED BY <1>1, <2>1, <2>2, OrderStays DEF CleanInv, Orderly
<1>4. Left'
  BY <1>1, TasksAre DEF CleanInv, Orderly, Left
<1>5. CleanTickets'
  BY <1>1, TasksAre DEF CleanInv, Orderly, CleanTickets
<1>6. Beginning'
  BY <1>1, HasBegun DEF Clean!Starts
<1> QED BY <1>1, <1>2, <1>3, <1>4, <1>5, <1>6 DEF Orderly

\* Where the tasks stand: generate_stat still at work means that gradle has not begun or was early.
LEMMA StatBeforeGradle ==
  ASSUME CleanInv, pc["generate_stat"] # "done", OnTime
  PROVE  pc["build"] = "waiting" /\ pc["append_stat"] = "waiting"
<1>1. pc["build"] = "waiting"
  BY DEF OnTime, CleanInv, StatInv, StatEnds
<1>2. pc["clean_all_cache"] = "waiting"
  BY <1>1, TasksAre, ParentsAre DEF CleanInv, Orderly, InOrder, Clean!Ended
<1>3. pc["append_stat"] = "waiting"
  BY <1>2, TasksAre, ParentsAre DEF CleanInv, Orderly, InOrder, Clean!Ended
<1> QED BY <1>1, <1>3

\* The other way round, append_stat has begun only after gradle.
LEMMA AppendAfterGradle ==
  ASSUME CleanInv, Clean!Starts("append_stat") \/ pc["append_stat"] # "waiting"
  PROVE  pc["build"] \notin {"waiting", "begun"} /\ (OnTime => pc["generate_stat"] = "done")
<1>1. Clean!Ended("clean_all_cache")
  BY TasksAre, ParentsAre DEF CleanInv, Orderly, InOrder, Clean!Starts
<1>2. Clean!Ended("build")
  BY <1>1, TasksAre, ParentsAre DEF CleanInv, Orderly, InOrder, Clean!Ended
<1> QED BY <1>2 DEF Clean!Ended, OnTime, CleanInv, StatInv, StatEnds

LEMMA StatAndLimit ==
  ASSUME CleanInv
  PROVE  /\ known \subseteq Modules /\ (stat # None => stat \in Clean!Versions)
         /\ cache["generate_stat"] \in Clean!Versions /\ cache["append_stat"] \in Clean!Versions
BY VersionsAre, TasksAre DEF CleanInv, Clean!TypeOK

\* generate_stat goes on without having written the stat: only what it holds changes.
LEMMA GeneratesStat ==
  ASSUME CleanInv, NEW step \in {"exists", "remove", "open", "dump"},
         pc' = [pc EXCEPT !["generate_stat"] = step],
         Clean!Starts("generate_stat") \/ pc["generate_stat"] \in {"exists", "remove", "open", "dump"},
         stat' \in Clean!Versions \cup {None}, cache' \in [Clean!StatTasks -> Clean!Versions],
         DOMAIN cache'["generate_stat"] = known, \A m \in known : cache'["generate_stat"][m] <= src[m],
         step = "remove" => stat' # None \/ pc["append_stat"] # "waiting",
         UNCHANGED <<src, config, files, syncid, apktime, cleanApk, cleanDevice, known, builds, phase,
                     compiled, interrupted, late>>
  PROVE  CleanInv'
<1>1. Clean!TypeOK' /\ Orderly' /\ pc'["generate_stat"] = step
      /\ \A u \in Clean!Tasks : u # "generate_stat" => pc'[u] = pc[u]
  BY StatTask, TasksAre DEF Steps, CleanInv, Clean!TypeOK
<1>2. StatIsTaken' /\ StatIsInTime' /\ StatIsWhole'
  BY <1>1 DEF StatIsTaken, StatIsInTime, StatIsWhole
<1>3. StatEnds'
  BY <1>1, TasksAre DEF CleanInv, StatInv, StatEnds, Clean!Starts
<1> QED BY <1>1, <1>2, <1>3 DEF CleanInv, StatInv

\* append_stat goes on when gradle is done: what it holds, and what is on the disk, is taken
\* in time and whole if what was there before is.
LEMMA AppendsStat ==
  ASSUME CleanInv, NEW step \in {"exists", "remove", "open", "dump", "md5", "done", "raised"},
         pc' = [pc EXCEPT !["append_stat"] = step],
         Clean!Starts("append_stat") \/ pc["append_stat"] \in {"exists", "remove", "open", "dump", "md5"},
         step = "done" => "md5" \in files', files \subseteq files', files' \subseteq Clean!CacheFiles,
         stat' \in Clean!Versions \cup {None}, cache' \in [Clean!StatTasks -> Clean!Versions],
         cache'["generate_stat"] = cache["generate_stat"],
         pc["generate_stat"] = "done" /\ OnTime =>
           /\ step \in {"exists", "remove", "open", "dump"} => InTime(cache'["append_stat"])
           /\ step \in {"exists", "md5", "done"} => stat' # None
           /\ stat' \notin {None, <<>>} => InTime(stat')
           /\ pc["read_project_info"] = "done" =>
                /\ step \in {"exists", "remove", "open", "dump"} => DOMAIN cache'["append_stat"] = Modules
                /\ step \in {"md5", "done"} => DOMAIN stat' = Modules,
         UNCHANGED <<src, config, syncid, apktime, cleanApk, cleanDevice, known, builds, phase,
                     compiled, interrupted, late>>
  PROVE  CleanInv'
<1>1. Clean!TypeOK' /\ Orderly' /\ pc'["append_stat"] = step
      /\ \A u \in Clean!Tasks : u # "append_stat" => pc'[u] = pc[u]
  BY StatTask, TasksAre DEF Steps
<1>2. /\ pc'["generate_stat"] = pc["generate_stat"] /\ pc'["build"] = pc["build"]
      /\ pc'["read_project_info"] = pc["read_project_info"]
  BY <1>1, TasksAre
<1>3. StatEnds' /\ StatIsTaken'
  BY <1>1, <1>2, AppendAfterGradle DEF CleanInv, StatInv, StatEnds, StatIsTaken
<1>4. \A f : InTime(f) => (InTime(f))'
  BY <1>2 DEF InTime, Limit
<1>5. OnTime' = OnTime
  BY <1>2 DEF OnTime
<1>6. OnTime => pc["generate_stat"] = "done"
  BY AppendAfterGradle
<1>7. StatIsInTime'
  <2>1. InTime(stat') => (InTime(stat))'
    BY <1>2 DEF InTime, Limit
  <2>2. InTime(cache'["append_stat"]) => (InTime(cache["append_stat"]))'
    BY <1>2 DEF InTime, Limit
  <2> QED BY <1>1, <1>2, <1>5, <1>6, <2>1, <2>2 DEF StatIsInTime
<1>8. StatIsWhole'
  BY <1>1, <1>2, <1>5 DEF StatIsWhole
<1> QED BY <1>1, <1>3, <1>7, <1>8 DEF CleanInv, StatInv

\* What is recorded of modules, in a cache that may hold others.
LEMMA RecordsVersions ==
  ASSUME CleanInv, NEW old \in Clean!Versions, NEW new \in SUBSET Modules,
         NEW f, f = [m \in (DOMAIN old) \cup new |-> IF m \in new THEN src[m] ELSE old[m]]
  PROVE  f \in Clean!Versions /\ DOMAIN f = (DOMAIN old) \cup new
         /\ \A m \in DOMAIN f : f[m] = (IF m \in new THEN src[m] ELSE old[m])
<1>1. (DOMAIN old) \cup new \in SUBSET Modules /\ \A m \in DOMAIN old : old[m] \in 0..CleanEdits
  BY VersionsAre
<1>2. \A m \in Modules : src[m] \in 0..CleanEdits
  BY DEF CleanInv, Clean!TypeOK
<1>3. f \in [(DOMAIN old) \cup new -> 0..CleanEdits]
  BY <1>1, <1>2
<1> QED BY <1>1, <1>3, VersionsAre

LEMMA FillGenerateStat == ASSUME CleanInv, Clean!FillStat("generate_stat") PROVE CleanInv'
<1>1. /\ Clean!Starts("generate_stat") /\ Clean!GoesTo("generate_stat", "exists")
      /\ cache' = [cache EXCEPT !["generate_stat"] =
           [m \in (DOMAIN <<>>) \cup known |-> IF m \in known THEN src[m] ELSE <<>>[m]]]
      /\ UNCHANGED <<src, config, stat, files, syncid, apktime, cleanApk, cleanDevice, known, builds, phase,
                     compiled, late>>
  BY DEF Clean!FillStat, Clean!disk
<1> DEFINE f == [m \in (DOMAIN <<>>) \cup known |-> IF m \in known THEN src[m] ELSE <<>>[m]]
<1>2. f \in Clean!Versions /\ DOMAIN f = known /\ \A m \in known : f[m] = src[m]
  <2>1. known \in SUBSET Modules /\ <<>> \in Clean!Versions /\ DOMAIN <<>> = {}
    BY StatAndLimit, VersionsAre
  <2> QED BY <2>1, RecordsVersions
<1> HIDE DEF f
<1>3. cache' \in [Clean!StatTasks -> Clean!Versions] /\ cache'["generate_stat"] = f
  BY <1>1, <1>2, TasksAre DEF CleanInv, Clean!TypeOK, f
<1>4. \A m \in known : f[m] <= src[m]
  BY <1>2, StatAndLimit, VersionsAre DEF CleanInv, Clean!TypeOK
<1>5. stat' \in Clean!Versions \cup {None}
  BY <1>1 DEF CleanInv, Clean!TypeOK
<1> QED BY <1>1, <1>2, <1>3, <1>4, <1>5, GeneratesStat DEF Clean!GoesTo

LEMMA FillAppendStat == ASSUME CleanInv, Clean!FillStat("append_stat") PROVE CleanInv'
<1> DEFINE old == IF stat # None THEN stat ELSE <<>>
           new == config \ DOMAIN old
           f == [m \in (DOMAIN old) \cup new |-> IF m \in new THEN src[m] ELSE old[m]]
<1>1. /\ Clean!Starts("append_stat")
      /\ IF stat # None /\ new = {} THEN Clean!GoesTo("append_stat", "md5") /\ UNCHANGED cache
         ELSE Clean!GoesTo("append_stat", "exists") /\ cache' = [cache EXCEPT !["append_stat"] = f]
      /\ UNCHANGED <<src, config, stat, files, syncid, apktime, cleanApk, cleanDevice, known, builds, phase,
                     compiled, late>>
  BY DEF Clean!FillStat, Clean!disk
<1>2. old \in Clean!Versions /\ new \in SUBSET Modules /\ DOMAIN old \subseteq Modules
  BY StatAndLimit, VersionsAre DEF CleanInv, Clean!TypeOK
<1>3. f \in Clean!Versions /\ DOMAIN f = (DOMAIN old) \cup new
      /\ \A m \in DOMAIN f : f[m] = (IF m \in new THEN src[m] ELSE old[m])
  <2> HIDE DEF old, new
  <2> QED BY <1>2, RecordsVersions
<1>4. ASSUME pc["generate_stat"] = "done", OnTime PROVE stat # None /\ old = stat /\ InTime(stat) /\ InTime(f)
  <2>1. stat # None /\ InTime(stat)
    BY <1>1, <1>4 DEF CleanInv, StatInv, StatIsInTime, Clean!Starts
  <2>2. old = stat
    BY <2>1
  <2>3. known \subseteq DOMAIN f /\ \A m \in known : f[m] = stat[m]
    BY <1>3, <2>1, <2>2 DEF InTime
  <2> QED BY <2>1, <2>2, <2>3 DEF InTime
<1>5. pc["read_project_info"] = "done" => (DOMAIN old) \cup new = Modules
  BY <1>2 DEF CleanInv, Orderly, Left
<1>6. stat' \in Clean!Versions \cup {None} /\ files \subseteq Clean!CacheFiles
  BY <1>1 DEF CleanInv, Clean!TypeOK
<1> HIDE DEF f
<1>7. CASE stat # None /\ new = {}
  <2>1. pc["generate_stat"] = "done" /\ OnTime /\ pc["read_project_info"] = "done" => DOMAIN stat' = Modules
    BY <1>1, <1>4, <1>5, <1>7
  <2>2. cache' \in [Clean!StatTasks -> Clean!Versions]
    BY <1>1, <1>7 DEF CleanInv, Clean!TypeOK
  <2> HIDE DEF old, new
  <2> QED BY <1>1, <1>4, <1>6, <1>7, <2>1, <2>2, AppendsStat DEF Clean!GoesTo
<1>8. CASE ~(stat # None /\ new = {})
  <2>1. cache' \in [Clean!StatTasks -> Clean!Versions] /\ cache'["append_stat"] = f
        /\ cache'["generate_stat"] = cache["generate_stat"]
    BY <1>1, <1>3, <1>8, TasksAre DEF CleanInv, Clean!TypeOK
  <2>2. pc["read_project_info"] = "done" => DOMAIN f = Modules
    BY <1>3, <1>5
  <2> HIDE DEF old, new
  <2> QED BY <1>1, <1>4, <1>6, <1>8, <2>1, <2>2, AppendsStat DEF Clean!GoesTo
<1> QED BY <1>7, <1>8

\* _save_cache by generate_stat: the cache file goes, opens, and has what the task holds.
LEMMA SaveGenerateStat ==
  ASSUME CleanInv,
         \/ Clean!SaveChecks("generate_stat") \/ Clean!SaveRemoves("generate_stat")
         \/ Clean!SaveOpens("generate_stat") \/ Clean!SaveDumps("generate_stat") \/ Clean!SaveMd5("generate_stat")
  PROVE  CleanInv'
<1> DEFINE f == cache["generate_stat"]
<1>1. pc["generate_stat"] \in {"exists", "remove", "open", "dump"} =>
        DOMAIN f = known /\ \A m \in known : f[m] <= src[m]
  BY DEF CleanInv, StatInv, StatIsTaken
<1>2. f \in Clean!Versions /\ <<>> \in Clean!Versions /\ cache \in [Clean!StatTasks -> Clean!Versions]
      /\ stat \in Clean!Versions \cup {None} /\ files \subseteq Clean!CacheFiles
  BY StatAndLimit, VersionsAre DEF CleanInv, Clean!TypeOK
<1>3. CASE Clean!SaveChecks("generate_stat")
  BY <1>1, <1>2, <1>3, GeneratesStat DEF Clean!SaveChecks, Clean!GoesTo, Clean!disk
<1>4. CASE Clean!SaveRemoves("generate_stat") /\ stat # None
  BY <1>1, <1>2, <1>4, GeneratesStat DEF Clean!SaveRemoves, Clean!GoesTo
<1>5. CASE Clean!SaveOpens("generate_stat")
  <2> USE <1>5 DEF Clean!SaveOpens, Clean!GoesTo
  <2>1. stat' \in Clean!Versions \cup {None}
    BY <1>2
  <2> QED BY <1>1, <1>2, <2>1, GeneratesStat
<1>6. CASE Clean!SaveRemoves("generate_stat") /\ stat = None
  <2>1. Clean!TypeOK' /\ Orderly' /\ pc'["generate_stat"] = "raised"
        /\ \A u \in Clean!Tasks : u # "generate_stat" => pc'[u] = pc[u]
    BY <1>2, <1>6, StatTask, TasksAre DEF Clean!SaveRemoves, Clean!Raises, Steps
  <2>2. pc["build"] # "waiting"
    BY <1>6, AppendAfterGradle DEF Clean!SaveRemoves, CleanInv, StatInv, StatEnds
  <2>3. StatEnds'
    BY <1>6, <2>1, <2>2, TasksAre DEF Clean!SaveRemoves, Clean!Raises, CleanInv, StatInv, StatEnds
  <2>4. StatIsTaken' /\ StatIsInTime' /\ StatIsWhole'
    BY <2>1 DEF StatIsTaken, StatIsInTime, StatIsWhole
  <2> QED BY <2>1, <2>3, <2>4 DEF CleanInv, StatInv
<1>7. CASE Clean!SaveDumps("generate_stat")
  <2> USE <1>7 DEF Clean!SaveDumps, Clean!GoesTo
  <2>1. cache' \in [Clean!StatTasks -> Clean!Versions]
    BY <1>2, TasksAre
  <2>2. Clean!TypeOK' /\ Orderly' /\ pc'["generate_stat"] = "md5"
        /\ \A u \in Clean!Tasks : u # "generate_stat" => pc'[u] = pc[u]
    BY <1>2, <2>1, StatTask, TasksAre DEF Steps
  <2>3. StatEnds' /\ StatIsTaken' /\ StatIsWhole'
    BY <2>2, TasksAre DEF CleanInv, StatInv, StatEnds, StatIsTaken, StatIsWhole
  <2>4. StatIsInTime'
    <3> SUFFICES ASSUME OnTime' PROVE StatIsInTime'
      BY DEF StatIsInTime
    <3>1. pc["build"] = "waiting" /\ pc["append_stat"] = "waiting"
      BY <2>2, StatBeforeGradle, TasksAre DEF OnTime
    <3>2. pc'["build"] = "waiting" /\ pc'["append_stat"] = "waiting"
      BY <2>2, <3>1, TasksAre
    <3>3. stat' = f /\ f # None /\ DOMAIN f = known /\ \A m \in known : f[m] <= src'[m]
      BY <1>1, <1>2, VersionsAre
    <3>4. (InTime(stat))'
      BY <3>2, <3>3 DEF InTime, Limit
    <3> QED BY <3>2, <3>3, <3>4 DEF StatIsInTime
  <2> QED BY <2>2, <2>3, <2>4 DEF CleanInv, StatInv
<1>8. CASE Clean!SaveMd5("generate_stat")
  <2> USE <1>8 DEF Clean!SaveMd5, Clean!Returns
  <2>1. Clean!TypeOK' /\ Orderly' /\ pc'["generate_stat"] = "done"
        /\ \A u \in Clean!Tasks : u # "generate_stat" => pc'[u] = pc[u]
    BY <1>2, StatTask, TasksAre DEF Steps, Clean!CacheFiles
  <2>2. StatEnds' /\ StatIsTaken'
    BY <2>1, TasksAre DEF CleanInv, StatInv, StatEnds, StatIsTaken
  <2>3. StatIsInTime'
    BY <2>1, TasksAre DEF CleanInv, StatInv, StatIsInTime, OnTime, InTime, Limit
  <2>4. StatIsWhole'
    <3> SUFFICES ASSUME OnTime' PROVE pc'["append_stat"] = "waiting"
      BY DEF StatIsWhole
    <3>1. OnTime /\ pc["generate_stat"] # "done"
      BY <2>1, TasksAre DEF OnTime
    <3> QED BY <2>1, <3>1, StatBeforeGradle, TasksAre
  <2> QED BY <2>1, <2>2, <2>3, <2>4 DEF CleanInv, StatInv
<1> QED BY <1>3, <1>4, <1>5, <1>6, <1>7, <1>8

\* _save_cache by append_stat.
LEMMA SaveAppendStat ==
  ASSUME CleanInv,
         \/ Clean!SaveChecks("append_stat") \/ Clean!SaveRemoves("append_stat")
         \/ Clean!SaveOpens("append_stat") \/ Clean!SaveDumps("append_stat") \/ Clean!SaveMd5("append_stat")
  PROVE  CleanInv'
<1> DEFINE f == cache["append_stat"]
<1>1. f \in Clean!Versions /\ <<>> \in Clean!Versions /\ cache \in [Clean!StatTasks -> Clean!Versions]
      /\ stat \in Clean!Versions \cup {None} /\ files \subseteq Clean!CacheFiles
  BY StatAndLimit, VersionsAre DEF CleanInv, Clean!TypeOK
<1>2. ASSUME pc["generate_stat"] = "done", OnTime
      PROVE  /\ pc["append_stat"] \in {"exists", "remove", "open", "dump"} => InTime(f)
             /\ pc["append_stat"] \in {"exists", "md5", "done"} => stat # None
             /\ stat \notin {None, <<>>} => InTime(stat)
  BY <1>2 DEF CleanInv, StatInv, StatIsInTime
<1>3. ASSUME pc["generate_stat"] = "done", OnTime, pc["read_project_info"] = "done"
      PROVE  /\ pc["append_stat"] \in {"exists", "remove", "open", "dump"} => DOMAIN f = Modules
             /\ pc["append_stat"] = "md5" => DOMAIN stat = Modules
  BY <1>3 DEF CleanInv, StatInv, StatIsWhole
<1>4. CASE Clean!SaveChecks("append_stat")
  <2> USE <1>4 DEF Clean!SaveChecks, Clean!GoesTo, Clean!disk
  <2>1. pc' = [pc EXCEPT !["append_stat"] = IF stat # None THEN "remove" ELSE "open"]
    OBVIOUS
  <2> QED BY <1>1, <1>2, <1>3, <2>1, AppendsStat
<1>5. CASE Clean!SaveRemoves("append_stat")
  <2> USE <1>5 DEF Clean!SaveRemoves, Clean!GoesTo, Clean!Raises
  <2>1. pc' = [pc EXCEPT !["append_stat"] = IF stat = None THEN "raised" ELSE "open"]
    OBVIOUS
  <2> QED BY <1>1, <1>2, <1>3, <2>1, AppendsStat
<1>6. CASE Clean!SaveOpens("append_stat")
  <2> USE <1>6 DEF Clean!SaveOpens, Clean!GoesTo
  <2>1. stat' = <<>> /\ stat' \in Clean!Versions \cup {None}
    BY <1>1
  <2> QED BY <1>1, <1>2, <1>3, <2>1, AppendsStat
<1>7. CASE Clean!SaveDumps("append_stat")
  <2> USE <1>7 DEF Clean!SaveDumps, Clean!GoesTo
  <2>1. cache' \in [Clean!StatTasks -> Clean!Versions] /\ cache'["generate_stat"] = cache["generate_stat"]
    BY <1>1, TasksAre
  <2>2. stat' = f /\ stat' # None /\ stat' \in Clean!Versions \cup {None}
    BY <1>1, VersionsAre
  <2> QED BY <1>1, <1>2, <1>3, <2>1, <2>2, AppendsStat
<1>8. CASE Clean!SaveMd5("append_stat")
  <2> USE <1>8 DEF Clean!SaveMd5, Clean!Returns
  <2>1. files \subseteq files' /\ files' \subseteq Clean!CacheFiles /\ "md5" \in files'
    BY <1>1 DEF Clean!CacheFiles
  <2> QED BY <1>1, <1>2, <1>3, <2>1, AppendsStat
<1> QED BY <1>4, <1>5, <1>6, <1>7, <1>8

-----------------------------------------------------------------------------
LEMMA CleanStep == ASSUME CleanInv, [Clean!Next]_cleanVars PROVE CleanInv'
<1>1. ASSUME NEW m \in Modules, Clean!Edit(m) \/ Clean!Compile(m) PROVE CleanInv'
  BY <1>1, CleanEditStep, CompileStep
<1>2. ASSUME NEW t \in Clean!Tasks, Clean!Skip(t) \/ Clean!PassException(t) PROVE CleanInv'
  BY <1>2, SkipStep, PassExceptionStep
<1>3. ASSUME NEW t \in Clean!StatTasks, Clean!StatTask(t) PROVE CleanInv'
  <2>1. t \in {"generate_stat", "append_stat"}
    BY TasksAre
  <2> QED BY <1>3, <2>1, FillGenerateStat, FillAppendStat, SaveGenerateStat, SaveAppendStat DEF Clean!StatTask
<1>4. CASE UNCHANGED cleanVars
  <2> USE <1>4 DEF cleanVars
  <2>1. Clean!TypeOK'
    BY DEF CleanInv, Clean!TypeOK
  <2>2. Orderly'
    BY DEF CleanInv, Orderly, InOrder, Left, CleanTickets, Beginning, Clean!Ended, Clean!Parents
  <2>3. StatInv'
    BY DEF CleanInv, StatInv, StatEnds, StatIsTaken, StatIsWhole, StatIsInTime, OnTime, InTime, Limit
  <2> QED BY <2>1, <2>2, <2>3 DEF CleanInv
<1> QED BY <1>1, <1>2, <1>3, <1>4, StartBuildStep, BuildEndsStep, ReadProjectInfoStep, GradleBeginsStep,
           GradleEndsStep, CleanAllCacheStep, InstallApkStep, BuildBaseResourceStep, GenerateInfoAndAptStep
        DEF Clean!Next

LEMMA CleanInvSuffices ==
  ASSUME CleanInv
  PROVE  Clean!TypeOK /\ Clean!StatFirstFindsEdits /\ Clean!SuccessIsComplete
<1>1. Clean!StatFirstFindsEdits
  <2> SUFFICES ASSUME Clean!Accepted, ~late, stat \notin {None, <<>>}, NEW m \in known PROVE Clean!Finds(m)
    BY DEF Clean!StatFirstFindsEdits
  <2>1. cleanDevice # None /\ cleanDevice.ticket = builds
    BY DEF Clean!Accepted, CleanInv, Orderly, CleanTickets
  <2>2. CASE builds = 0
    <3>1. known = OldModules /\ stat = [n \in OldModules |-> 0] /\ cleanDevice.versions = [n \in Modules |-> 0]
      BY <2>1, <2>2 DEF CleanInv, Orderly, Beginning
    <3>2. m \in DOMAIN stat /\ stat[m] = 0 /\ cleanDevice.versions[m] = 0
      BY <3>1, VersionsAre
    <3> QED BY <3>2 DEF Clean!Finds
  <2>3. CASE builds # 0
    <3>1. builds > 0
      BY <2>3 DEF CleanInv, Clean!TypeOK
    <3>2. pc["build"] = "done" /\ cleanDevice.versions = cleanApk.versions
      BY <2>1, <3>1 DEF CleanInv, Orderly, CleanTickets
    <3>3. pc["generate_stat"] = "done" /\ OnTime
      BY <3>2 DEF CleanInv, StatInv, StatEnds, OnTime
    <3>4. InTime(stat)
      BY <3>3 DEF CleanInv, StatInv, StatIsInTime
    <3> QED BY <3>2, <3>4 DEF InTime, Limit, Clean!Finds
  <2> QED BY <2>2, <2>3
<1>2. Clean!SuccessIsComplete
  <2> SUFFICES ASSUME Clean!Succeeded, ~late
               PROVE  /\ cleanDevice # None /\ cleanDevice.ticket = builds => Clean!Accepted
                      /\ files = Clean!CacheFiles /\ stat # None /\ Modules = DOMAIN stat
    BY DEF Clean!SuccessIsComplete
  <2>1. \A t \in Clean!Tasks : pc[t] = "done"
    BY DEF Clean!Succeeded
  <2>2. cleanDevice # None /\ cleanDevice.ticket = builds => Clean!Accepted
    BY <2>1, TasksAre DEF CleanInv, Orderly, Left, CleanTickets, Clean!Accepted, Clean!Succeeded
  <2>3. files = Clean!CacheFiles
    BY <2>1, TasksAre DEF CleanInv, Orderly, Left, Clean!TypeOK, Clean!CacheFiles
  <2>4. OnTime
    BY <2>1, TasksAre DEF OnTime
  <2>5. stat # None /\ DOMAIN stat = Modules
    BY <2>1, <2>4, TasksAre DEF CleanInv, StatInv, StatIsInTime, StatIsWhole
  <2> QED BY <2>2, <2>3, <2>5
<1> QED BY <1>1, <1>2 DEF CleanInv

\* gradle_clean_build.py:34-118, gradle_tools.py:217-267, android_tools.py:23-89 - for any modules, any
\* number of edits and clean builds: whichever task fails and whenever the process is killed, an
\* edit that the device lacks is found by the next scan if the device would accept a patch; and
\* after a build without a failed task every module is in the stat and every cache is there, and
\* the device accepts patches if adb has really installed the application.
THEOREM CleanBuildsAreKnown == BuildsSpec => []CleanBuildIsKnown
<1> DEFINE Inv == part = "clean" => CleanInv
<1>1. BuildsInit => Inv
  BY CleanBegins DEF BuildsInit
<1>2. Inv /\ [BuildsNext]_buildsVars => Inv'
  <2> SUFFICES ASSUME part' = "clean", Inv, [BuildsNext]_buildsVars PROVE CleanInv'
    OBVIOUS
  <2>1. part = "clean" /\ [Clean!Next]_cleanVars
    BY DEF BuildsNext, buildsVars
  <2> QED BY <2>1, CleanStep
<1>3. Inv => CleanBuildIsKnown
  BY CleanInvSuffices DEF CleanBuildIsKnown
<1> QED BY <1>1, <1>2, <1>3, PTL DEF BuildsSpec

=============================================================================
