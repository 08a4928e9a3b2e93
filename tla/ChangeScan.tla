----------------------------- MODULE ChangeScan -----------------------------
(***************************************************************************)
(* How Freeline decides what to build: the scan compares every source file *)
(* with the stat recorded for it, the policy chooses between an            *)
(* incremental and a clean build, and at the end of an incremental build   *)
(* UpdateStatTask records the files anew.  The developer saves, touches,   *)
(* restores, creates and deletes files at any time.                        *)
(*                                                                         *)
(* Content is a number, its parity the size of the file; md5 is taken to   *)
(* tell contents apart.  The clean build is one step here (see CleanBuild).*)
(***************************************************************************)
EXTENDS Naturals, FiniteSets

CONSTANTS
  Files,      \* the files the walks of the scan visit, and the root build.gradle
  Kind,       \* Kind[f]: "src", "res", "lib", "config" or "root"
  Md5Files,   \* files the configuration lists in check_sources_md5
  MaxSrc,     \* more changed sources than this need a clean build (20 in the code)
  MaxClock,   \* bound on the changes of files
  MaxContent, \* bound on the contents
  None

\* What the constants may be.
ChangeScanAssumption ==
  /\ Kind \in [Files -> {"src", "res", "lib", "config", "root"}]
  /\ Md5Files \subseteq Files /\ MaxClock \in Nat /\ MaxContent \in Nat
  /\ None \notin Nat /\ None \notin [mtime : Nat, content : Nat] /\ None \notin [mtime : Nat, size : Nat]

Roots == {f \in Files : Kind[f] = "root"}
Walked == Files \ Roots

VARIABLES
  disk,     \* mtime and content of each file, or None
  stat,     \* mtime and size recorded for each walked file, or None
  md5,      \* content recorded in stat_cache_md5.json, or None
  apk,      \* mtime of the apk, 0 if there is none
  accepts,  \* the application on the device is the one the caches describe
  built,    \* content of each file in what runs on the device
  phase,    \* "idle", "scan", "decide", "build", "update"
  todo,     \* files still to be scanned, compiled or updated
  changed,  \* files the scan has found
  clock,    \* mtime of the last change
  during,   \* history: files changed while a build that includes them runs
  restored, \* history: files that got other content with an older mtime
  unused,   \* history: jars recorded by an incremental build, none of whose steps uses them
  quiet     \* history: no file has changed since the scan began

recorded == <<stat, md5>>
history == <<during, restored, unused, quiet>>
vars == <<disk, recorded, apk, accepts, built, phase, todo, changed, clock, history>>

Size(c) == c % 2
Contents == 0..MaxContent

TypeOK ==
  /\ \A f \in Files : disk[f] # None => disk[f].mtime \in 0..(MaxClock + 1) /\ disk[f].content \in Contents
  /\ \A f \in Walked : stat[f] # None => stat[f].mtime \in 0..(MaxClock + 1) /\ stat[f].size \in 0..1
  /\ md5 \in [Files -> Contents \cup {None}]
  /\ apk \in 0..(MaxClock + 1) /\ accepts \in BOOLEAN
  /\ built \in [Files -> Contents \cup {None}]
  /\ phase \in {"idle", "scan", "decide", "build", "update", "clean"}
  /\ todo \subseteq Walked /\ changed \subseteq Walked
  /\ clock \in 1..(MaxClock + 1)

Content(f) == IF disk[f] = None THEN None ELSE disk[f].content
StatOf(f) == IF disk[f] = None THEN None ELSE [mtime |-> disk[f].mtime, size |-> Size(disk[f].content)]

\* A project just after a clean build.
Init ==
  /\ disk = [f \in Files |-> [mtime |-> 0, content |-> 0]]
  /\ stat = [f \in Walked |-> [mtime |-> 0, size |-> 0]]
  /\ md5 = [f \in Files |-> IF f \in Md5Files THEN 0 ELSE None]
  /\ apk = 1 /\ accepts = TRUE
  /\ built = [f \in Files |-> 0]
  /\ phase = "idle" /\ todo = {} /\ changed = {} /\ clock = 1
  /\ during = {} /\ restored = {} /\ unused = {} /\ quiet = FALSE

-----------------------------------------------------------------------------
(* The developer *)

Changes(f) ==
  /\ clock <= MaxClock
  /\ clock' = clock + 1
  /\ quiet' = FALSE
  /\ during' = IF phase \in {"build", "update"} /\ f \in changed THEN during \cup {f} ELSE during
  /\ UNCHANGED <<recorded, apk, accepts, built, phase, todo, changed, unused>>

\* Saves a file, or creates it.
Save(f) ==
  /\ Changes(f)
  /\ \E c \in Contents \ {Content(f)} : disk' = [disk EXCEPT ![f] = [mtime |-> clock', content |-> c]]
  /\ restored' = restored \ {f}

Touch(f) ==
  /\ Changes(f)
  /\ disk[f] # None
  /\ disk' = [disk EXCEPT ![f].mtime = clock']
  /\ UNCHANGED restored

\* Puts an older file in its place, as unpacking an archive does.
RestoreOld(f) ==
  /\ Changes(f)
  /\ \E c \in Contents \ {Content(f)} : disk' = [disk EXCEPT ![f] = [mtime |-> 0, content |-> c]]
  /\ restored' = restored \cup {f}

\* Without a build script or manifest the scan itself ends with an error.
Delete(f) ==
  /\ Changes(f)
  /\ Kind[f] \in {"src", "res", "lib"} /\ disk[f] # None
  /\ disk' = [disk EXCEPT ![f] = None]
  /\ UNCHANGED restored

Developer == \E f \in Files : Save(f) \/ Touch(f) \/ RestoreOld(f) \/ Delete(f)

-----------------------------------------------------------------------------
(* The scan *)

ContentIsNew(f) == md5[f] = None \/ md5[f] # Content(f)

\* __check_changes: a file is new, or its mtime has grown (for build.gradle and
\* the manifest its content must differ as well), or, for resources, its size differs.
Sees(f) ==
  /\ disk[f] # None
  /\ \/ stat[f] = None
     \/ /\ stat[f] # None /\ disk[f].mtime > stat[f].mtime
        /\ Kind[f] = "config" => ContentIsNew(f)
     \/ /\ stat[f] # None /\ disk[f].mtime <= stat[f].mtime
        /\ Kind[f] = "res" /\ Size(disk[f].content) # stat[f].size

\* Fault: the answer of the md5 check is taken the wrong way round.
RootTouched == \E f \in Roots : disk[f].mtime > apk /\ ~ContentIsNew(f)

\* _get_build_info: the root scripts are compared with the apk.
RootChanged == \E f \in Roots : disk[f].mtime > apk /\ ContentIsNew(f)

StartScan ==
  /\ phase = "idle"
  /\ phase' = "scan" /\ todo' = Walked /\ changed' = {} /\ quiet' = TRUE
  /\ UNCHANGED <<disk, recorded, apk, accepts, built, clock, during, restored, unused>>

ScanFile(f) ==
  /\ phase = "scan" /\ f \in todo
  /\ todo' = todo \ {f}
  /\ changed' = IF Sees(f) THEN changed \cup {f} ELSE changed
  /\ UNCHANGED <<disk, recorded, apk, accepts, built, phase, clock, history>>

OfKind(S, k) == {f \in S : Kind[f] = k}

\* is_need_clean_build
NeedsCleanBuild ==
  \/ apk = 0
  \/ RootChanged
  \/ Cardinality(OfKind(changed, "src")) > MaxSrc
  \/ OfKind(changed, "config") # {}

Decide ==
  /\ phase = "scan" /\ todo = {}
  /\ phase' = IF NeedsCleanBuild THEN "clean" ELSE "build"
  /\ todo' = changed
  /\ UNCHANGED <<disk, recorded, apk, accepts, built, changed, clock, history>>

-----------------------------------------------------------------------------
(* The builds *)

\* The clean build records all files, compiles them, makes the apk and installs it.
\* When it fails, the stat is renewed all the same and the device is refused.
CleanBuild ==
  /\ phase = "clean"
  /\ phase' = "idle" /\ todo' = {}
  /\ stat' = [f \in Walked |-> StatOf(f)]
  /\ md5' = [f \in Files |-> IF f \in Md5Files THEN Content(f) ELSE md5[f]]
  /\ \/ /\ accepts' = TRUE /\ apk' = clock
        /\ built' = [f \in Files |-> Content(f)]
        /\ during' = {} /\ restored' = {} /\ unused' = {}
     \/ /\ accepts' = FALSE
        /\ UNCHANGED <<apk, built, during, restored, unused>>
  /\ UNCHANGED <<disk, changed, clock, quiet>>

\* The incremental build compiles a changed file.  A changed jar is in the list
\* 'libs', which no task of the incremental build reads.
Compile(f) ==
  /\ phase = "build" /\ accepts /\ f \in todo /\ Kind[f] # "lib"
  /\ todo' = todo \ {f}
  /\ built' = [built EXCEPT ![f] = Content(f)]
  /\ during' = during \ {f}
  /\ restored' = restored \ {f}
  /\ UNCHANGED <<disk, recorded, apk, accepts, phase, changed, clock, unused, quiet>>

\* A tool or the device fails: nothing is recorded.  When the device is not the
\* one of the caches it always fails.
IncrementalFails ==
  /\ phase = "build"
  /\ phase' = "idle" /\ todo' = {}
  /\ quiet' = FALSE
  /\ UNCHANGED <<disk, recorded, apk, accepts, built, changed, clock, during, restored, unused>>

StartUpdate ==
  /\ phase = "build" /\ accepts /\ todo \subseteq OfKind(changed, "lib")
  /\ phase' = "update" /\ todo' = changed
  /\ UNCHANGED <<disk, recorded, apk, accepts, built, changed, clock, history>>

\* UpdateStatTask: a changed file that still exists gets the time of now, and
\* its stat and md5 are recorded as they are now.  The lists it goes through are
\* all those of the scan, the jars included.
UpdateStat(f) ==
  /\ phase = "update" /\ f \in todo
  /\ todo' = todo \ {f}
  /\ IF disk[f] = None THEN UNCHANGED <<disk, stat, md5>>
     ELSE /\ disk' = [disk EXCEPT ![f].mtime = clock]
          /\ stat' = [stat EXCEPT ![f] = [mtime |-> clock, size |-> Size(disk[f].content)]]
          /\ md5' = IF md5[f] # None THEN [md5 EXCEPT ![f] = Content(f)] ELSE md5
  /\ unused' = IF Kind[f] = "lib" /\ disk[f] # None THEN unused \cup {f} ELSE unused
  /\ UNCHANGED <<apk, accepts, built, phase, changed, clock, during, restored, quiet>>

UpdateEnds ==
  /\ phase = "update" /\ todo = {}
  /\ phase' = "idle"
  /\ UNCHANGED <<disk, recorded, apk, accepts, built, todo, changed, clock, history>>

Next ==
  \/ Developer
  \/ StartScan \/ Decide \/ CleanBuild \/ IncrementalFails \/ StartUpdate \/ UpdateEnds
  \/ \E f \in Walked : ScanFile(f) \/ Compile(f) \/ UpdateStat(f)

Spec == Init /\ [][Next]_vars

-----------------------------------------------------------------------------
(* Properties *)

Unbuilt(f) == disk[f] # None /\ Content(f) # built[f]

\* Between builds, while the device is the one of the caches: a walked file whose
\* content is not on the device will be found by the next scan, unless it was
\* changed while a build that included it ran (UpdateStatTask records the file as
\* it is at the end), was given an older mtime, or is a jar that an incremental build
\* has recorded: until then, and from its next change on, a changed jar is found too.
UnbuiltIsFound ==
  phase = "idle" /\ accepts =>
    \A f \in Walked : Unbuilt(f) /\ ~Sees(f) => f \in during \cup restored \cup unused

\* A root script that differs from the one the apk was built from asks for a clean
\* build, unless it was given an older mtime (_get_build_info).
RootIsFound ==
  phase = "idle" /\ accepts =>
    \A f \in Roots : Unbuilt(f) => RootChanged \/ f \in restored

\* When no file changes from the scan to the end of the build, the next scan finds
\* nothing: what UpdateStatTask records is what the scan compares.
SettledAfterBuild ==
  phase = "idle" /\ quiet => \A f \in Walked : ~Sees(f)
=============================================================================
