--------------------------- MODULE ProjectProofs ----------------------------
(***************************************************************************)
(* What is known of a project before a build, for any files, modules and   *)
(* scripts: the scan finds what is not on the device (ScanInv), the lists  *)
(* of the modules are closed under their dependencies (InfoInv), and the   *)
(* count of balanced_braces is the number of braces open (DepthCounts).    *)
(*                                                                         *)
(* The count is a recursive function. That it exists, and what it is at    *)
(* every position, is shown by looking at the first position where it      *)
(* would fail (LeastNat): that is the induction these proofs need.         *)
(***************************************************************************)
EXTENDS MCProject, FiniteSetTheorems, SequenceTheorems, TLAPS

-----------------------------------------------------------------------------
(***************************************************************************)
(* The scan.  Times only grow, so a file that was saved since its record   *)
(* differs from it; what a build compiles is what its scan has found.      *)
(***************************************************************************)
Times == 0..(MaxClock + 1)
OnDisk == [mtime : Times, content : Scan!Contents]
Stats == [mtime : Times, size : 0..1]

ScanTypes ==
  /\ disk \in [Files -> OnDisk \cup {None}]
  /\ stat \in [Scan!Walked -> Stats \cup {None}]
  /\ md5 \in [Files -> Scan!Contents \cup {None}]
  /\ apk \in Times /\ accepts \in BOOLEAN
  /\ built \in [Files -> Scan!Contents \cup {None}]
  /\ phase \in {"idle", "scan", "decide", "build", "update", "clean"}
  /\ todo \subseteq Scan!Walked /\ changed \subseteq Scan!Walked
  /\ clock \in 1..(MaxClock + 1)
  /\ during \subseteq Files /\ restored \subseteq Files /\ unused \subseteq Files /\ quiet \in BOOLEAN

\* No recorded time is later than the last change.
TimesPass ==
  /\ apk <= clock
  /\ \A f \in Files : disk[f] # None => disk[f].mtime <= clock
  /\ \A f \in Scan!Walked : stat[f] # None => stat[f].mtime <= clock

\* The files whose content the scan asks for, and the content it compares with.
AsksContent(f) == Kind[f] \in {"config", "root"}
Md5IsBuilt ==
  /\ \A f \in Files \ Md5Files : md5[f] = None
  /\ accepts => \A f \in Md5Files : AsksContent(f) => md5[f] = built[f]

\* A difference in time or content that the next scan sees, whatever happens before it.
Differs(f) ==
  \/ stat[f] = None
  \/ stat[f] # None /\ disk[f].mtime > stat[f].mtime /\ (Kind[f] = "config" => Scan!ContentIsNew(f))
RootDiffers(f) == disk[f].mtime > apk /\ Scan!ContentIsNew(f)

UnbuiltDiffers ==
  accepts =>
    /\ \A f \in Scan!Walked : Scan!Unbuilt(f) => f \in during \cup restored \cup unused \/ Differs(f)
    /\ \A f \in Scan!Roots : Scan!Unbuilt(f) => f \in restored \/ RootDiffers(f)

\* What a running build holds: no configuration, which would have asked for a clean
\* build, and what it has compiled is built, or was changed since; jars it leaves alone.
BuildHolds ==
  /\ phase \in {"build", "update"} => todo \subseteq changed /\ \A f \in changed : Kind[f] # "config"
  /\ phase = "build" => \A f \in changed \ todo : Scan!Unbuilt(f) => f \in during
  /\ phase = "update" => \A f \in changed : Scan!Unbuilt(f) => f \in during \/ Kind[f] = "lib"

\* Where a file that the scan would see stands when nothing has changed.
QuietFiles ==
  quiet => \A f \in Scan!Walked : Scan!Sees(f) =>
    /\ phase # "idle"
    /\ phase = "scan" => f \in todo \cup changed
    /\ phase = "build" => f \in changed
    /\ phase = "update" => f \in todo

ScanInv == ScanTypes /\ TimesPass /\ Md5IsBuilt /\ UnbuiltDiffers /\ BuildHolds /\ QuietFiles

LEMMA ScanInvImplies ==
  ASSUME ScanInv, PartsAssumption
  PROVE  Scan!TypeOK /\ Scan!UnbuiltIsFound /\ Scan!RootIsFound /\ Scan!SettledAfterBuild
<1> USE DEF PartsAssumption, Scan!ChangeScanAssumption
<1>1. Scan!TypeOK
  <2>1. ASSUME NEW f \in Files, disk[f] # None PROVE disk[f].mtime \in 0..(MaxClock + 1) /\ disk[f].content \in Scan!Contents
    BY <2>1 DEF ScanInv, ScanTypes, OnDisk, Times
  <2>2. ASSUME NEW f \in Scan!Walked, stat[f] # None PROVE stat[f].mtime \in 0..(MaxClock + 1) /\ stat[f].size \in 0..1
    BY <2>2 DEF ScanInv, ScanTypes, Stats, Times
  <2> QED BY <2>1, <2>2 DEF ScanInv, ScanTypes, Times, Scan!TypeOK
<1>2. ASSUME NEW f \in Scan!Walked, Scan!Unbuilt(f), Differs(f) PROVE Scan!Sees(f)
  BY <1>2 DEF Scan!Unbuilt, Differs, Scan!Sees
<1>3. Scan!UnbuiltIsFound
  BY <1>2 DEF ScanInv, UnbuiltDiffers, Scan!UnbuiltIsFound
<1>4. Scan!RootIsFound
  BY DEF ScanInv, UnbuiltDiffers, Scan!RootIsFound, RootDiffers, Scan!RootChanged
<1>5. Scan!SettledAfterBuild
  BY DEF ScanInv, QuietFiles, Scan!SettledAfterBuild
<1> QED BY <1>1, <1>3, <1>4, <1>5

LEMMA ScanStarts == ASSUME Scan!Init, PartsAssumption PROVE ScanInv
<1> USE DEF PartsAssumption, Scan!ChangeScanAssumption
<1>1. 0 \in Times /\ 0 \in Scan!Contents /\ 1 \in Times /\ 1 \in 1..(MaxClock + 1)
  BY DEF Times, Scan!Contents
<1>2. [mtime |-> 0, content |-> 0] \in OnDisk /\ [mtime |-> 0, size |-> 0] \in Stats
  BY <1>1 DEF OnDisk, Stats
<1>3. ScanTypes
  BY <1>1, <1>2 DEF Scan!Init, ScanTypes
<1>4. TimesPass
  BY DEF Scan!Init, TimesPass
<1>5. Md5IsBuilt
  BY DEF Scan!Init, Md5IsBuilt
<1>6. \A f \in Files : ~Scan!Unbuilt(f)
  BY DEF Scan!Init, Scan!Unbuilt, Scan!Content
<1>7. UnbuiltDiffers
  BY <1>6 DEF UnbuiltDiffers, Scan!Walked, Scan!Roots
<1>8. BuildHolds /\ QuietFiles
  BY DEF Scan!Init, BuildHolds, QuietFiles
<1> QED BY <1>3, <1>4, <1>5, <1>7, <1>8 DEF ScanInv

\* What of the invariant depends on one file.
LEMMA SameFile ==
  ASSUME NEW f \in Scan!Walked, disk'[f] = disk[f], stat'[f] = stat[f], md5'[f] = md5[f]
  PROVE  /\ Scan!Sees(f)' = Scan!Sees(f)
         /\ Differs(f)' = Differs(f)
         /\ Scan!Content(f)' = Scan!Content(f)
BY DEF Scan!Sees, Differs, Scan!Content, Scan!ContentIsNew

LEMMA DeveloperKeeps ==
  ASSUME ScanInv, PartsAssumption, NEW f \in Files, Scan!Changes(f),
         disk'[f] = None \/ disk'[f] \in OnDisk,
         disk' = [disk EXCEPT ![f] = disk'[f]],
         restored' \in {restored, restored \cup {f}, restored \ {f}},
         disk'[f] # None => disk'[f].mtime <= clock' /\ (f \in restored' \/ disk'[f].mtime = clock')
  PROVE  ScanInv'
<1> USE DEF PartsAssumption, Scan!ChangeScanAssumption
<1>1. /\ clock' = clock + 1 /\ clock' \in 1..(MaxClock + 1) /\ quiet' = FALSE
      /\ during \subseteq during' /\ during' \subseteq during \cup {f}
      /\ phase \in {"build", "update"} /\ f \in changed => f \in during'
      /\ stat' = stat /\ md5' = md5 /\ apk' = apk /\ accepts' = accepts /\ built' = built /\ unused' = unused
      /\ phase' = phase /\ todo' = todo /\ changed' = changed
  <2>1. clock \in 1..(MaxClock + 1)
    BY DEF ScanInv, ScanTypes
  <2>2. clock' = clock + 1 /\ clock <= MaxClock /\ quiet' = FALSE
    BY DEF Scan!Changes
  <2>3. clock' \in 1..(MaxClock + 1)
    BY <2>1, <2>2
  <2>4. /\ during' = IF phase \in {"build", "update"} /\ f \in changed THEN during \cup {f} ELSE during
        /\ stat' = stat /\ md5' = md5 /\ apk' = apk /\ accepts' = accepts /\ built' = built /\ unused' = unused
        /\ phase' = phase /\ todo' = todo /\ changed' = changed
    BY DEF Scan!Changes, Scan!recorded
  <2> QED BY <2>2, <2>3, <2>4
<1>2. disk' \in [Files -> OnDisk \cup {None}] /\ \A g \in Files \ {f} : disk'[g] = disk[g]
  BY DEF ScanInv, ScanTypes
<1>3. ScanTypes'
  BY <1>1, <1>2 DEF ScanInv, ScanTypes, Times, OnDisk, Stats, Scan!Contents
<1>4. TimesPass'
  <2>1. clock \in Nat /\ clock <= clock'
    BY <1>1 DEF ScanInv, ScanTypes
  <2>2. ASSUME NEW g \in Files, disk'[g] # None PROVE disk'[g].mtime <= clock'
    <3>1. CASE g = f
      BY <2>2, <3>1
    <3>2. CASE g # f
      <4>1. disk[g] \in OnDisk /\ disk'[g] = disk[g] /\ disk[g].mtime <= clock
        BY <1>2, <2>2, <3>2 DEF ScanInv, ScanTypes, TimesPass
      <4>2. disk[g].mtime \in Nat
        BY <4>1 DEF OnDisk, Times
      <4> QED BY <1>1, <2>1, <4>1, <4>2
    <3> QED BY <3>1, <3>2
  <2>3. ASSUME NEW g \in Scan!Walked, stat'[g] # None PROVE stat'[g].mtime <= clock'
    <3>1. stat[g] \in Stats /\ stat[g].mtime <= clock
      BY <1>1, <2>3 DEF ScanInv, ScanTypes, TimesPass
    <3> QED BY <1>1, <2>1, <3>1 DEF Stats, Times
  <2>4. apk' <= clock'
    BY <1>1, <2>1 DEF ScanInv, ScanTypes, TimesPass, Times
  <2> QED BY <2>2, <2>3, <2>4 DEF TimesPass
<1>5. Md5IsBuilt'
  BY <1>1 DEF ScanInv, Md5IsBuilt, AsksContent
<1>6. ASSUME NEW g \in Files, g # f PROVE Scan!Unbuilt(g)' = Scan!Unbuilt(g)
  BY <1>1, <1>2, <1>6 DEF Scan!Unbuilt, Scan!Content
<1>7. ASSUME accepts', Scan!Unbuilt(f)', f \notin restored', AsksContent(f)
      PROVE  Scan!ContentIsNew(f)'
  BY <1>1, <1>7 DEF ScanInv, Md5IsBuilt, Scan!Unbuilt, Scan!ContentIsNew, Scan!Content
<1>8. UnbuiltDiffers'
  <2>1. ASSUME accepts', NEW g \in Scan!Walked, Scan!Unbuilt(g)' PROVE g \in during' \cup restored' \cup unused' \/ Differs(g)'
    <3>1. CASE g = f
      <4>1. SUFFICES ASSUME f \notin restored', stat[f] # None PROVE Differs(f)'
        BY <1>1, <3>1 DEF Differs
      <4>2. disk'[f].mtime = clock'
        BY <2>1, <3>1, <4>1 DEF Scan!Unbuilt
      <4>3. stat[f].mtime <= clock /\ stat[f].mtime \in Nat /\ clock \in Nat
        BY <3>1, <4>1 DEF ScanInv, ScanTypes, TimesPass, Stats, Times
      <4>4. disk'[f].mtime > stat'[f].mtime
        BY <4>2, <4>3, <1>1
      <4> QED BY <4>4, <4>1, <1>1, <1>7, <2>1, <3>1 DEF Differs, AsksContent
    <3>2. CASE g # f
      <4>1. g \in Files
        BY DEF Scan!Walked
      <4>2. accepts /\ Scan!Unbuilt(g)
        BY <1>1, <1>6, <2>1, <3>2, <4>1
      <4>3. g \in during \cup restored \cup unused \/ Differs(g)
        BY <4>2 DEF ScanInv, UnbuiltDiffers
      <4>4. Differs(g)' = Differs(g)
        BY <1>1, <1>2, <3>2, <4>1, SameFile
      <4> QED BY <1>1, <3>2, <4>3, <4>4
    <3> QED BY <3>1, <3>2
  <2>2. ASSUME accepts', NEW g \in Scan!Roots, Scan!Unbuilt(g)' PROVE g \in restored' \/ RootDiffers(g)'
    <3>1. CASE g = f
      <4>1. SUFFICES ASSUME f \notin restored' PROVE RootDiffers(f)'
        BY <3>1
      <4>2. disk'[f].mtime = clock'
        BY <2>2, <3>1, <4>1 DEF Scan!Unbuilt
      <4>3. disk'[f].mtime > apk'
        BY <4>2, <1>1 DEF ScanInv, ScanTypes, TimesPass, Times
      <4>4. AsksContent(f)
        BY <3>1 DEF Scan!Roots, AsksContent
      <4> QED BY <4>1, <4>3, <4>4, <1>7, <2>2, <3>1 DEF RootDiffers
    <3>2. CASE g # f
      <4>1. g \in Files
        BY DEF Scan!Roots
      <4>2. accepts /\ Scan!Unbuilt(g)
        BY <1>1, <1>6, <2>2, <3>2, <4>1
      <4>3. g \in restored \/ RootDiffers(g)
        BY <4>2 DEF ScanInv, UnbuiltDiffers
      <4>4. RootDiffers(g)' = RootDiffers(g)
        BY <1>1, <1>2, <3>2, <4>1 DEF RootDiffers, Scan!ContentIsNew, Scan!Content
      <4> QED BY <1>1, <3>2, <4>3, <4>4
    <3> QED BY <3>1, <3>2
  <2> QED BY <2>1, <2>2 DEF UnbuiltDiffers
<1>9. BuildHolds'
  <2>1. ASSUME NEW g \in changed, phase \in {"build", "update"}, Scan!Unbuilt(g)'
        PROVE  (g = f /\ g \in during') \/ Scan!Unbuilt(g)
    <3>1. g \in Files
      BY DEF ScanInv, ScanTypes, Scan!Walked
    <3> QED BY <1>1, <1>6, <2>1, <3>1
  <2> QED BY <1>1, <2>1 DEF ScanInv, BuildHolds
<1>10. QuietFiles'
  BY <1>1 DEF QuietFiles
<1> QED BY <1>3, <1>4, <1>5, <1>8, <1>9, <1>10 DEF ScanInv

LEMMA DeveloperStep == ASSUME ScanInv, PartsAssumption, Scan!Developer PROVE ScanInv'
<1> USE DEF PartsAssumption, Scan!ChangeScanAssumption
<1>1. PICK f \in Files : Scan!Save(f) \/ Scan!Touch(f) \/ Scan!RestoreOld(f) \/ Scan!Delete(f)
  BY DEF Scan!Developer
<1>2. clock \in Nat /\ clock' = clock + 1 /\ clock' \in Times /\ 0 \in Times /\ Scan!Changes(f)
  BY <1>1 DEF Scan!Save, Scan!Touch, Scan!RestoreOld, Scan!Delete, Scan!Changes, ScanInv, ScanTypes, Times
<1>3. disk \in [Files -> OnDisk \cup {None}]
  BY DEF ScanInv, ScanTypes
<1>4. CASE Scan!Save(f)
  <2>1. PICK c \in Scan!Contents : disk' = [disk EXCEPT ![f] = [mtime |-> clock', content |-> c]]
    BY <1>4 DEF Scan!Save
  <2>2. disk'[f] = [mtime |-> clock', content |-> c] /\ disk'[f] \in OnDisk /\ disk'[f].mtime = clock' /\ clock' <= clock'
    BY <1>2, <1>3, <2>1 DEF OnDisk, Times
  <2>3. restored' = restored \ {f}
    BY <1>4 DEF Scan!Save
  <2> QED BY <1>2, <2>1, <2>2, <2>3, DeveloperKeeps
<1>5. CASE Scan!Touch(f)
  <2>1. disk' = [disk EXCEPT ![f].mtime = clock'] /\ disk[f] # None /\ restored' = restored
    BY <1>5 DEF Scan!Touch
  <2>2. disk[f] \in OnDisk
    BY <1>3, <2>1
  <2>3. disk'[f] = [disk[f] EXCEPT !.mtime = clock']
    BY <1>3, <2>1
  <2>4. disk'[f] \in OnDisk /\ disk'[f].mtime = clock' /\ clock' <= clock' /\ disk' = [disk EXCEPT ![f] = disk'[f]]
    BY <1>2, <1>3, <2>1, <2>2, <2>3 DEF OnDisk, Times
  <2> QED BY <1>2, <2>1, <2>4, DeveloperKeeps
<1>6. CASE Scan!RestoreOld(f)
  <2>1. PICK c \in Scan!Contents : disk' = [disk EXCEPT ![f] = [mtime |-> 0, content |-> c]]
    BY <1>6 DEF Scan!RestoreOld
  <2>2. disk'[f] = [mtime |-> 0, content |-> c] /\ disk'[f] \in OnDisk /\ disk'[f].mtime <= clock'
    BY <1>2, <1>3, <2>1 DEF OnDisk, Times
  <2>3. restored' = restored \cup {f}
    BY <1>6 DEF Scan!RestoreOld
  <2> QED BY <1>2, <2>1, <2>2, <2>3, DeveloperKeeps
<1>7. CASE Scan!Delete(f)
  <2>1. disk' = [disk EXCEPT ![f] = None] /\ restored' = restored
    BY <1>7 DEF Scan!Delete
  <2>2. disk'[f] = None
    BY <1>3, <2>1
  <2> QED BY <1>2, <2>1, <2>2, DeveloperKeeps
<1> QED BY <1>1, <1>4, <1>5, <1>6, <1>7

\* Steps of the program that leave the files and their records alone.
LEMMA QuietStep ==
  ASSUME ScanInv, PartsAssumption, UNCHANGED <<disk, stat, md5, apk, accepts, built, clock, during, restored, unused>>,
         phase' \in {"idle", "scan", "decide", "build", "update", "clean"}, todo' \subseteq Scan!Walked,
         changed' \subseteq Scan!Walked, quiet' \in BOOLEAN, BuildHolds', QuietFiles'
  PROVE  ScanInv'
<1>1. ScanTypes' /\ TimesPass' /\ Md5IsBuilt'
  BY DEF ScanInv, ScanTypes, TimesPass, Md5IsBuilt, AsksContent, Times, OnDisk, Stats, Scan!Contents
<1>2. \A f : /\ Scan!Unbuilt(f)' = Scan!Unbuilt(f) /\ Differs(f)' = Differs(f)
             /\ RootDiffers(f)' = RootDiffers(f)
  BY DEF Scan!Unbuilt, Scan!Content, Differs, RootDiffers, Scan!ContentIsNew
<1>3. UnbuiltDiffers'
  BY <1>2 DEF ScanInv, UnbuiltDiffers
<1> QED BY <1>1, <1>3 DEF ScanInv

LEMMA ScanSteps ==
  ASSUME ScanInv, PartsAssumption,
         \/ Scan!StartScan \/ Scan!Decide \/ Scan!IncrementalFails \/ Scan!StartUpdate \/ Scan!UpdateEnds
         \/ \E f \in Scan!Walked : Scan!ScanFile(f)
  PROVE  ScanInv'
<1>1. UNCHANGED <<disk, stat, md5, apk, accepts, built, clock, during, restored, unused>>
  BY DEF Scan!StartScan, Scan!Decide, Scan!IncrementalFails, Scan!StartUpdate, Scan!UpdateEnds, Scan!ScanFile,
         Scan!recorded, Scan!history
<1>2. \A f : Scan!Unbuilt(f)' = Scan!Unbuilt(f) /\ Scan!Sees(f)' = Scan!Sees(f)
  BY <1>1 DEF Scan!Unbuilt, Scan!Content, Scan!Sees, Scan!ContentIsNew
<1>3. /\ todo \subseteq Scan!Walked /\ changed \subseteq Scan!Walked /\ quiet \in BOOLEAN
      /\ phase \in {"idle", "scan", "decide", "build", "update", "clean"} /\ BuildHolds /\ QuietFiles
  BY DEF ScanInv, ScanTypes
<1>4. CASE Scan!StartScan
  <2>1. phase' = "scan" /\ todo' = Scan!Walked /\ changed' = {} /\ quiet' = TRUE
    BY <1>4 DEF Scan!StartScan
  <2> QED BY <1>1, <2>1, QuietStep DEF BuildHolds, QuietFiles
<1>5. CASE Scan!Decide
  <2>1. /\ phase = "scan" /\ todo = {} /\ phase' = (IF Scan!NeedsCleanBuild THEN "clean" ELSE "build")
        /\ todo' = changed /\ changed' = changed /\ quiet' = quiet
    BY <1>5 DEF Scan!Decide, Scan!history
  <2>2. phase' = "build" => \A f \in changed : Kind[f] # "config"
    BY <2>1 DEF Scan!NeedsCleanBuild, Scan!OfKind
  <2>3. phase' \in {"clean", "build"}
    BY <2>1
  <2>4. BuildHolds'
    BY <2>1, <2>2, <2>3 DEF BuildHolds
  <2>5. QuietFiles'
    BY <1>2, <1>3, <2>1, <2>3 DEF QuietFiles
  <2> QED BY <1>1, <1>3, <2>1, <2>3, <2>4, <2>5, QuietStep
<1>6. CASE Scan!IncrementalFails
  <2>1. phase' = "idle" /\ todo' = {} /\ quiet' = FALSE /\ changed' = changed
    BY <1>6 DEF Scan!IncrementalFails
  <2> QED BY <1>1, <1>3, <2>1, QuietStep DEF BuildHolds, QuietFiles
<1>7. CASE Scan!StartUpdate
  <2>1. /\ phase = "build" /\ phase' = "update" /\ todo' = changed /\ quiet' = quiet /\ changed' = changed
        /\ \A f \in todo : Kind[f] = "lib"
    BY <1>7 DEF Scan!StartUpdate, Scan!history, Scan!OfKind
  <2>2. BuildHolds'
    BY <1>1, <1>2, <1>3, <2>1 DEF BuildHolds
  <2>3. QuietFiles'
    BY <1>2, <1>3, <2>1 DEF QuietFiles
  <2> QED BY <1>1, <1>3, <2>1, <2>2, <2>3, QuietStep
<1>8. CASE Scan!UpdateEnds
  <2>1. phase = "update" /\ todo = {} /\ phase' = "idle" /\ todo' = todo /\ quiet' = quiet /\ changed' = changed
    BY <1>8 DEF Scan!UpdateEnds, Scan!history
  <2>2. QuietFiles'
    BY <1>2, <1>3, <2>1 DEF QuietFiles
  <2> QED BY <1>1, <1>3, <2>1, <2>2, QuietStep DEF BuildHolds
<1>9. CASE \E f \in Scan!Walked : Scan!ScanFile(f)
  <2>1. PICK f \in Scan!Walked : Scan!ScanFile(f)
    BY <1>9
  <2>2. /\ phase = "scan" /\ phase' = "scan" /\ todo' = todo \ {f} /\ quiet' = quiet
        /\ changed' = IF Scan!Sees(f) THEN changed \cup {f} ELSE changed
    BY <2>1 DEF Scan!ScanFile, Scan!history
  <2>3. QuietFiles'
    BY <1>2, <1>3, <2>2 DEF QuietFiles
  <2> QED BY <1>1, <1>3, <2>2, <2>3, QuietStep DEF BuildHolds
<1> QED BY <1>4, <1>5, <1>6, <1>7, <1>8, <1>9

LEMMA CompileStep ==
  ASSUME ScanInv, PartsAssumption, NEW f \in Scan!Walked, Scan!Compile(f) PROVE ScanInv'
<1> USE DEF PartsAssumption, Scan!ChangeScanAssumption
<1>1. /\ phase = "build" /\ phase' = "build" /\ accepts /\ accepts' = accepts /\ f \in todo /\ todo' = todo \ {f}
      /\ built' = [built EXCEPT ![f] = Scan!Content(f)]
      /\ during' = during \ {f} /\ restored' = restored \ {f}
      /\ UNCHANGED <<disk, stat, md5, apk, changed, clock, unused, quiet>>
  BY DEF Scan!Compile, Scan!recorded
<1>2. f \in Files /\ f \in changed /\ Kind[f] \notin {"config", "root"}
  BY <1>1 DEF ScanInv, BuildHolds, Scan!Walked, Scan!Roots
<1>3. Scan!Content(f) \in Scan!Contents \cup {None} /\ Scan!Content(f)' = Scan!Content(f)
  BY <1>1, <1>2 DEF ScanInv, ScanTypes, OnDisk, Scan!Content
<1>4. built'[f] = Scan!Content(f) /\ \A g \in Files \ {f} : built'[g] = built[g]
  BY <1>1, <1>2 DEF ScanInv, ScanTypes
<1>5. ScanTypes'
  <2>1. built' \in [Files -> Scan!Contents \cup {None}]
    BY <1>1, <1>3 DEF ScanInv, ScanTypes
  <2> QED BY <1>1, <2>1 DEF ScanInv, ScanTypes, Times, OnDisk, Stats, Scan!Contents
<1>6. TimesPass'
  BY <1>1 DEF ScanInv, TimesPass
<1>7. Md5IsBuilt'
  BY <1>1, <1>2, <1>4 DEF ScanInv, Md5IsBuilt, AsksContent
<1>8. ~Scan!Unbuilt(f)' /\ \A g \in Files \ {f} : Scan!Unbuilt(g)' = Scan!Unbuilt(g)
  BY <1>1, <1>3, <1>4 DEF Scan!Unbuilt, Scan!Content
<1>9. \A g : Scan!Sees(g)' = Scan!Sees(g) /\ Differs(g)' = Differs(g) /\ RootDiffers(g)' = RootDiffers(g)
  BY <1>1 DEF Scan!Sees, Differs, RootDiffers, Scan!ContentIsNew, Scan!Content
<1>10. UnbuiltDiffers'
  <2>1. ASSUME NEW g \in Scan!Walked, Scan!Unbuilt(g)' PROVE g \in during' \cup restored' \cup unused' \/ Differs(g)'
    <3>1. g \in Files /\ g # f
      BY <1>8, <2>1 DEF Scan!Walked
    <3>2. g \in during \cup restored \cup unused \/ Differs(g)
      BY <1>1, <1>8, <2>1, <3>1 DEF ScanInv, UnbuiltDiffers
    <3> QED BY <1>1, <1>9, <3>1, <3>2
  <2>2. ASSUME NEW g \in Scan!Roots, Scan!Unbuilt(g)' PROVE g \in restored' \/ RootDiffers(g)'
    <3>1. g \in Files /\ g # f
      BY <1>8, <2>2 DEF Scan!Roots
    <3>2. g \in restored \/ RootDiffers(g)
      BY <1>1, <1>8, <2>2, <3>1 DEF ScanInv, UnbuiltDiffers
    <3> QED BY <1>1, <1>9, <3>1, <3>2
  <2> QED BY <2>1, <2>2 DEF UnbuiltDiffers
<1>11. BuildHolds'
  <2>1. ASSUME NEW g \in changed \ todo', Scan!Unbuilt(g)' PROVE g \in during'
    <3>1. g \in Files /\ g # f /\ g \in changed \ todo
      BY <1>1, <1>8, <2>1 DEF ScanInv, ScanTypes, Scan!Walked
    <3> QED BY <1>1, <1>8, <2>1, <3>1 DEF ScanInv, BuildHolds
  <2> QED BY <1>1, <2>1 DEF ScanInv, BuildHolds
<1>12. QuietFiles'
  BY <1>1, <1>9 DEF ScanInv, QuietFiles
<1> QED BY <1>5, <1>6, <1>7, <1>10, <1>11, <1>12 DEF ScanInv

LEMMA UpdateStep ==
  ASSUME ScanInv, PartsAssumption, NEW f \in Scan!Walked, Scan!UpdateStat(f) PROVE ScanInv'
<1> USE DEF PartsAssumption, Scan!ChangeScanAssumption
<1>1. /\ phase = "update" /\ phase' = "update" /\ f \in todo /\ todo' = todo \ {f}
      /\ unused' = IF Kind[f] = "lib" /\ disk[f] # None THEN unused \cup {f} ELSE unused
      /\ UNCHANGED <<apk, accepts, built, changed, clock, during, restored, quiet>>
  BY DEF Scan!UpdateStat
<1>2. f \in Files /\ f \in changed /\ Kind[f] \notin {"config", "root"}
  BY <1>1 DEF ScanInv, BuildHolds, Scan!Walked, Scan!Roots
<1>3. CASE disk[f] = None
  <2>1. disk' = disk /\ stat' = stat /\ md5' = md5 /\ unused' = unused
    BY <1>1, <1>3 DEF Scan!UpdateStat
  <2>2. ~Scan!Sees(f)
    BY <1>3 DEF Scan!Sees
  <2>3. \A g : Scan!Unbuilt(g)' = Scan!Unbuilt(g) /\ Scan!Sees(g)' = Scan!Sees(g)
    BY <1>1, <2>1 DEF Scan!Unbuilt, Scan!Content, Scan!Sees, Scan!ContentIsNew
  <2>4. BuildHolds'
    BY <1>1, <2>3 DEF ScanInv, BuildHolds
  <2>5. QuietFiles'
    BY <1>1, <2>2, <2>3 DEF ScanInv, QuietFiles
  <2> QED BY <1>1, <2>1, <2>4, <2>5, QuietStep DEF ScanInv, ScanTypes
<1>4. CASE disk[f] # None
  <2>1. /\ disk' = [disk EXCEPT ![f].mtime = clock]
        /\ stat' = [stat EXCEPT ![f] = [mtime |-> clock, size |-> Scan!Size(disk[f].content)]]
        /\ md5' = IF md5[f] # None THEN [md5 EXCEPT ![f] = Scan!Content(f)] ELSE md5
    BY <1>4 DEF Scan!UpdateStat
  <2>2. /\ disk[f] \in OnDisk /\ clock \in Times /\ Scan!Size(disk[f].content) \in 0..1
        /\ Scan!Content(f) = disk[f].content /\ disk[f].content \in Scan!Contents
    BY <1>2, <1>4 DEF ScanInv, ScanTypes, OnDisk, Times, Scan!Size, Scan!Contents, Scan!Content
  <2>3. /\ disk'[f] = [disk[f] EXCEPT !.mtime = clock] /\ disk'[f] \in OnDisk /\ disk' \in [Files -> OnDisk \cup {None}]
        /\ disk'[f].mtime = clock /\ disk'[f].content = disk[f].content
        /\ \A g \in Files \ {f} : disk'[g] = disk[g]
    BY <1>2, <2>1, <2>2 DEF ScanInv, ScanTypes, OnDisk
  <2>4. /\ stat'[f] = [mtime |-> clock, size |-> Scan!Size(disk[f].content)] /\ stat'[f] \in Stats
        /\ stat' \in [Scan!Walked -> Stats \cup {None}]
        /\ \A g \in Scan!Walked \ {f} : stat'[g] = stat[g]
    BY <2>1, <2>2 DEF ScanInv, ScanTypes, Stats
  <2>5. /\ md5' \in [Files -> Scan!Contents \cup {None}]
        /\ md5[f] = None => md5'[f] = None
        /\ \A g \in Files \ {f} : md5'[g] = md5[g]
    BY <1>2, <2>1, <2>2 DEF ScanInv, ScanTypes
  <2>6. disk'[f] # None /\ stat'[f] # None
    <3>1. OnDisk \subseteq [mtime : Nat, content : Nat] /\ Stats \subseteq [mtime : Nat, size : Nat]
      BY DEF OnDisk, Stats, Times, Scan!Contents
    <3> QED BY <2>3, <2>4, <3>1
  <2>7. ScanTypes'
    BY <1>1, <1>2, <2>3, <2>4, <2>5 DEF ScanInv, ScanTypes, Times, OnDisk, Stats, Scan!Contents
  <2>8. TimesPass'
    <3>1. stat'[f].mtime = clock
      BY <2>4
    <3>2. clock \in Nat
      BY DEF ScanInv, ScanTypes
    <3>3. apk' <= clock' /\ clock' = clock
      BY <1>1 DEF ScanInv, TimesPass
    <3>4. ASSUME NEW g \in Files, disk'[g] # None PROVE disk'[g].mtime <= clock
      <4>1. CASE g = f
        <5>1. disk'[f].mtime = clock
          BY <2>3
        <5> QED BY <3>2, <4>1, <5>1
      <4>2. CASE g # f
        BY <2>3, <3>4, <4>2 DEF ScanInv, TimesPass
      <4> QED BY <4>1, <4>2
    <3>5. ASSUME NEW g \in Scan!Walked, stat'[g] # None PROVE stat'[g].mtime <= clock
      BY <2>4, <3>1, <3>2, <3>5 DEF ScanInv, TimesPass
    <3> QED BY <3>3, <3>4, <3>5 DEF TimesPass
  <2>9. Md5IsBuilt'
    BY <1>1, <1>2, <2>5 DEF ScanInv, Md5IsBuilt, AsksContent
  <2>10. Scan!Content(f)' = Scan!Content(f) /\ Scan!Unbuilt(f)' = Scan!Unbuilt(f)
    BY <1>1, <1>4, <2>2, <2>3, <2>6 DEF Scan!Content, Scan!Unbuilt
  <2>11. ~Scan!Sees(f)'
    <3>1. disk'[f].mtime = stat'[f].mtime /\ Scan!Size(disk'[f].content) = stat'[f].size /\ clock \in Nat
      BY <2>3, <2>4 DEF ScanInv, ScanTypes
    <3> QED BY <1>2, <2>3, <2>4, <2>6, <3>1 DEF Scan!Sees
  <2>12. ASSUME NEW g \in Files, g # f PROVE Scan!Unbuilt(g)' = Scan!Unbuilt(g)
    BY <1>1, <2>3, <2>12 DEF Scan!Unbuilt, Scan!Content
  <2>13. ASSUME NEW g \in Scan!Walked, g # f PROVE Scan!Sees(g)' = Scan!Sees(g) /\ Differs(g)' = Differs(g)
    <3>1. g \in Files
      BY DEF Scan!Walked
    <3> QED BY <2>3, <2>4, <2>5, <2>13, <3>1, SameFile
  <2>14. UnbuiltDiffers'
    <3>1. ASSUME accepts', NEW g \in Scan!Walked, Scan!Unbuilt(g)' PROVE g \in during' \cup restored' \cup unused' \/ Differs(g)'
      <4>1. g \in Files /\ Scan!Unbuilt(g)
        BY <2>10, <2>12, <3>1 DEF Scan!Walked
      <4>2. CASE g = f
        BY <1>1, <1>2, <1>4, <4>1, <4>2 DEF ScanInv, BuildHolds
      <4>3. CASE g # f
        BY <1>1, <2>13, <3>1, <4>1, <4>3 DEF ScanInv, UnbuiltDiffers
      <4> QED BY <4>2, <4>3
    <3>2. ASSUME accepts', NEW g \in Scan!Roots, Scan!Unbuilt(g)' PROVE g \in restored' \/ RootDiffers(g)'
      <4>1. g \in Files /\ g # f
        BY DEF Scan!Walked, Scan!Roots
      <4>2. RootDiffers(g)' = RootDiffers(g)
        BY <1>1, <2>3, <2>5, <4>1 DEF RootDiffers, Scan!ContentIsNew, Scan!Content
      <4> QED BY <1>1, <2>12, <3>2, <4>1, <4>2 DEF ScanInv, UnbuiltDiffers
    <3> QED BY <3>1, <3>2 DEF UnbuiltDiffers
  <2>15. BuildHolds'
    <3>1. ASSUME NEW g \in changed PROVE Scan!Unbuilt(g)' = Scan!Unbuilt(g)
      BY <2>10, <2>12 DEF ScanInv, ScanTypes, Scan!Walked
    <3> QED BY <1>1, <3>1 DEF ScanInv, BuildHolds
  <2>16. QuietFiles'
    BY <1>1, <2>11, <2>13 DEF ScanInv, QuietFiles
  <2> QED BY <2>7, <2>8, <2>9, <2>14, <2>15, <2>16 DEF ScanInv
<1> QED BY <1>3, <1>4

LEMMA CleanBuildStep == ASSUME ScanInv, PartsAssumption, Scan!CleanBuild PROVE ScanInv'
<1> USE DEF PartsAssumption, Scan!ChangeScanAssumption
<1>1. /\ phase' = "idle" /\ todo' = {}
      /\ stat' = [f \in Scan!Walked |-> Scan!StatOf(f)]
      /\ md5' = [f \in Files |-> IF f \in Md5Files THEN Scan!Content(f) ELSE md5[f]]
      /\ \/ /\ accepts' = TRUE /\ apk' = clock
            /\ built' = [f \in Files |-> Scan!Content(f)]
            /\ during' = {} /\ restored' = {} /\ unused' = {}
         \/ /\ accepts' = FALSE /\ apk' = apk /\ built' = built
            /\ during' = during /\ restored' = restored /\ unused' = unused
      /\ disk' = disk /\ changed' = changed /\ clock' = clock /\ quiet' = quiet
  BY DEF Scan!CleanBuild
<1>2. \A f \in Files : Scan!Content(f) \in Scan!Contents \cup {None} /\ Scan!Content(f)' = Scan!Content(f)
  BY <1>1 DEF ScanInv, ScanTypes, OnDisk, Scan!Content
<1>3. ASSUME NEW f \in Scan!Walked
      PROVE  /\ Scan!StatOf(f) \in Stats \cup {None}
             /\ disk[f] # None => /\ Scan!StatOf(f) # None /\ Scan!StatOf(f).mtime = disk[f].mtime
                                  /\ Scan!StatOf(f).size = Scan!Size(disk[f].content) /\ disk[f].mtime \in Nat
  <2>1. CASE disk[f] = None
    BY <2>1 DEF Scan!StatOf
  <2>2. CASE disk[f] # None
    <3>1. disk[f] \in OnDisk
      BY <2>2 DEF ScanInv, ScanTypes, Scan!Walked
    <3>2. disk[f].mtime \in Times /\ Scan!Size(disk[f].content) \in 0..1
      BY <3>1 DEF OnDisk, Scan!Contents, Scan!Size
    <3>3. Scan!StatOf(f) = [mtime |-> disk[f].mtime, size |-> Scan!Size(disk[f].content)]
      BY <2>2 DEF Scan!StatOf
    <3>4. Scan!StatOf(f) \in Stats /\ Stats \subseteq [mtime : Nat, size : Nat]
      BY <3>2, <3>3 DEF Stats, Times
    <3> QED BY <3>2, <3>3, <3>4 DEF Times
  <2> QED BY <2>1, <2>2
<1>4. ScanTypes'
  <2>1. stat' \in [Scan!Walked -> Stats \cup {None}] /\ md5' \in [Files -> Scan!Contents \cup {None}]
    BY <1>1, <1>2, <1>3 DEF ScanInv, ScanTypes
  <2>2. built' \in [Files -> Scan!Contents \cup {None}] /\ apk' \in Times /\ accepts' \in BOOLEAN
        /\ during' \subseteq Files /\ restored' \subseteq Files /\ unused' \subseteq Files
    <3>1. apk \in Times /\ clock \in Times /\ built \in [Files -> Scan!Contents \cup {None}]
          /\ during \subseteq Files /\ restored \subseteq Files /\ unused \subseteq Files
      BY DEF ScanInv, ScanTypes, Times
    <3> QED BY <1>1, <1>2, <3>1
  <2> QED BY <1>1, <2>1, <2>2 DEF ScanInv, ScanTypes, Times, OnDisk, Stats, Scan!Contents
<1>5. TimesPass'
  <2>1. ASSUME NEW f \in Scan!Walked, stat'[f] # None PROVE stat'[f].mtime <= clock
    <3>1. disk[f] # None
      BY <1>1, <2>1 DEF Scan!StatOf
    <3>2. stat'[f].mtime = disk[f].mtime
      BY <1>1, <1>3, <3>1
    <3> QED BY <3>1, <3>2 DEF ScanInv, TimesPass, Scan!Walked
  <2>2. apk' <= clock
    BY <1>1 DEF ScanInv, ScanTypes, TimesPass, Times
  <2> QED BY <1>1, <2>1, <2>2 DEF ScanInv, TimesPass
<1>6. Md5IsBuilt'
  BY <1>1 DEF ScanInv, Md5IsBuilt, AsksContent
<1>7. UnbuiltDiffers'
  BY <1>1, <1>2 DEF UnbuiltDiffers, Scan!Unbuilt, Scan!Walked, Scan!Roots
<1>8. BuildHolds'
  BY <1>1 DEF BuildHolds
<1>9. QuietFiles'
  <2>1. ASSUME NEW f \in Scan!Walked PROVE ~Scan!Sees(f)'
    BY <1>1, <1>3 DEF Scan!Sees
  <2> QED BY <2>1 DEF QuietFiles
<1> QED BY <1>4, <1>5, <1>6, <1>7, <1>8, <1>9 DEF ScanInv

LEMMA ScanNext == ASSUME ScanInv, PartsAssumption, [Scan!Next]_(Scan!vars) PROVE ScanInv'
<1>1. CASE Scan!Developer
  BY <1>1, DeveloperStep
<1>2. CASE \/ Scan!StartScan \/ Scan!Decide \/ Scan!IncrementalFails \/ Scan!StartUpdate \/ Scan!UpdateEnds
           \/ \E f \in Scan!Walked : Scan!ScanFile(f)
  BY <1>2, ScanSteps
<1>3. CASE Scan!CleanBuild
  BY <1>3, CleanBuildStep
<1>4. CASE \E f \in Scan!Walked : Scan!Compile(f) \/ Scan!UpdateStat(f)
  BY <1>4, CompileStep, UpdateStep
<1>5. CASE UNCHANGED Scan!vars
  <2>1. UNCHANGED <<disk, stat, md5, apk, accepts, built, phase, todo, changed, clock, during, restored, unused, quiet>>
    BY <1>5 DEF Scan!vars, Scan!recorded, Scan!history
  <2>2. BuildHolds' /\ QuietFiles'
    BY <2>1 DEF ScanInv, BuildHolds, QuietFiles, Scan!Unbuilt, Scan!Content, Scan!Sees, Scan!ContentIsNew
  <2> QED BY <2>1, <2>2, QuietStep DEF ScanInv, ScanTypes
<1> QED BY <1>1, <1>2, <1>3, <1>4, <1>5 DEF Scan!Next

-----------------------------------------------------------------------------
(***************************************************************************)
(* The modules.  A list is extended by the list of each module in it, and  *)
(* where that has happened it has what the module depends on.              *)
(***************************************************************************)
Items == {"name", "path"} \X (Info!Names \cup {Outside})
Lists == Seq(Items)
AllLists == \A m \in Info!Names : list[m] \in Lists

InfoTypes ==
  /\ at \in 1..(Len(Modules) + 1) /\ i \in Nat \ {0}
  /\ source \in {"description", "scripts"} /\ nested \subseteq Info!Names
  /\ declared \in [Info!Names -> SUBSET (Info!Names \cup {Outside})]
  /\ source = "description" => \A m \in Info!Names : declared[m] \subseteq Info!Names
  /\ list \in [Info!Names -> Lists]
  /\ level \subseteq Info!Names /\ found \subseteq Info!Names
  /\ uses \in [Info!Names -> SUBSET Info!Names]

Below(m) == declared[m] \cap Info!Names

\* A list names what its module depends on, and nothing that is not below it; its paths
\* are those of modules in subdirectories.
ListsHold ==
  \A m \in Info!Names :
    /\ Below(m) \subseteq Info!NamesOf(list[m]) /\ Info!NamesOf(list[m]) \subseteq Info!Reachable(m)
    /\ \A k \in DOMAIN list[m] : list[m][k][1] = "path" => list[m][k][2] \in nested

\* The item at a position the loop has passed has brought what it depends on.
Passed ==
  source = "scripts" /\ at <= Len(Modules) =>
    \A k \in DOMAIN list[Info!Module] :
      k < i /\ list[Info!Module][k][1] = "name" /\ list[Info!Module][k][2] \in Info!Names
        => Below(list[Info!Module][k][2]) \subseteq Info!NamesOf(list[Info!Module])

CompletedClosed ==
  source = "scripts" =>
    \A m \in Info!Completed : Info!Reachable(m) \cap nested = {} => Info!Closed(Info!NamesOf(list[m]))

\* The search has found what the module depends on and, below what it has looked at, all.
SearchHolds ==
  source = "description" =>
    /\ \A m \in Info!Names : Below(m) = Info!NamesOf(list[m])
    /\ at <= Len(Modules) /\ i # 1 =>
         /\ Below(Info!Module) \subseteq found /\ found \subseteq Info!Reachable(Info!Module)
         /\ level \subseteq found /\ \A d \in found \ level : Below(d) \subseteq found

InfoInv == InfoTypes /\ ListsHold /\ Passed /\ CompletedClosed /\ SearchHolds /\ Info!ResourcesFromAllBelow

-----------------------------------------------------------------------------
LEMMA ListOfSet ==
  ASSUME NEW S, IsFiniteSet(S)
  PROVE  /\ Info!SetToSeq(S) \in Seq(S)
         /\ \A x : x \in S <=> \E k \in DOMAIN Info!SetToSeq(S) : Info!SetToSeq(S)[k] = x
<1> DEFINE n == Cardinality(S)
<1>1. \A T : Info!Cardinality(T) = Cardinality(T)
  BY Zenon DEF Info!Cardinality, Cardinality
<1>2. n \in Nat /\ ExistsBijection(1..n, S)
  BY FS_CardinalityType
<1>3. PICK f \in Bijection(1..n, S) : TRUE
  BY <1>2 DEF ExistsBijection
<1>4. f \in [1..n -> S] /\ Info!IsInjective(f)
  BY <1>3 DEF Bijection, Injection, IsInjective, Info!IsInjective
<1> DEFINE g == CHOOSE f_1 \in [1..n -> S] : Info!IsInjective(f_1)
<1>5. g \in [1..n -> S] /\ Info!IsInjective(g)
  BY <1>4, Zenon
<1>6. Info!SetToSeq(S) = g
  BY <1>1, Zenon DEF Info!SetToSeq
<1> HIDE DEF g
<1>7. g \in Injection(1..n, S)
  BY <1>5 DEF Injection, IsInjective, Info!IsInjective
<1>8. IsFiniteSet(1..n) /\ Cardinality(1..n) = n
  BY <1>2, FS_Interval
<1>9. g \in Surjection(1..n, S)
  BY <1>7, <1>8, FS_Injection
<1>10. g \in Seq(S) /\ DOMAIN g = 1..n
  BY <1>2, <1>5
<1>11. \A x \in S : \E k \in 1..n : g[k] = x
  BY <1>9 DEF Surjection
<1> QED BY <1>5, <1>6, <1>10, <1>11

LEMMA NamesAreFinite == PartsAssumption => IsFiniteSet(Info!Names)
<1> SUFFICES ASSUME PartsAssumption PROVE IsFiniteSet(Info!Names)
  OBVIOUS
<1>1. Info!Names = {Modules[k] : k \in 1..Len(Modules)} /\ Len(Modules) \in Nat
  BY DEF PartsAssumption, Info!ProjectAssumption, Info!Names, Info!ToSet
<1>2. [k \in 1..Len(Modules) |-> Modules[k]] \in Surjection(1..Len(Modules), Info!Names)
  BY <1>1 DEF Surjection
<1>3. IsFiniteSet(1..Len(Modules))
  BY <1>1, FS_Interval
<1> QED BY <1>2, <1>3, FS_Surjection

LEMMA ModuleIsName ==
  ASSUME PartsAssumption, at \in 1..(Len(Modules) + 1)
  PROVE  /\ Len(Modules) \in Nat
         /\ at <= Len(Modules) => Info!Module \in Info!Names /\ Info!Module \notin Info!Completed
         /\ Info!Completed \subseteq Info!Names
<1>1. Modules \in Seq(Info!Names) /\ Info!IsInjective(Modules)
  BY DEF PartsAssumption, Info!ProjectAssumption
<1>2. Len(Modules) \in Nat /\ DOMAIN Modules = 1..Len(Modules) /\ \A k \in 1..Len(Modules) : Modules[k] \in Info!Names
  BY <1>1
<1>3. \A a, b \in 1..Len(Modules) : Modules[a] = Modules[b] => a = b
  BY <1>1, <1>2, Zenon DEF Info!IsInjective
<1>4. Info!Completed \subseteq Info!Names
  BY <1>2 DEF Info!Completed
<1>5. ASSUME at <= Len(Modules), NEW k \in 1..(at - 1), Modules[k] = Modules[at] PROVE FALSE
  <2>1. k \in 1..Len(Modules) /\ at \in 1..Len(Modules) /\ k # at
    BY <1>2, <1>5
  <2> QED BY <1>3, <1>5, <2>1
<1> QED BY <1>2, <1>4, <1>5 DEF Info!Module, Info!Completed

-----------------------------------------------------------------------------
LEMMA ReachableHolds ==
  ASSUME NEW m \in Info!Names
  PROVE  /\ Below(m) \subseteq Info!Reachable(m)
         /\ Info!Closed(Info!Reachable(m))
         /\ Info!Reachable(m) \subseteq Info!Names
         /\ \A S \in SUBSET Info!Names : Below(m) \subseteq S /\ Info!Closed(S) => Info!Reachable(m) \subseteq S
<1>1. \A n : n \in Info!Reachable(m) <=>
        n \in Info!Names /\ \A S \in SUBSET Info!Names : Below(m) \subseteq S /\ Info!Closed(S) => n \in S
  BY Zenon DEF Info!Reachable, Below
<1>2. \A S : Info!Closed(S) <=> \A d \in S : Below(d) \subseteq S
  BY Zenon DEF Info!Closed, Below
<1>3. \A d : Below(d) \subseteq Info!Names
  BY DEF Below
<1>4. Info!Closed(Info!Reachable(m))
  BY <1>1, <1>2, <1>3
<1> QED BY <1>1, <1>3, <1>4

LEMMA ReachableBelow ==
  ASSUME NEW m \in Info!Names, NEW d \in Info!Reachable(m)
  PROVE  Info!Reachable(d) \subseteq Info!Reachable(m)
<1>1. /\ d \in Info!Names /\ Info!Reachable(m) \in SUBSET Info!Names
      /\ Info!Closed(Info!Reachable(m))
  BY ReachableHolds
<1>2. Below(d) \subseteq Info!Reachable(m)
  BY <1>1, Zenon DEF Info!Closed, Below
<1> QED BY <1>1, <1>2, ReachableHolds

LEMMA NamesOfIs ==
  ASSUME NEW s
  PROVE  \A m : m \in Info!NamesOf(s) <=> m \in Info!Names /\ \E k \in DOMAIN s : s[k][2] = m
BY Zenon DEF Info!NamesOf

LEMMA NamesJoined ==
  ASSUME NEW a \in Lists, NEW b \in Lists
  PROVE  /\ a \o b \in Lists
         /\ Info!NamesOf(a \o b) = Info!NamesOf(a) \cup Info!NamesOf(b)
         /\ \A k \in DOMAIN (a \o b) : \/ k \in DOMAIN a /\ (a \o b)[k] = a[k]
                                       \/ k - Len(a) \in DOMAIN b /\ (a \o b)[k] = b[k - Len(a)]
         /\ \A k \in DOMAIN a : k \in DOMAIN (a \o b) /\ (a \o b)[k] = a[k]
<1> USE DEF Lists
<1>1. a \o b \in Seq(Items) /\ Len(a) \in Nat /\ Len(b) \in Nat /\ Len(a \o b) = Len(a) + Len(b)
      /\ DOMAIN a = 1..Len(a) /\ DOMAIN b = 1..Len(b) /\ DOMAIN (a \o b) = 1..(Len(a) + Len(b))
  OBVIOUS
<1>2. ASSUME NEW k \in DOMAIN (a \o b)
      PROVE  \/ k \in DOMAIN a /\ (a \o b)[k] = a[k]
             \/ k - Len(a) \in DOMAIN b /\ (a \o b)[k] = b[k - Len(a)]
  BY <1>1
<1>3. ASSUME NEW k \in DOMAIN a PROVE k \in DOMAIN (a \o b) /\ (a \o b)[k] = a[k]
  BY <1>1
<1>4. ASSUME NEW k \in DOMAIN b PROVE k + Len(a) \in DOMAIN (a \o b) /\ (a \o b)[k + Len(a)] = b[k]
  BY <1>1
<1>5. ASSUME NEW m PROVE m \in Info!NamesOf(a \o b) <=> m \in Info!NamesOf(a) \/ m \in Info!NamesOf(b)
  <2>1. ASSUME NEW k \in DOMAIN (a \o b), (a \o b)[k][2] = m
        PROVE  (\E l \in DOMAIN a : a[l][2] = m) \/ (\E l \in DOMAIN b : b[l][2] = m)
    BY <1>2, <2>1, Zenon
  <2>2. ASSUME NEW k \in DOMAIN a, a[k][2] = m PROVE \E l \in DOMAIN (a \o b) : (a \o b)[l][2] = m
    BY <1>3, <2>2, Zenon
  <2>3. ASSUME NEW k \in DOMAIN b, b[k][2] = m PROVE \E l \in DOMAIN (a \o b) : (a \o b)[l][2] = m
    BY <1>4, <2>3, Zenon
  <2> QED BY <2>1, <2>2, <2>3, NamesOfIs, Zenon
<1> QED BY <1>1, <1>2, <1>3, <1>5

\* A list made of a set of modules names that set.
LEMMA ListNames ==
  ASSUME PartsAssumption, NEW D \in SUBSET (Info!Names \cup {Outside}), NEW kind \in [D -> {"name", "path"}],
         NEW s, s = Info!SetToSeq({<<kind[d], d>> : d \in D})
  PROVE  /\ s \in Lists /\ Info!NamesOf(s) = D \cap Info!Names
         /\ \A k \in DOMAIN s : s[k][2] \in D /\ s[k][1] = kind[s[k][2]]
<1> DEFINE S == {<<kind[d], d>> : d \in D}
<1>1. IsFiniteSet(D)
  <2>1. IsFiniteSet(Info!Names \cup {Outside})
    BY NamesAreFinite, FS_AddElement
  <2> QED BY <2>1, FS_Subset
<1>2. [d \in D |-> <<kind[d], d>>] \in Surjection(D, S)
  BY DEF Surjection
<1>3. IsFiniteSet(S)
  BY <1>1, <1>2, FS_Surjection
<1>4. s \in Seq(S) /\ \A x : x \in S <=> \E k \in DOMAIN s : s[k] = x
  BY <1>3, ListOfSet
<1>5. S \subseteq Items
  BY DEF Items
<1>6. s \in Lists
  BY <1>4, <1>5 DEF Lists
<1>7. ASSUME NEW k \in DOMAIN s PROVE s[k][2] \in D /\ s[k][1] = kind[s[k][2]]
  <2>1. s[k] \in S
    BY <1>4
  <2>2. PICK d \in D : s[k] = <<kind[d], d>>
    BY <2>1
  <2> QED BY <2>2
<1>8. ASSUME NEW d \in D PROVE \E k \in DOMAIN s : s[k][2] = d
  <2>1. <<kind[d], d>> \in S
    OBVIOUS
  <2>2. PICK k \in DOMAIN s : s[k] = <<kind[d], d>>
    BY <1>4, <2>1
  <2> QED BY <2>2
<1>9. Info!NamesOf(s) = D \cap Info!Names
  BY <1>7, <1>8, NamesOfIs
<1> QED BY <1>6, <1>7, <1>9

-----------------------------------------------------------------------------
LEMMA InfoStarts == ASSUME Info!Init, PartsAssumption PROVE InfoInv
<1>1. /\ source \in {"description", "scripts"} /\ at = 1 /\ i = 1 /\ level = {} /\ found = {}
      /\ uses = [m \in Info!Names |-> {}]
      /\ list = [m \in Info!Names |-> Info!SetToSeq({Info!Path(d) : d \in declared[m]})]
      /\ source = "description" => \A m \in Info!Names : Outside \notin declared[m]
  BY Zenon DEF Info!Init
<1>2. declared \in [Info!Names -> SUBSET (Info!Names \cup {Outside})]
  <2>1. declared \in [Info!Names -> {S \in SUBSET (Info!Names \cup {Outside}) : Info!Cardinality(S) <= MaxDeclared}]
    BY Zenon DEF Info!Init
  <2> QED BY <2>1
<1>3. nested \subseteq Info!Names
  <2>1. nested \in {S \in SUBSET Info!Names : Info!Cardinality(S) <= MaxNested}
    BY Zenon DEF Info!Init
  <2> QED BY <2>1
<1>4. ASSUME NEW m \in Info!Names
      PROVE  /\ list[m] \in Lists /\ Info!NamesOf(list[m]) = Below(m)
             /\ \A k \in DOMAIN list[m] : list[m][k][1] = "path" => list[m][k][2] \in nested
  <2> DEFINE kind == [d \in declared[m] |-> IF d \in nested THEN "path" ELSE "name"]
  <2>1. declared[m] \in SUBSET (Info!Names \cup {Outside}) /\ kind \in [declared[m] -> {"name", "path"}]
    BY <1>2
  <2>2. \A d \in declared[m] : Info!Path(d) = <<kind[d], d>>
    BY DEF Info!Path, Info!Name
  <2>3. {Info!Path(d) : d \in declared[m]} = {<<kind[d], d>> : d \in declared[m]}
    BY <2>2
  <2>4. list[m] = Info!SetToSeq({<<kind[d], d>> : d \in declared[m]})
    BY <1>1, <2>3
  <2>5. \A d \in declared[m] : kind[d] = "path" => d \in nested
    OBVIOUS
  <2> HIDE DEF kind
  <2>6. /\ list[m] \in Lists /\ Info!NamesOf(list[m]) = declared[m] \cap Info!Names
        /\ \A k \in DOMAIN list[m] : list[m][k][2] \in declared[m] /\ list[m][k][1] = kind[list[m][k][2]]
    BY <2>1, <2>4, ListNames
  <2> QED BY <2>5, <2>6 DEF Below
<1>5. Len(Modules) \in Nat
  BY DEF PartsAssumption, Info!ProjectAssumption
<1>6. InfoTypes
  <2>1. list \in [Info!Names -> Lists]
    BY <1>1, <1>4
  <2>2. source = "description" => \A m \in Info!Names : declared[m] \subseteq Info!Names
    BY <1>1, <1>2
  <2> QED BY <1>1, <1>2, <1>3, <1>5, <2>1, <2>2 DEF InfoTypes
<1>7. ListsHold
  BY <1>4, ReachableHolds DEF ListsHold
<1>8. Info!Completed = {}
  BY <1>1 DEF Info!Completed
<1>9. Passed
  <2>1. ASSUME NEW k \in DOMAIN list[Info!Module], at <= Len(Modules) PROVE ~(k < i)
    <3>1. Info!Module \in Info!Names
      BY <1>1, <1>5, <2>1, ModuleIsName
    <3>2. list[Info!Module] \in Seq(Items)
      BY <1>4, <3>1 DEF Lists
    <3> QED BY <1>1, <2>1, <3>2
  <2> QED BY <2>1 DEF Passed
<1>10. CompletedClosed /\ Info!ResourcesFromAllBelow
  BY <1>8 DEF CompletedClosed, Info!ResourcesFromAllBelow
<1>11. SearchHolds
  BY <1>1, <1>4 DEF SearchHolds
<1> QED BY <1>6, <1>7, <1>9, <1>10, <1>11 DEF InfoInv

LEMMA ExtendStep == ASSUME InfoInv, PartsAssumption, Info!Extend PROVE InfoInv'
<1> DEFINE m == Info!Module
           item == list[m][i]
<1>1. /\ source = "scripts" /\ at <= Len(Modules) /\ i <= Len(list[m]) /\ i' = i + 1
      /\ list' = IF item[1] = "name" /\ item[2] \in Info!Names
                   THEN [list EXCEPT ![m] = @ \o list[item[2]]] ELSE list
      /\ UNCHANGED <<declared, nested, source, cached, at, level, found, uses>>
  BY DEF Info!Extend, Info!input
<1>2. at \in 1..(Len(Modules) + 1) /\ i \in Nat \ {0} /\ list \in [Info!Names -> Lists]
  BY DEF InfoInv, InfoTypes
<1>3. m \in Info!Names /\ m \notin Info!Completed /\ m' = m /\ Info!Completed' = Info!Completed
      /\ Info!Completed \subseteq Info!Names
  BY <1>1, <1>2, ModuleIsName DEF Info!Module, Info!Completed
<1> HIDE DEF m
<1>4. list[m] \in Lists /\ i \in DOMAIN list[m] /\ item \in Items
  <2>1. list[m] \in Seq(Items)
    BY <1>2, <1>3 DEF Lists
  <2> QED BY <1>1, <1>2, <2>1 DEF Lists
<1>5. \A n : Below(n)' = Below(n)
  BY <1>1 DEF Below
<1>6. \A n : Info!Reachable(n)' = Info!Reachable(n)
  BY <1>1 DEF Info!Reachable, Info!Closed
<1>7. \A s : Info!NamesOf(s)' = Info!NamesOf(s)
  OBVIOUS
<1> DEFINE Brings == item[1] = "name" /\ item[2] \in Info!Names
<1>8. /\ list' \in [Info!Names -> Lists]
      /\ \A n \in Info!Names \ {m} : list'[n] = list[n]
      /\ ~Brings => list'[m] = list[m]
      /\ Brings => list'[m] = list[m] \o list[item[2]]
  <2>1. CASE Brings
    <3>1. list[item[2]] \in Lists /\ list[m] \o list[item[2]] \in Lists
      BY <1>2, <1>4, <2>1, NamesJoined
    <3> HIDE DEF item
    <3> QED BY <1>1, <1>2, <1>3, <2>1, <3>1
  <2>2. CASE ~Brings
    BY <1>1, <1>2, <2>2
  <2> QED BY <2>1, <2>2
<1>9. /\ Info!NamesOf(list[m]) \subseteq Info!NamesOf(list'[m])
      /\ Brings => Info!NamesOf(list'[m]) = Info!NamesOf(list[m]) \cup Info!NamesOf(list[item[2]])
      /\ \A k \in DOMAIN list[m] : k \in DOMAIN list'[m] /\ list'[m][k] = list[m][k]
  <2>1. CASE Brings
    <3> HIDE DEF item
    <3>1. list[item[2]] \in Lists /\ list'[m] = list[m] \o list[item[2]]
      BY <1>2, <1>8, <2>1
    <3>2. Info!NamesOf(list'[m]) = Info!NamesOf(list[m]) \cup Info!NamesOf(list[item[2]])
      BY <1>4, <3>1, NamesJoined
    <3>3. \A k \in DOMAIN list[m] : k \in DOMAIN list'[m] /\ list'[m][k] = list[m][k]
      <4>1. list[m] \in Lists /\ list[item[2]] \in Lists
        BY <1>4, <3>1
      <4>2. \A k \in DOMAIN list[m] : /\ k \in DOMAIN (list[m] \o list[item[2]])
                                      /\ (list[m] \o list[item[2]])[k] = list[m][k]
        BY <4>1, NamesJoined
      <4> QED BY <3>1, <4>2, Zenon
    <3> QED BY <3>2, <3>3
  <2>2. CASE ~Brings
    BY <1>8, <2>2
  <2> QED BY <2>1, <2>2
<1>10. \A k \in DOMAIN list'[m] :
         \/ k \in DOMAIN list[m] /\ list'[m][k] = list[m][k]
         \/ Brings /\ k - Len(list[m]) \in DOMAIN list[item[2]] /\ list'[m][k] = list[item[2]][k - Len(list[m])]
  <2>1. CASE Brings
    <3> HIDE DEF item
    <3>1. list[item[2]] \in Lists /\ list'[m] = list[m] \o list[item[2]]
      BY <1>2, <1>8, <2>1
    <3>2. \A k \in DOMAIN list'[m] :
            \/ k \in DOMAIN list[m] /\ list'[m][k] = list[m][k]
            \/ k - Len(list[m]) \in DOMAIN list[item[2]] /\ list'[m][k] = list[item[2]][k - Len(list[m])]
      <4>1. list[m] \in Lists /\ list[item[2]] \in Lists
        BY <1>4, <3>1
      <4>2. \A k \in DOMAIN (list[m] \o list[item[2]]) :
              \/ k \in DOMAIN list[m] /\ (list[m] \o list[item[2]])[k] = list[m][k]
              \/ k - Len(list[m]) \in DOMAIN list[item[2]]
                 /\ (list[m] \o list[item[2]])[k] = list[item[2]][k - Len(list[m])]
        BY <4>1, NamesJoined
      <4> QED BY <3>1, <4>2, Zenon
    <3> QED BY <2>1, <3>2
  <2>2. CASE ~Brings
    BY <1>8, <2>2
  <2> QED BY <2>1, <2>2
<1>11. InfoTypes'
  BY <1>1, <1>2, <1>8 DEF InfoInv, InfoTypes
<1>12. ListsHold'
  <2>1. ASSUME NEW n \in Info!Names
        PROVE  /\ Below(n) \subseteq Info!NamesOf(list[n]) /\ Info!NamesOf(list[n]) \subseteq Info!Reachable(n)
               /\ \A k \in DOMAIN list[n] : list[n][k][1] = "path" => list[n][k][2] \in nested
    BY DEF InfoInv, ListsHold
  <2>2. Info!NamesOf(list'[m]) \subseteq Info!Reachable(m)
    <3>1. CASE Brings
      <4>1. item[2] \in Info!NamesOf(list[m])
        BY <1>4, <3>1, NamesOfIs
      <4>2. Info!NamesOf(list[item[2]]) \subseteq Info!Reachable(item[2])
        BY <2>1, <3>1
      <4>3. Info!Reachable(item[2]) \subseteq Info!Reachable(m)
        BY <1>3, <2>1, <4>1, ReachableBelow
      <4> QED BY <1>3, <1>9, <2>1, <3>1, <4>2, <4>3
    <3>2. CASE ~Brings
      BY <1>3, <1>8, <2>1, <3>2
    <3> QED BY <3>1, <3>2
  <2>3. ASSUME NEW k \in DOMAIN list'[m], list'[m][k][1] = "path" PROVE list'[m][k][2] \in nested
    <3>1. CASE k \in DOMAIN list[m] /\ list'[m][k] = list[m][k]
      BY <1>3, <2>1, <2>3, <3>1
    <3>2. CASE Brings /\ k - Len(list[m]) \in DOMAIN list[item[2]] /\ list'[m][k] = list[item[2]][k - Len(list[m])]
      <4> HIDE DEF item
      <4>1. item[2] \in Info!Names
        BY <3>2
      <4> QED BY <2>1, <2>3, <3>2, <4>1
    <3> QED BY <1>10, <3>1, <3>2
  <2>4. ASSUME NEW n \in Info!Names
        PROVE  /\ Below(n) \subseteq Info!NamesOf(list'[n]) /\ Info!NamesOf(list'[n]) \subseteq Info!Reachable(n)
               /\ \A k \in DOMAIN list'[n] : list'[n][k][1] = "path" => list'[n][k][2] \in nested
    <3>1. CASE n = m
      BY <1>9, <2>1, <2>2, <2>3, <3>1
    <3>2. CASE n # m
      BY <1>8, <2>1, <3>2
    <3> QED BY <3>1, <3>2
  <2>5. nested' = nested
    BY <1>1
  <2> QED BY <1>5, <1>6, <2>4, <2>5 DEF ListsHold
<1>13. Passed'
  <2>1. ASSUME NEW k \in DOMAIN list'[m], k < i', list'[m][k][1] = "name", list'[m][k][2] \in Info!Names
        PROVE  Below(list'[m][k][2]) \subseteq Info!NamesOf(list'[m])
    <3>1. k \in DOMAIN list[m] /\ list'[m][k] = list[m][k]
      <4>1. DOMAIN list'[m] \subseteq Nat \ {0} /\ DOMAIN list[m] = 1..Len(list[m]) /\ Len(list[m]) \in Nat
        BY <1>3, <1>4, <1>8 DEF Lists
      <4>2. k \in 1..Len(list[m])
        BY <1>1, <1>2, <2>1, <4>1
      <4> QED BY <1>9, <4>1, <4>2
    <3>2. CASE k < i
      <4>1. Below(list[m][k][2]) \subseteq Info!NamesOf(list[m])
        BY <1>1, <2>1, <3>1, <3>2 DEF InfoInv, Passed, m
      <4> QED BY <1>9, <3>1, <4>1
    <3>3. CASE ~(k < i)
      <4>1. k = i
        <5>1. k \in Nat
          BY <1>4, <3>1 DEF Lists
        <5> QED BY <1>1, <1>2, <2>1, <3>3, <5>1
      <4>2. Brings /\ item[2] \in Info!Names /\ list'[m][k][2] = item[2]
        BY <2>1, <3>1, <4>1
      <4>3. Below(item[2]) \subseteq Info!NamesOf(list[item[2]])
        BY <4>2 DEF InfoInv, ListsHold
      <4> QED BY <1>9, <4>2, <4>3
    <3> QED BY <3>2, <3>3
  <2>2. Info!Module' = m
    BY <1>3 DEF m
  <2> QED BY <1>5, <2>1, <2>2 DEF Passed
<1>14. CompletedClosed'
  <2>1. ASSUME NEW n \in Info!Completed, Info!Reachable(n) \cap nested = {} PROVE Info!Closed(Info!NamesOf(list'[n]))
    <3>1. n \in Info!Names /\ n # m
      BY <1>3
    <3>2. list'[n] = list[n]
      BY <1>8, <3>1
    <3> QED BY <1>1, <2>1, <3>2 DEF InfoInv, CompletedClosed
  <2>2. \A S : Info!Closed(S)' = Info!Closed(S)
    BY <1>1 DEF Info!Closed
  <2>3. nested' = nested
    BY <1>1
  <2> QED BY <1>3, <1>6, <2>1, <2>2, <2>3 DEF CompletedClosed
<1>15. SearchHolds' /\ Info!ResourcesFromAllBelow'
  BY <1>1 DEF SearchHolds, Info!ResourcesFromAllBelow
<1> QED BY <1>11, <1>12, <1>13, <1>14, <1>15 DEF InfoInv

LEMMA CompleteFromScriptsStep == ASSUME InfoInv, PartsAssumption, Info!CompleteFromScripts PROVE InfoInv'
<1> DEFINE m == Info!Module
           names == Info!NamesOf(list[m])
<1>1. /\ source = "scripts" /\ at <= Len(Modules) /\ i > Len(list[m])
      /\ list' = [list EXCEPT ![m] = Info!SetToSeq({Info!Name(n) : n \in names})]
      /\ uses' = [uses EXCEPT ![m] = {m} \cap cached]
      /\ at' = at + 1 /\ i' = 1
      /\ UNCHANGED <<declared, nested, source, cached, level, found>>
  BY DEF Info!CompleteFromScripts, Info!input
<1>2. at \in 1..(Len(Modules) + 1) /\ list \in [Info!Names -> Lists] /\ i \in Nat
      /\ uses \in [Info!Names -> SUBSET Info!Names]
  BY DEF InfoInv, InfoTypes
<1>3. m \in Info!Names /\ m \notin Info!Completed /\ Info!Completed \subseteq Info!Names /\ Len(Modules) \in Nat
  BY <1>1, <1>2, ModuleIsName
<1>4. Info!Completed' = Info!Completed \cup {m} /\ at' \in 1..(Len(Modules) + 1)
  BY <1>1, <1>2, <1>3 DEF Info!Completed, Info!Module
<1> HIDE DEF m
<1>5. names \subseteq Info!Names
  BY NamesOfIs
<1>6. /\ list'[m] \in Lists /\ Info!NamesOf(list'[m]) = names
      /\ \A k \in DOMAIN list'[m] : list'[m][k][1] = "name"
  <2> DEFINE kind == [n \in names |-> "name"]
  <2> HIDE DEF names
  <2>1. names \in SUBSET (Info!Names \cup {Outside}) /\ kind \in [names -> {"name", "path"}]
    BY <1>5
  <2>2. {Info!Name(n) : n \in names} = {<<kind[n], n>> : n \in names}
    BY DEF Info!Name
  <2>3. list'[m] = Info!SetToSeq({<<kind[n], n>> : n \in names})
    <3>1. list'[m] = Info!SetToSeq({Info!Name(n) : n \in names})
      BY <1>1, <1>2, <1>3
    <3> QED BY <2>2, <3>1
  <2>4. \A n \in names : kind[n] = "name"
    OBVIOUS
  <2> HIDE DEF kind
  <2>5. /\ list'[m] \in Lists /\ Info!NamesOf(list'[m]) = names \cap Info!Names
        /\ \A k \in DOMAIN list'[m] : list'[m][k][2] \in names /\ list'[m][k][1] = kind[list'[m][k][2]]
    BY <2>1, <2>3, ListNames
  <2> QED BY <1>5, <2>4, <2>5
<1>7. list' \in [Info!Names -> Lists] /\ \A n \in Info!Names \ {m} : list'[n] = list[n]
  BY <1>1, <1>2, <1>3, <1>6
<1>8. \A n : Below(n)' = Below(n)
  BY <1>1 DEF Below
<1>9. /\ \A n : Info!Reachable(n)' = Info!Reachable(n)
      /\ \A S : Info!Closed(S)' = Info!Closed(S)
  BY <1>1 DEF Info!Reachable, Info!Closed
<1>10. InfoTypes'
  <2>1. uses' \in [Info!Names -> SUBSET Info!Names]
    BY <1>1, <1>2, <1>3
  <2>2. /\ source' \in {"description", "scripts"} /\ nested' \subseteq Info!Names
        /\ declared' \in [Info!Names -> SUBSET (Info!Names \cup {Outside})]
        /\ source' = "description" => \A n \in Info!Names : declared'[n] \subseteq Info!Names
        /\ level' \subseteq Info!Names /\ found' \subseteq Info!Names
    BY <1>1 DEF InfoInv, InfoTypes
  <2> QED BY <1>1, <1>4, <1>7, <2>1, <2>2 DEF InfoTypes
<1>11. ASSUME NEW n \in Info!Names
       PROVE  /\ Below(n) \subseteq Info!NamesOf(list[n]) /\ Info!NamesOf(list[n]) \subseteq Info!Reachable(n)
              /\ \A k \in DOMAIN list[n] : list[n][k][1] = "path" => list[n][k][2] \in nested
  BY DEF InfoInv, ListsHold
<1>12. ListsHold'
  <2>1. ASSUME NEW n \in Info!Names
        PROVE  /\ Below(n) \subseteq Info!NamesOf(list'[n]) /\ Info!NamesOf(list'[n]) \subseteq Info!Reachable(n)
               /\ \A k \in DOMAIN list'[n] : list'[n][k][1] = "path" => list'[n][k][2] \in nested
    <3>1. CASE n = m
      BY <1>6, <1>11, <3>1
    <3>2. CASE n # m
      BY <1>7, <1>11, <3>2
    <3> QED BY <3>1, <3>2
  <2>2. nested' = nested
    BY <1>1
  <2> QED BY <1>8, <1>9, <2>1, <2>2 DEF ListsHold
<1>13. Passed'
  <2>1. ASSUME at' <= Len(Modules), NEW k \in DOMAIN list'[Info!Module'] PROVE ~(k < i')
    <3>1. Info!Module' \in Info!Names
      <4>1. at' \in 1..Len(Modules)
        BY <1>3, <1>4, <2>1
      <4> QED BY <4>1 DEF Info!Module, PartsAssumption, Info!ProjectAssumption
    <3>2. list'[Info!Module'] \in Lists
      BY <1>7, <3>1
    <3> QED BY <1>1, <2>1, <3>2 DEF Lists
  <2> QED BY <2>1 DEF Passed
<1>14. CompletedClosed'
  <2>1. ASSUME Info!Reachable(m) \cap nested = {}, NEW d \in names PROVE Below(d) \subseteq names
    <3>1. PICK k \in DOMAIN list[m] : list[m][k][2] = d /\ d \in Info!Names
      BY NamesOfIs
    <3>2. list[m] \in Seq(Items)
      BY <1>2, <1>3 DEF Lists
    <3>3. k < i /\ list[m][k] \in Items
      BY <1>1, <1>2, <3>2
    <3>4. d \in Info!Reachable(m)
      BY <1>3, <1>11
    <3>5. list[m][k][1] # "path"
      BY <1>3, <1>11, <2>1, <3>1, <3>4
    <3>6. list[m][k][1] = "name"
      BY <3>3, <3>5 DEF Items
    <3> QED BY <1>1, <3>1, <3>3, <3>6 DEF InfoInv, Passed, m
  <2>2. ASSUME NEW n \in Info!Completed \cup {m}, Info!Reachable(n) \cap nested = {}
        PROVE  Info!Closed(Info!NamesOf(list'[n]))
    <3>1. CASE n = m
      <4> HIDE DEF names
      <4>1. \A d \in names : declared[d] \cap Info!Names \subseteq names
        BY <2>1, <2>2, <3>1 DEF Below
      <4>2. Info!Closed(names)
        BY <4>1, Zenon DEF Info!Closed
      <4> QED BY <1>6, <3>1, <4>2
    <3>2. CASE n # m
      <4>1. n \in Info!Completed /\ n \in Info!Names \ {m}
        BY <1>3, <3>2
      <4>2. list'[n] = list[n]
        BY <1>7, <4>1
      <4> QED BY <1>1, <2>2, <4>1, <4>2 DEF InfoInv, CompletedClosed
    <3> QED BY <3>1, <3>2
  <2>3. nested' = nested
    BY <1>1
  <2> QED BY <1>4, <1>9, <2>2, <2>3 DEF CompletedClosed
<1>15. SearchHolds' /\ Info!ResourcesFromAllBelow'
  BY <1>1 DEF SearchHolds, Info!ResourcesFromAllBelow
<1> QED BY <1>10, <1>12, <1>13, <1>14, <1>15 DEF InfoInv

\* Steps of the search: the lists and all that is declared stay as they are.
LEMMA SearchSteps ==
  ASSUME InfoInv, PartsAssumption, Info!BeginSearch \/ Info!Search \/ Info!CompleteFromDescription
  PROVE  InfoInv'
<1> DEFINE m == Info!Module
<1>1. /\ source = "description" /\ at <= Len(Modules) /\ UNCHANGED <<declared, nested, source, cached, list>>
  BY DEF Info!BeginSearch, Info!Search, Info!CompleteFromDescription, Info!input
<1>2. /\ at \in 1..(Len(Modules) + 1) /\ i \in Nat \ {0}
      /\ \A n \in Info!Names : declared[n] \subseteq Info!Names
      /\ level \subseteq Info!Names /\ found \subseteq Info!Names
      /\ uses \in [Info!Names -> SUBSET Info!Names]
  BY <1>1 DEF InfoInv, InfoTypes
<1>3. m \in Info!Names /\ m \notin Info!Completed /\ Info!Completed \subseteq Info!Names /\ Len(Modules) \in Nat
  BY <1>1, <1>2, ModuleIsName
<1>4. /\ \A n : Below(n)' = Below(n) /\ Info!Reachable(n)' = Info!Reachable(n)
      /\ \A S : Info!Closed(S)' = Info!Closed(S) /\ Info!NamesOf(S)' = Info!NamesOf(S)
  BY <1>1 DEF Below, Info!Reachable, Info!Closed
<1>5. ListsHold' /\ Passed' /\ CompletedClosed'
  <2>1. ListsHold'
    BY <1>1, <1>4 DEF InfoInv, ListsHold
  <2> QED BY <1>1, <2>1 DEF Passed, CompletedClosed
<1>6. ASSUME NEW n \in Info!Names
      PROVE  /\ Below(n) = Info!NamesOf(list[n]) /\ Below(n) = declared[n] /\ Below(n) \subseteq Info!Names
             /\ Below(n) \subseteq Info!Reachable(n) /\ Info!Reachable(n) \subseteq Info!Names
  BY <1>1, <1>2, ReachableHolds DEF InfoInv, SearchHolds, Below
<1> DEFINE Types == /\ at' \in 1..(Len(Modules) + 1) /\ i' \in Nat \ {0}
                    /\ level' \subseteq Info!Names /\ found' \subseteq Info!Names
                    /\ uses' \in [Info!Names -> SUBSET Info!Names]
           Finds == at' <= Len(Modules) /\ i' # 1 =>
                      /\ Below(Info!Module') \subseteq found' /\ found' \subseteq Info!Reachable(Info!Module')
                      /\ level' \subseteq found' /\ \A d \in found' \ level' : Below(d) \subseteq found'
           Gives == \A n \in Info!Completed' : uses'[n] = ({n} \cup Info!Reachable(n)) \cap cached
<1>7. Types => InfoTypes'
  <2>1. /\ source' \in {"description", "scripts"} /\ nested' \subseteq Info!Names
        /\ declared' \in [Info!Names -> SUBSET (Info!Names \cup {Outside})]
        /\ source' = "description" => \A n \in Info!Names : declared'[n] \subseteq Info!Names
        /\ list' \in [Info!Names -> Lists]
    BY <1>1 DEF InfoInv, InfoTypes
  <2> QED BY <2>1 DEF InfoTypes
<1>8. Finds => SearchHolds'
  <2>1. \A n \in Info!Names : Below(n)' = Info!NamesOf(list'[n])
    BY <1>1, <1>4, <1>6
  <2> QED BY <1>4, <2>1 DEF SearchHolds
<1>9. Gives => Info!ResourcesFromAllBelow'
  BY <1>1, <1>4 DEF Info!ResourcesFromAllBelow
<1>10. SUFFICES Types /\ Finds /\ Gives
  BY <1>5, <1>7, <1>8, <1>9 DEF InfoInv
<1>11. \A n \in Info!Completed : uses[n] = ({n} \cup Info!Reachable(n)) \cap cached
  BY <1>1 DEF InfoInv, Info!ResourcesFromAllBelow
<1>12. i # 1 => /\ Below(m) \subseteq found /\ found \subseteq Info!Reachable(m)
                /\ level \subseteq found /\ \A d \in found \ level : Below(d) \subseteq found
  BY <1>1 DEF InfoInv, SearchHolds
<1>13. CASE Info!BeginSearch
  <2>1. level' = Info!NamesOf(list[m]) /\ found' = Info!NamesOf(list[m]) /\ i' = 2 /\ at' = at /\ uses' = uses
    BY <1>13 DEF Info!BeginSearch
  <2>2. Info!Module' = m /\ Info!Completed' = Info!Completed
    BY <2>1 DEF Info!Module, Info!Completed
  <2> HIDE DEF m
  <2>3. level' = Below(m) /\ found' = Below(m)
    BY <1>3, <1>6, <2>1
  <2>4. Types
    BY <1>2, <1>3, <1>6, <2>1, <2>3
  <2>5. Finds
    BY <1>3, <1>6, <2>2, <2>3
  <2>6. Gives
    BY <1>11, <2>1, <2>2
  <2> QED BY <2>4, <2>5, <2>6
<1>14. CASE Info!Search
  <2>1. /\ i = 2 /\ level' = UNION {declared[n] : n \in level} /\ found' = found \cup level'
        /\ i' = i /\ at' = at /\ uses' = uses
    BY <1>14 DEF Info!Search
  <2>2. Info!Module' = m /\ Info!Completed' = Info!Completed
    BY <2>1 DEF Info!Module, Info!Completed
  <2> HIDE DEF m
  <2>3. \A d : d \in level' <=> \E n \in level : d \in Below(n)
    BY <1>2, <1>6, <2>1
  <2>4. Types
    BY <1>2, <1>6, <2>1, <2>3
  <2>5. Info!Closed(Info!Reachable(m)) /\ found \subseteq Info!Reachable(m) /\ level \subseteq found
    BY <1>3, <1>12, <2>1, ReachableHolds
  <2>6. \A n \in level : Below(n) \subseteq Info!Reachable(m)
    BY <2>5, Zenon DEF Info!Closed, Below
  <2>7. Finds
    BY <1>12, <2>1, <2>2, <2>3, <2>5, <2>6
  <2>8. Gives
    BY <1>11, <2>1, <2>2
  <2> QED BY <2>4, <2>7, <2>8
<1>15. CASE Info!CompleteFromDescription
  <2>1. /\ i = 2 /\ level = {} /\ uses' = [uses EXCEPT ![m] = ({m} \cup found) \cap cached]
        /\ at' = at + 1 /\ i' = 1 /\ level' = level /\ found' = found
    BY <1>15 DEF Info!CompleteFromDescription
  <2>2. Info!Completed' = Info!Completed \cup {m} /\ at' \in 1..(Len(Modules) + 1)
    BY <1>1, <1>2, <1>3, <2>1 DEF Info!Completed, Info!Module
  <2> HIDE DEF m
  <2>3. uses'[m] = ({m} \cup found) \cap cached /\ \A n \in Info!Names \ {m} : uses'[n] = uses[n]
    BY <1>2, <1>3, <2>1
  <2>4. Types
    BY <1>2, <1>3, <2>1, <2>2
  <2>5. Finds
    BY <2>1
  <2>6. found = Info!Reachable(m)
    <3>1. Below(m) \subseteq found /\ found \subseteq Info!Reachable(m) /\ \A d \in found : Below(d) \subseteq found
      BY <1>12, <2>1
    <3>2. Info!Closed(found)
      BY <3>1, Zenon DEF Info!Closed, Below
    <3>3. Info!Reachable(m) \subseteq found
      BY <1>2, <1>3, <3>1, <3>2, ReachableHolds
    <3> QED BY <3>1, <3>3
  <2>7. Gives
    <3>1. ASSUME NEW n \in Info!Completed' PROVE uses'[n] = ({n} \cup Info!Reachable(n)) \cap cached
      <4>1. CASE n = m
        BY <2>3, <2>6, <4>1
      <4>2. CASE n # m
        BY <1>3, <1>11, <2>2, <2>3, <4>2
      <4> QED BY <4>1, <4>2
    <3> QED BY <3>1
  <2> QED BY <2>4, <2>5, <2>7
<1> QED BY <1>13, <1>14, <1>15

LEMMA InfoNext == ASSUME InfoInv, PartsAssumption, [Info!Next]_(Info!vars) PROVE InfoInv'
<1>1. CASE Info!Extend
  BY <1>1, ExtendStep
<1>2. CASE Info!CompleteFromScripts
  BY <1>2, CompleteFromScriptsStep
<1>3. CASE Info!BeginSearch \/ Info!Search \/ Info!CompleteFromDescription
  BY <1>3, SearchSteps
<1>4. CASE UNCHANGED Info!vars
  <2>1. UNCHANGED <<declared, nested, source, cached, at, i, list, level, found, uses>>
    BY <1>4 DEF Info!vars, Info!input
  <2>2. /\ \A n : Below(n)' = Below(n) /\ Info!Reachable(n)' = Info!Reachable(n)
        /\ \A S : Info!Closed(S)' = Info!Closed(S) /\ Info!NamesOf(S)' = Info!NamesOf(S)
        /\ Info!Completed' = Info!Completed /\ Info!Module' = Info!Module
    BY <2>1 DEF Below, Info!Reachable, Info!Closed, Info!Completed, Info!Module
  <2>3. InfoTypes'
    BY <2>1 DEF InfoInv, InfoTypes
  <2>4. ListsHold'
    BY <2>1, <2>2 DEF InfoInv, ListsHold
  <2>5. Passed'
    BY <2>1, <2>2 DEF InfoInv, Passed
  <2>6. CompletedClosed'
    BY <2>1, <2>2 DEF InfoInv, CompletedClosed
  <2>7. SearchHolds' /\ Info!ResourcesFromAllBelow'
    BY <2>1, <2>2 DEF InfoInv, SearchHolds, Info!ResourcesFromAllBelow
  <2> QED BY <2>3, <2>4, <2>5, <2>6, <2>7 DEF InfoInv
<1> QED BY <1>1, <1>2, <1>3, <1>4 DEF Info!Next

LEMMA InfoInvImplies ==
  ASSUME InfoInv, PartsAssumption
  PROVE  Info!TypeOK /\ Info!ListsAreClosed /\ Info!ResourcesFromAllBelow
<1>1. Info!TypeOK
  <2>1. ASSUME NEW m \in Info!Names, NEW k \in DOMAIN list[m]
        PROVE  list[m][k] \in {"name", "path"} \X (Info!Names \cup {Outside})
    BY DEF InfoInv, InfoTypes, Lists, Items
  <2> QED BY <2>1 DEF InfoInv, InfoTypes, Info!TypeOK
<1>2. ASSUME source = "scripts", NEW m \in Info!Completed
      PROVE  /\ Below(m) \subseteq Info!NamesOf(list[m])
             /\ Info!NamesOf(list[m]) \subseteq Info!Reachable(m)
             /\ Info!Reachable(m) \cap nested = {} => Info!NamesOf(list[m]) = Info!Reachable(m)
  <2>1. m \in Info!Names
    BY ModuleIsName DEF InfoInv, InfoTypes
  <2>2. Below(m) \subseteq Info!NamesOf(list[m]) /\ Info!NamesOf(list[m]) \subseteq Info!Reachable(m)
    BY <2>1 DEF InfoInv, ListsHold
  <2>3. ASSUME Info!Reachable(m) \cap nested = {} PROVE Info!Reachable(m) \subseteq Info!NamesOf(list[m])
    <3>1. Info!Closed(Info!NamesOf(list[m]))
      BY <1>2, <2>3 DEF InfoInv, CompletedClosed
    <3>2. Info!NamesOf(list[m]) \subseteq Info!Names
      BY NamesOfIs
    <3> QED BY <2>1, <2>2, <3>1, <3>2, ReachableHolds
  <2> QED BY <2>2, <2>3
<1>3. Info!ListsAreClosed
  BY <1>2, Zenon DEF Info!ListsAreClosed, Below
<1> QED BY <1>1, <1>3 DEF InfoInv

-----------------------------------------------------------------------------
(***************************************************************************)
(* The scripts.                                                            *)
(***************************************************************************)
LEMMA LeastNat ==
  ASSUME NEW S \in SUBSET Nat, S # {}
  PROVE  \E k \in S : \A l \in S : k <= l
<1> DEFINE T == {0..k : k \in S}
<1>1. \A k \in S : 0..k \in FiniteSubsetsOf(Nat)
  <2> SUFFICES ASSUME NEW k \in S PROVE 0..k \in FiniteSubsetsOf(Nat)
    OBVIOUS
  <2>1. IsFiniteSet(0..k)
    BY FS_Interval
  <2> QED BY <2>1 DEF FiniteSubsetsOf
<1>2. PICK t \in T : \A u \in T : ~(<<u, t>> \in StrictSubsetOrdering(Nat))
  <2>1. T \subseteq FiniteSubsetsOf(Nat) /\ T # {}
    BY <1>1
  <2>2. IsWellFoundedOn(StrictSubsetOrdering(Nat), FiniteSubsetsOf(Nat))
    BY FS_StrictSubsetOrderingWellFounded
  <2> HIDE DEF T
  <2> QED BY <2>1, <2>2, WFMin
<1>3. PICK k \in S : t = 0..k
  OBVIOUS
<1>4. ASSUME NEW l \in S PROVE k <= l
  <2>1. 0..l \in T
    OBVIOUS
  <2>2. ~(<<0..l, 0..k>> \in StrictSubsetOrdering(Nat))
    BY <1>2, <1>3, <2>1
  <2>3. k \in Nat /\ l \in Nat
    OBVIOUS
  <2>4. 0..l \subseteq Nat /\ 0..k \subseteq Nat
    OBVIOUS
  <2>5. ~(0..l \subseteq 0..k /\ 0..l # 0..k)
    BY <2>2, <2>4 DEF StrictSubsetOrdering
  <2>6. CASE l < k
    <3>1. 0..l \subseteq 0..k /\ k \in 0..k /\ k \notin 0..l
      BY <2>3, <2>6
    <3> QED BY <2>5, <3>1
  <2> QED BY <2>3, <2>6
<1> QED BY <1>4

\* A function on 0..n that begins with a value and makes each of the next from the one
\* before it.
IsRun(g, n, S, base, step) ==
  g \in [0..n -> S] /\ g[0] = base /\ \A k \in 1..n : g[k] = step[k][g[k - 1]]

LEMMA RunExists ==
  ASSUME NEW n \in Nat, NEW S, NEW base \in S, NEW step \in [1..n -> [S -> S]]
  PROVE  \E g : IsRun(g, n, S, base, step)
<1> DEFINE Lacks == {m \in 0..n : ~\E g : IsRun(g, m, S, base, step)}
<1>1. SUFFICES ASSUME Lacks # {} PROVE FALSE
  <2>1. n \in 0..n
    OBVIOUS
  <2> QED BY <2>1
<1>2. PICK m \in Lacks : \A l \in Lacks : m <= l
  <2>1. Lacks \in SUBSET Nat
    OBVIOUS
  <2> HIDE DEF Lacks
  <2> QED BY <1>1, <2>1, LeastNat
<1>3. m \in 0..n /\ ~\E g : IsRun(g, m, S, base, step)
  OBVIOUS
<1>4. CASE m = 0
  <2>1. IsRun([k \in 0..0 |-> base], 0, S, base, step)
    BY DEF IsRun
  <2> QED BY <1>3, <1>4, <2>1
<1>5. CASE m # 0
  <2>1. m - 1 \in 0..n /\ m \in Nat /\ m \in 1..n /\ ~(m <= m - 1)
    BY <1>3, <1>5
  <2>2. PICK g : IsRun(g, m - 1, S, base, step)
    BY <1>2, <2>1
  <2>3. g \in [0..(m - 1) -> S] /\ g[0] = base /\ \A k \in 1..(m - 1) : g[k] = step[k][g[k - 1]]
    BY <2>2 DEF IsRun
  <2> DEFINE h == [k \in 0..m |-> IF k = m THEN step[m][g[m - 1]] ELSE g[k]]
  <2>4. g[m - 1] \in S
    BY <2>1, <2>3
  <2>5. step[m] \in [S -> S]
    BY <2>1
  <2>6. step[m][g[m - 1]] \in S
    BY <2>4, <2>5
  <2>7. h \in [0..m -> S]
    BY <2>1, <2>3, <2>6
  <2>8. h[0] = base
    BY <1>5, <2>1, <2>3
  <2>9. ASSUME NEW k \in 1..m PROVE h[k] = step[k][h[k - 1]]
    BY <2>1, <2>3, <2>9
  <2> HIDE DEF h
  <2>10. IsRun(h, m, S, base, step)
    BY <2>7, <2>8, <2>9 DEF IsRun
  <2> QED BY <1>3, <2>10
<1> QED BY <1>4, <1>5

-----------------------------------------------------------------------------
\* The braces open at each position, 0 from where the first one is closed.
IsDepth(n, s, from) ==
  n = [k \in from..Len(s) |->
        IF k = from THEN 1
        ELSE IF n[k - 1] = 0 THEN 0
        ELSE IF s[k] \in Script!Opening THEN n[k - 1] + 1
        ELSE IF s[k] \in Script!Closing THEN n[k - 1] - 1 ELSE n[k - 1]]

LEMMA DepthExists ==
  ASSUME NEW s \in Seq(Script!Tokens), NEW from \in 1..Len(s)
  PROVE  \E n : IsDepth(n, s, from)
<1> DEFINE last == Len(s) - from
<1> DEFINE step == [j \in 1..last |-> [v \in Nat |->
                      IF v = 0 THEN 0
                      ELSE IF s[from + j] \in Script!Opening THEN v + 1
                      ELSE IF s[from + j] \in Script!Closing THEN v - 1 ELSE v]]
<1>1. last \in Nat /\ from \in Nat /\ Len(s) \in Nat /\ from + last = Len(s)
  OBVIOUS
<1>2. step \in [1..last -> [Nat -> Nat]]
  <2> HIDE DEF last
  <2>1. ASSUME NEW j \in 1..last, NEW v \in Nat
        PROVE  (IF v = 0 THEN 0 ELSE IF s[from + j] \in Script!Opening THEN v + 1
                ELSE IF s[from + j] \in Script!Closing THEN v - 1 ELSE v) \in Nat
    <3>1. v + 1 \in Nat /\ (v # 0 => v - 1 \in Nat)
      OBVIOUS
    <3> QED BY <3>1, Zenon
  <2> QED BY <2>1
<1>3. PICK g : IsRun(g, last, Nat, 1, step)
  <2> HIDE DEF step, last
  <2> QED BY <1>1, <1>2, RunExists
<1>4. g \in [0..last -> Nat] /\ g[0] = 1 /\ \A j \in 1..last : g[j] = step[j][g[j - 1]]
  BY <1>3 DEF IsRun
<1> HIDE DEF last
<1> DEFINE n == [k \in from..Len(s) |-> g[k - from]]
<1>5. n \in [from..Len(s) -> Nat]
  <2>1. \A k \in from..Len(s) : k - from \in 0..last
    BY <1>1
  <2> QED BY <1>4, <2>1
<1>6. ASSUME NEW k \in from..Len(s)
      PROVE  n[k] = IF k = from THEN 1
                    ELSE IF n[k - 1] = 0 THEN 0
                    ELSE IF s[k] \in Script!Opening THEN n[k - 1] + 1
                    ELSE IF s[k] \in Script!Closing THEN n[k - 1] - 1 ELSE n[k - 1]
  <2>1. CASE k = from
    <3>1. n[k] = g[0]
      BY <1>1, <2>1
    <3> QED BY <1>4, <2>1, <3>1
  <2>2. CASE k # from
    <3>1. k - from \in 1..last /\ k - 1 \in from..Len(s) /\ from + (k - from) = k /\ (k - from) - 1 = (k - 1) - from
      BY <1>1, <2>2
    <3>2. n[k] = g[k - from] /\ n[k - 1] = g[(k - from) - 1] /\ n[k - 1] \in Nat
      BY <1>5, <3>1
    <3>3. g[k - from] = step[k - from][g[(k - from) - 1]]
      BY <1>4, <3>1
    <3>4. step[k - from][n[k - 1]] =
            IF n[k - 1] = 0 THEN 0
            ELSE IF s[k] \in Script!Opening THEN n[k - 1] + 1
            ELSE IF s[k] \in Script!Closing THEN n[k - 1] - 1 ELSE n[k - 1]
      <4> HIDE DEF n
      <4> QED BY <3>1, <3>2
    <3> QED BY <2>2, <3>2, <3>3, <3>4
  <2> QED BY <2>1, <2>2
<1>7. IsDepth(n, s, from)
  <2> HIDE DEF step
  <2> QED BY <1>6 DEF IsDepth
<1> HIDE DEF n
<1> QED BY <1>7

LEMMA DepthType ==
  ASSUME NEW s \in Seq(Script!Tokens), NEW from \in 1..Len(s), NEW n, IsDepth(n, s, from)
  PROVE  n \in [from..Len(s) -> Nat]
<1> DEFINE Bad == {k \in from..Len(s) : n[k] \notin Nat}
<1>1. from \in Nat /\ Len(s) \in Nat
  OBVIOUS
<1>2. ASSUME NEW k \in from..Len(s)
      PROVE  n[k] = IF k = from THEN 1
                    ELSE IF n[k - 1] = 0 THEN 0
                    ELSE IF s[k] \in Script!Opening THEN n[k - 1] + 1
                    ELSE IF s[k] \in Script!Closing THEN n[k - 1] - 1 ELSE n[k - 1]
  BY DEF IsDepth
<1>3. CASE Bad # {}
  <2>1. PICK k \in Bad : \A l \in Bad : k <= l
    <3>1. Bad \in SUBSET Nat
      BY <1>1
    <3> HIDE DEF Bad
    <3> QED BY <1>3, <3>1, LeastNat
  <2>2. k \in from..Len(s) /\ n[k] \notin Nat
    OBVIOUS
  <2>3. k # from
    <3>1. k = from => n[k] = 1
      BY <1>2, <2>2, Zenon
    <3> QED BY <2>2, <3>1
  <2>4. k - 1 \in from..Len(s) /\ ~(k <= k - 1)
    BY <1>1, <2>2, <2>3
  <2>5. n[k - 1] \in Nat
    BY <2>1, <2>4
  <2>6. n[k] = 0 \/ (n[k - 1] # 0 /\ n[k] \in {n[k - 1] + 1, n[k - 1] - 1, n[k - 1]})
    BY <1>2, <2>2, <2>3, Zenon
  <2> HIDE DEF Bad
  <2> QED BY <2>2, <2>5, <2>6
<1>4. CASE Bad = {}
  <2>1. n = [k \in from..Len(s) |-> n[k]]
    BY DEF IsDepth
  <2> QED BY <1>4, <2>1
<1> QED BY <1>3, <1>4

LEMMA Balanced ==
  ASSUME NEW s \in Seq(Script!Tokens), NEW from \in 1..Len(s)
  PROVE  \E n : /\ IsDepth(n, s, from) /\ n \in [from..Len(s) -> Nat]
                /\ Script!BalancedBraces(s, from) =
                     IF n[Len(s)] # 0 THEN {} ELSE {k \in (from + 1)..Len(s) : n[k] > 0}
<1> DEFINE n == CHOOSE n : n = [k \in from..Len(s) |->
        IF k = from THEN 1
        ELSE IF n[k - 1] = 0 THEN 0
        ELSE IF s[k] \in Script!Opening THEN n[k - 1] + 1
        ELSE IF s[k] \in Script!Closing THEN n[k - 1] - 1 ELSE n[k - 1]]
<1>1. Script!BalancedBraces(s, from) = IF n[Len(s)] # 0 THEN {} ELSE {k \in (from + 1)..Len(s) : n[k] > 0}
  BY Zenon DEF Script!BalancedBraces
<1>2. IsDepth(n, s, from)
  <2>1. \E m : IsDepth(m, s, from)
    BY DepthExists
  <2>2. \E m : m = [k \in from..Len(s) |->
        IF k = from THEN 1
        ELSE IF m[k - 1] = 0 THEN 0
        ELSE IF s[k] \in Script!Opening THEN m[k - 1] + 1
        ELSE IF s[k] \in Script!Closing THEN m[k - 1] - 1 ELSE m[k - 1]]
    BY <2>1, Zenon DEF IsDepth
  <2>3. n = [k \in from..Len(s) |->
        IF k = from THEN 1
        ELSE IF n[k - 1] = 0 THEN 0
        ELSE IF s[k] \in Script!Opening THEN n[k - 1] + 1
        ELSE IF s[k] \in Script!Closing THEN n[k - 1] - 1 ELSE n[k - 1]]
    BY <2>2, Zenon
  <2> HIDE DEF n
  <2> QED BY <2>3, Zenon DEF IsDepth
<1> HIDE DEF n
<1>3. n \in [from..Len(s) -> Nat]
  BY <1>2, DepthType
<1> QED BY <1>1, <1>2, <1>3

-----------------------------------------------------------------------------
Block == "dependencies {"

LEMMA Braces == Block \in Script!Opening /\ Block \notin Script!Closing /\ Script!Opening \cap Script!Closing = {}
<1>1. "dependencies {" # "}" /\ "{" # "}"
  BY Zenon
<1>2. Block \in Script!Opening /\ Block \notin Script!Closing
  BY <1>1, Zenon DEF Script!Opening, Script!Closing, Block
<1>3. Script!Opening \cap Script!Closing = {}
  BY <1>1, Zenon DEF Script!Opening, Script!Closing, Block
<1> QED BY <1>2, <1>3

\* The tokens of a kind from one position to another, as positions of that part.
Those(s, from, k, kind) ==
  {j \in DOMAIN SubSeq(s, from, k) : SubSeq(s, from, k)[j] \in kind}
OpensUpTo(s, from, k) == Cardinality(Those(s, from, k, Script!Opening))
ClosesUpTo(s, from, k) == Cardinality(Those(s, from, k, Script!Closing))

LEMMA CountsAreThose ==
  ASSUME NEW s, NEW from, NEW k
  PROVE  /\ Script!Count(SubSeq(s, from, k), Script!Opening) = OpensUpTo(s, from, k)
         /\ Script!Count(SubSeq(s, from, k), Script!Closing) = ClosesUpTo(s, from, k)
<1>1. \A S : Script!Cardinality(S) = Cardinality(S)
  BY Zenon DEF Script!Cardinality, Cardinality
<1> QED BY <1>1, Zenon DEF Script!Count, OpensUpTo, ClosesUpTo, Those

LEMMA ThoseGrow ==
  ASSUME NEW s \in Seq(Script!Tokens), NEW from \in 1..Len(s), NEW k \in from..Len(s), NEW kind
  PROVE  /\ Cardinality(Those(s, from, k, kind)) \in Nat
         /\ k = from => Cardinality(Those(s, from, k, kind)) = IF s[k] \in kind THEN 1 ELSE 0
         /\ k # from => Cardinality(Those(s, from, k, kind)) =
                          Cardinality(Those(s, from, k - 1, kind)) + (IF s[k] \in kind THEN 1 ELSE 0)
<1>1. from \in Nat /\ Len(s) \in Nat /\ from >= 1 /\ k \in Nat
  OBVIOUS
<1>2. ASSUME NEW l \in from..Len(s)
      PROVE  /\ Those(s, from, l, kind) = {j \in 1..(l - from + 1) : s[from + j - 1] \in kind}
             /\ IsFiniteSet(Those(s, from, l, kind)) /\ Cardinality(Those(s, from, l, kind)) \in Nat
  <2>1. DOMAIN SubSeq(s, from, l) = 1..(l - from + 1) /\ \A j \in 1..(l - from + 1) : SubSeq(s, from, l)[j] = s[from + j - 1]
    BY <1>1
  <2>2. Those(s, from, l, kind) = {j \in 1..(l - from + 1) : s[from + j - 1] \in kind}
    BY <2>1 DEF Those
  <2>3. IsFiniteSet(1..(l - from + 1))
    BY <1>1, FS_Interval
  <2>4. IsFiniteSet(Those(s, from, l, kind))
    BY <2>2, <2>3, FS_Subset
  <2> QED BY <2>2, <2>4, FS_CardinalityType
<1>3. CASE k = from
  <2>1. Those(s, from, k, kind) = {j \in 1..1 : s[from + j - 1] \in kind}
    BY <1>1, <1>2, <1>3
  <2>2. Those(s, from, k, kind) = IF s[k] \in kind THEN {1} ELSE {}
    BY <1>1, <1>3, <2>1
  <2>3. Cardinality({1}) = 1 /\ Cardinality({}) = 0
    BY FS_Singleton, FS_EmptySet
  <2> QED BY <1>2, <1>3, <2>2, <2>3
<1>4. CASE k # from
  <2>1. k - 1 \in from..Len(s)
    BY <1>1, <1>4
  <2> DEFINE now == k - from + 1
  <2>2. now \in Nat /\ (k - 1) - from + 1 = now - 1 /\ from + now - 1 = k /\ now >= 1
    BY <1>1, <2>1
  <2>3. /\ Those(s, from, k, kind) = {j \in 1..now : s[from + j - 1] \in kind}
        /\ Those(s, from, k - 1, kind) = {j \in 1..(now - 1) : s[from + j - 1] \in kind}
    BY <1>2, <2>1, <2>2
  <2> HIDE DEF now
  <2>4. 1..now = 1..(now - 1) \cup {now} /\ now \notin 1..(now - 1)
    BY <2>2
  <2>5. Those(s, from, k, kind) = IF s[k] \in kind THEN Those(s, from, k - 1, kind) \cup {now}
                                  ELSE Those(s, from, k - 1, kind)
    BY <2>2, <2>3, <2>4
  <2>6. now \notin Those(s, from, k - 1, kind)
    BY <2>3, <2>4
  <2>7. Cardinality(Those(s, from, k - 1, kind) \cup {now}) = Cardinality(Those(s, from, k - 1, kind)) + 1
    BY <1>2, <2>1, <2>6, FS_AddElement
  <2>8. Cardinality(Those(s, from, k - 1, kind)) \in Nat
    BY <1>2, <2>1
  <2> QED BY <1>2, <1>4, <2>5, <2>7, <2>8
<1> QED BY <1>3, <1>4

LEMMA CountType ==
  ASSUME NEW s \in Seq(Script!Tokens), NEW from \in 1..Len(s), NEW k \in from..Len(s)
  PROVE  OpensUpTo(s, from, k) \in Nat /\ ClosesUpTo(s, from, k) \in Nat
BY ThoseGrow DEF OpensUpTo, ClosesUpTo

\* What the count of balanced_braces is, told by the braces there are.
AllOpen(s, from, k) == \A l \in from..k : OpensUpTo(s, from, l) > ClosesUpTo(s, from, l)

LEMMA DepthStep ==
  ASSUME NEW s \in Seq(Script!Tokens), NEW from \in 1..Len(s), s[from] = Block,
         NEW n, IsDepth(n, s, from), NEW k \in from..Len(s)
  PROVE  /\ OpensUpTo(s, from, k) \in Nat /\ ClosesUpTo(s, from, k) \in Nat
         /\ k = from => n[k] = 1 /\ OpensUpTo(s, from, k) = 1 /\ ClosesUpTo(s, from, k) = 0
         /\ k # from /\ n[k - 1] = 0 => n[k] = 0
         /\ k # from /\ n[k - 1] # 0 =>
              n[k] - n[k - 1] = (OpensUpTo(s, from, k) - OpensUpTo(s, from, k - 1))
                                - (ClosesUpTo(s, from, k) - ClosesUpTo(s, from, k - 1))
<1>1. n[k] = IF k = from THEN 1
             ELSE IF n[k - 1] = 0 THEN 0
             ELSE IF s[k] \in Script!Opening THEN n[k - 1] + 1
             ELSE IF s[k] \in Script!Closing THEN n[k - 1] - 1 ELSE n[k - 1]
  BY DEF IsDepth
<1>3. /\ OpensUpTo(s, from, k) \in Nat /\ ClosesUpTo(s, from, k) \in Nat
      /\ k = from => /\ OpensUpTo(s, from, k) = IF s[k] \in Script!Opening THEN 1 ELSE 0
                     /\ ClosesUpTo(s, from, k) = IF s[k] \in Script!Closing THEN 1 ELSE 0
      /\ k # from =>
           /\ OpensUpTo(s, from, k) = OpensUpTo(s, from, k - 1) + (IF s[k] \in Script!Opening THEN 1 ELSE 0)
           /\ ClosesUpTo(s, from, k) = ClosesUpTo(s, from, k - 1) + (IF s[k] \in Script!Closing THEN 1 ELSE 0)
  BY ThoseGrow DEF OpensUpTo, ClosesUpTo
<1>4. ~(s[k] \in Script!Opening /\ s[k] \in Script!Closing) /\ Block \in Script!Opening /\ Block \notin Script!Closing
  BY Braces
<1>5. CASE k = from
  BY <1>1, <1>3, <1>4, <1>5
<1>6. CASE k # from
  <2>1. k - 1 \in from..Len(s)
    BY <1>6
  <2>2. n[k - 1] \in Nat /\ OpensUpTo(s, from, k - 1) \in Nat /\ ClosesUpTo(s, from, k - 1) \in Nat
    <3>1. n \in [from..Len(s) -> Nat]
      BY DepthType
    <3> QED BY <2>1, <3>1, CountType
  <2>3. CASE s[k] \in Script!Opening
    BY <1>1, <1>3, <1>4, <1>6, <2>2, <2>3
  <2>4. CASE s[k] \in Script!Closing
    BY <1>1, <1>3, <1>4, <1>6, <2>2, <2>4
  <2>5. CASE s[k] \notin Script!Opening /\ s[k] \notin Script!Closing
    BY <1>1, <1>3, <1>6, <2>2, <2>5
  <2> QED BY <2>3, <2>4, <2>5
<1> QED BY <1>5, <1>6

LEMMA DepthCounts ==
  ASSUME NEW s \in Seq(Script!Tokens), NEW from \in 1..Len(s), s[from] = Block,
         NEW n, IsDepth(n, s, from), NEW k \in from..Len(s)
  PROVE  n[k] = IF AllOpen(s, from, k) THEN OpensUpTo(s, from, k) - ClosesUpTo(s, from, k) ELSE 0
<1> DEFINE Counts(l) == n[l] = IF AllOpen(s, from, l) THEN OpensUpTo(s, from, l) - ClosesUpTo(s, from, l) ELSE 0
           Bad == {l \in from..Len(s) : ~Counts(l)}
<1>1. SUFFICES ASSUME Bad # {} PROVE FALSE
  OBVIOUS
<1>2. PICK l \in Bad : \A m \in Bad : l <= m
  <2>1. Bad \in SUBSET Nat
    OBVIOUS
  <2> HIDE DEF Bad
  <2> QED BY <1>1, <2>1, LeastNat
<1>3. l \in from..Len(s) /\ ~Counts(l) /\ from \in Nat /\ l \in Nat
  OBVIOUS
<1>4. n[l] \in Nat /\ OpensUpTo(s, from, l) \in Nat /\ ClosesUpTo(s, from, l) \in Nat
  BY <1>3, DepthType, DepthStep
<1>5. CASE l = from
  <2>1. n[l] = 1 /\ OpensUpTo(s, from, l) = 1 /\ ClosesUpTo(s, from, l) = 0
    BY <1>3, <1>5, DepthStep
  <2>2. AllOpen(s, from, l)
    BY <1>3, <1>5, <2>1 DEF AllOpen
  <2> QED BY <1>3, <2>1, <2>2
<1>6. CASE l # from
  <2>1. l - 1 \in from..Len(s) /\ ~(l <= l - 1)
    BY <1>3, <1>6
  <2>2. Counts(l - 1)
    BY <1>2, <2>1
  <2>3. n[l - 1] \in Nat /\ OpensUpTo(s, from, l - 1) \in Nat /\ ClosesUpTo(s, from, l - 1) \in Nat
    <3>1. n \in [from..Len(s) -> Nat]
      BY DepthType
    <3> QED BY <2>1, <3>1, CountType
  <2>4. AllOpen(s, from, l) <=> AllOpen(s, from, l - 1) /\ OpensUpTo(s, from, l) > ClosesUpTo(s, from, l)
    BY <1>3, <2>1 DEF AllOpen
  <2>5. AllOpen(s, from, l - 1) => OpensUpTo(s, from, l - 1) > ClosesUpTo(s, from, l - 1)
    BY <1>3, <2>1 DEF AllOpen
  <2>6. CASE n[l - 1] = 0
    <3>1. n[l] = 0
      BY <1>3, <1>6, <2>6, DepthStep
    <3>2. ~AllOpen(s, from, l - 1)
      BY <2>2, <2>3, <2>5, <2>6
    <3> QED BY <1>3, <2>4, <3>1, <3>2
  <2>7. CASE n[l - 1] # 0
    <3>1. AllOpen(s, from, l - 1) /\ n[l - 1] = OpensUpTo(s, from, l - 1) - ClosesUpTo(s, from, l - 1)
      BY <2>2, <2>7
    <3>2. n[l] - n[l - 1] = (OpensUpTo(s, from, l) - OpensUpTo(s, from, l - 1))
                            - (ClosesUpTo(s, from, l) - ClosesUpTo(s, from, l - 1))
      BY <1>3, <1>6, <2>7, DepthStep
    <3>3. n[l] = OpensUpTo(s, from, l) - ClosesUpTo(s, from, l)
      <4> DEFINE nl == n[l]  nk == n[l - 1]
                 ol == OpensUpTo(s, from, l)  ok == OpensUpTo(s, from, l - 1)
                 cl == ClosesUpTo(s, from, l)  ck == ClosesUpTo(s, from, l - 1)
      <4>1. nl \in Nat /\ nk \in Nat /\ ol \in Nat /\ ok \in Nat /\ cl \in Nat /\ ck \in Nat
        BY <1>4, <2>3
      <4>2. nk = ok - ck /\ nl - nk = (ol - ok) - (cl - ck)
        BY <3>1, <3>2
      <4> HIDE DEF nl, nk, ol, ok, cl, ck
      <4>3. nl = ol - cl
        BY <4>1, <4>2
      <4> QED BY <4>3 DEF nl, ol, cl
    <3>4. CASE AllOpen(s, from, l)
      BY <1>3, <3>3, <3>4
    <3>5. CASE ~AllOpen(s, from, l)
      <4>1. ~(OpensUpTo(s, from, l) > ClosesUpTo(s, from, l))
        BY <2>4, <3>1, <3>5
      <4>2. n[l] = 0
        BY <1>4, <3>3, <4>1
      <4> QED BY <1>3, <3>5, <4>2
    <3> QED BY <3>4, <3>5
  <2> QED BY <2>6, <2>7
<1> QED BY <1>5, <1>6

LEMMA BracesEnclose ==
  ASSUME NEW s \in Seq(Script!Tokens), NEW from \in 1..Len(s), s[from] = Block, NEW k
  PROVE  k \in Script!BalancedBraces(s, from) <=> k \in (from + 1)..Len(s) /\ Script!Encloses(s, from, k)
<1>1. PICK n : /\ IsDepth(n, s, from) /\ n \in [from..Len(s) -> Nat]
               /\ Script!BalancedBraces(s, from) =
                    IF n[Len(s)] # 0 THEN {} ELSE {l \in (from + 1)..Len(s) : n[l] > 0}
  BY Balanced
<1>2. from \in Nat /\ Len(s) \in Nat /\ from <= Len(s) /\ Len(s) \in from..Len(s)
  OBVIOUS
<1>3. ASSUME NEW l \in from..Len(s)
      PROVE  /\ n[l] \in Nat /\ OpensUpTo(s, from, l) \in Nat /\ ClosesUpTo(s, from, l) \in Nat
             /\ n[l] = IF AllOpen(s, from, l) THEN OpensUpTo(s, from, l) - ClosesUpTo(s, from, l) ELSE 0
             /\ AllOpen(s, from, l) => OpensUpTo(s, from, l) > ClosesUpTo(s, from, l)
  <2>1. AllOpen(s, from, l) => OpensUpTo(s, from, l) > ClosesUpTo(s, from, l)
    BY <1>2 DEF AllOpen
  <2> QED BY <1>1, <2>1, DepthCounts, DepthStep
<1>4. Script!Encloses(s, from, k) <=>
        \E e \in (k + 1)..Len(s) : OpensUpTo(s, from, e) = ClosesUpTo(s, from, e) /\ AllOpen(s, from, k)
  BY CountsAreThose, Zenon DEF Script!Encloses, AllOpen
<1>5. ASSUME k \in (from + 1)..Len(s), n[Len(s)] = 0, n[k] > 0 PROVE Script!Encloses(s, from, k)
  <2>1. k \in from..Len(s) /\ k \in Nat
    BY <1>2, <1>5
  <2>2. AllOpen(s, from, k)
    BY <1>3, <1>5, <2>1
  <2> DEFINE Zero == {e \in from..Len(s) : n[e] = 0}
  <2>3. PICK e \in Zero : \A m \in Zero : e <= m
    <3>1. Zero \in SUBSET Nat /\ Zero # {}
      BY <1>2, <1>5
    <3> HIDE DEF Zero
    <3> QED BY <3>1, LeastNat
  <2>4. e \in from..Len(s) /\ n[e] = 0 /\ e \in Nat
    BY <1>2
  <2>5. e > k
    <3>1. SUFFICES ASSUME e <= k PROVE FALSE
      BY <2>1, <2>4
    <3>2. AllOpen(s, from, e)
      BY <1>2, <2>1, <2>2, <2>4, <3>1 DEF AllOpen
    <3> QED BY <1>3, <2>4, <3>2
  <2>6. e # from /\ e - 1 \in from..Len(s) /\ ~(e <= e - 1)
    BY <1>2, <1>5, <2>1, <2>4, <2>5
  <2>7. n[e - 1] # 0
    BY <2>3, <2>6
  <2>8. n[e - 1] = OpensUpTo(s, from, e - 1) - ClosesUpTo(s, from, e - 1)
    BY <1>3, <2>6, <2>7
  <2>9. n[e] - n[e - 1] = (OpensUpTo(s, from, e) - OpensUpTo(s, from, e - 1))
                          - (ClosesUpTo(s, from, e) - ClosesUpTo(s, from, e - 1))
    <3>1. IsDepth(n, s, from)
      BY <1>1
    <3> QED BY <2>4, <2>6, <2>7, <3>1, DepthStep
  <2>10. /\ n[e - 1] \in Nat /\ OpensUpTo(s, from, e - 1) \in Nat /\ ClosesUpTo(s, from, e - 1) \in Nat
         /\ OpensUpTo(s, from, e) \in Nat /\ ClosesUpTo(s, from, e) \in Nat
    BY <1>3, <2>4, <2>6
  <2>11. OpensUpTo(s, from, e) = ClosesUpTo(s, from, e)
    BY <2>4, <2>8, <2>9, <2>10
  <2>12. e \in (k + 1)..Len(s)
    BY <1>2, <2>1, <2>4, <2>5
  <2> QED BY <1>4, <2>2, <2>11, <2>12
<1>6. ASSUME k \in (from + 1)..Len(s), Script!Encloses(s, from, k) PROVE n[Len(s)] = 0 /\ n[k] > 0
  <2>1. k \in from..Len(s) /\ k \in Nat
    BY <1>2, <1>6
  <2>2. PICK e \in (k + 1)..Len(s) : OpensUpTo(s, from, e) = ClosesUpTo(s, from, e) /\ AllOpen(s, from, k)
    BY <1>4, <1>6
  <2>3. e \in from..Len(s)
    BY <1>2, <2>1
  <2>4. OpensUpTo(s, from, e) \in Nat /\ ClosesUpTo(s, from, e) \in Nat
    BY <1>3, <2>3
  <2>5. ~AllOpen(s, from, Len(s))
    BY <1>2, <2>2, <2>3, <2>4 DEF AllOpen
  <2>6. n[Len(s)] = 0
    BY <1>2, <1>3, <2>5
  <2>7. n[k] > 0
    BY <1>3, <2>1, <2>2
  <2> QED BY <2>6, <2>7
<1>7. CASE n[Len(s)] # 0
  BY <1>1, <1>6, <1>7
<1>8. CASE n[Len(s)] = 0
  <2>1. Script!BalancedBraces(s, from) = {l \in (from + 1)..Len(s) : n[l] > 0}
    BY <1>1, <1>8
  <2> QED BY <1>5, <1>6, <1>8, <2>1
<1> QED BY <1>7, <1>8

LEMMA BlocksRead ==
  ASSUME script \in Seq(Script!Tokens)
  PROVE  Script!BlocksAreRead
<1> DEFINE Meant == {k \in DOMAIN script : script[k] = "compile project" /\
              \E b \in 1..(k - 1) : script[b] = Block /\ Script!Encloses(script, b, k)}
<1>1. ASSUME NEW k PROVE k \in Script!GetLocalDependency(script) <=> k \in Meant
  <2>1. k \in Script!GetLocalDependency(script) <=>
          /\ script[k] = "compile project"
          /\ \E b \in DOMAIN script : script[b] = Block /\ k \in Script!BalancedBraces(script, b)
    BY Zenon DEF Script!GetLocalDependency, Block
  <2>2. DOMAIN script = 1..Len(script) /\ Len(script) \in Nat
    OBVIOUS
  <2>3. ASSUME NEW b \in DOMAIN script, script[b] = Block
        PROVE  k \in Script!BalancedBraces(script, b) <=> k \in (b + 1)..Len(script) /\ Script!Encloses(script, b, k)
    BY <2>2, <2>3, BracesEnclose
  <2>4. ASSUME k \in Script!GetLocalDependency(script) PROVE k \in Meant
    <3>1. PICK b \in DOMAIN script : script[b] = Block /\ k \in Script!BalancedBraces(script, b)
      BY <2>1, <2>4
    <3>2. k \in (b + 1)..Len(script) /\ Script!Encloses(script, b, k)
      BY <2>3, <3>1
    <3>3. k \in DOMAIN script /\ b \in 1..(k - 1)
      BY <2>2, <3>2
    <3> QED BY <2>1, <2>4, <3>1, <3>2, <3>3
  <2>5. ASSUME k \in Meant PROVE k \in Script!GetLocalDependency(script)
    <3>1. PICK b \in 1..(k - 1) : script[b] = Block /\ Script!Encloses(script, b, k)
      BY <2>5
    <3>2. k \in DOMAIN script
      BY <2>5
    <3>3. b \in DOMAIN script /\ k \in (b + 1)..Len(script)
      BY <2>2, <3>2
    <3>4. k \in Script!BalancedBraces(script, b)
      BY <2>3, <3>1, <3>3
    <3>5. script[k] = "compile project"
      BY <2>5
    <3> QED BY <2>1, <3>1, <3>3, <3>4, <3>5
  <2> QED BY <2>4, <2>5
<1> HIDE DEF Meant
<1>2. Script!GetLocalDependency(script) = Meant
  BY <1>1
<1> QED BY <1>2, Zenon DEF Script!BlocksAreRead, Block, Meant

-----------------------------------------------------------------------------
(* All of them *)

ProjectInv ==
  /\ part = "scan" => ScanInv
  /\ part = "info" => InfoInv
  /\ part = "script" => script \in Seq(Script!Tokens)

LEMMA ProjectStarts == ProjectInit => ProjectInv
<1> SUFFICES ASSUME ProjectInit PROVE ProjectInv
  OBVIOUS
<1>1. CASE part = "scan"
  BY <1>1, PartsAssumption, ScanStarts DEF ProjectInit, ProjectInv
<1>2. CASE part = "info"
  BY <1>2, PartsAssumption, InfoStarts DEF ProjectInit, ProjectInv
<1>3. CASE part = "script"
  BY <1>3 DEF ProjectInit, ProjectInv, Script!Init
<1> QED BY <1>1, <1>2, <1>3 DEF ProjectInit

LEMMA ProjectSteps == ProjectInv /\ [ProjectNext]_projectVars => ProjectInv'
<1> SUFFICES ASSUME ProjectInv, [ProjectNext]_projectVars PROVE ProjectInv'
  OBVIOUS
<1>1. CASE part = "scan" /\ Scan!Next /\ part' = part
  BY <1>1, PartsAssumption, ScanNext DEF ProjectInv
<1>2. CASE part = "info" /\ Info!Next /\ part' = part
  BY <1>2, PartsAssumption, InfoNext DEF ProjectInv
<1>3. CASE part = "script" /\ Script!Type /\ part' = part
  <2>1. PICK t \in Script!Tokens : script' = Append(script, t)
    BY <1>3 DEF Script!Type
  <2>2. script \in Seq(Script!Tokens)
    BY <1>3 DEF ProjectInv
  <2>3. script' \in Seq(Script!Tokens)
    BY <2>1, <2>2
  <2> QED BY <1>3, <2>3 DEF ProjectInv
<1>4. CASE UNCHANGED projectVars
  <2>1. part' = part /\ script' = script
    BY <1>4 DEF projectVars, scriptVars
  <2>2. UNCHANGED Scan!vars
    BY <1>4, Zenon DEF projectVars, scanVars, Scan!vars, Scan!recorded, Scan!history
  <2>3. UNCHANGED Info!vars
    BY <1>4, Zenon DEF projectVars, infoVars, Info!vars, Info!input
  <2> QED BY <2>1, <2>2, <2>3, PartsAssumption, ScanNext, InfoNext DEF ProjectInv
<1> QED BY <1>1, <1>2, <1>3, <1>4 DEF ProjectNext

LEMMA ProjectHolds == ProjectSpec => []ProjectInv
BY ProjectStarts, ProjectSteps, PTL DEF ProjectSpec

\* gradle_tools.py:103-190, gradle_inc_build.py:441-444, dispatcher.py:147-172 - what is
\* not on the device is found by the next scan, unless it was changed while a build that
\* had it ran, was given an older time, or is a jar an incremental build has recorded; and
\* what a build has settled is not found again, for any files of any kinds and any number of
\* changes and builds.
THEOREM WhatIsNotBuiltIsFound == ProjectSpec => []ScanIsExact
<1>1. ProjectInv => ScanIsExact
  BY PartsAssumption, ScanInvImplies DEF ProjectInv, ScanIsExact
<1> QED BY <1>1, ProjectHolds, PTL

\* gradle_tools.py:1107-1213 - in whatever order the settings name them, and whatever they
\* depend on, the modules below a module are all found; and in any script the projects
\* found are those between the brace of a dependencies block and the one that matches it.
THEOREM ModulesAndScriptsAreRead == ProjectSpec => []ProjectIsRead
<1>1. ProjectInv => ProjectIsRead
  BY PartsAssumption, InfoInvImplies, BlocksRead DEF ProjectInv, ProjectIsRead
<1> QED BY <1>1, ProjectHolds, PTL
=============================================================================
