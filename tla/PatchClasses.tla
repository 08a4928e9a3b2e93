---------------------------- MODULE PatchClasses ----------------------------
(***************************************************************************)
(* The directory of classes compiled since the clean build, of one module. *)
(* javac adds to it, retrolambda rewrites in place the classes it has not  *)
(* seen, told by their times, and dx makes a dex of all that is in it.     *)
(* The module uses data binding, whose annotation processor runs within    *)
(* javac: in a run of its own if layouts have changed, else in the         *)
(* compilation of the changed files.  Each run writes classes here.        *)
(***************************************************************************)
EXTENDS Naturals, FiniteSets

CONSTANTS
  Sources,    \* the developer's files
  Related,    \* those with annotations, which the processor is given each time
  Generated,  \* files of the annotation processor's output directory
  Contents,   \* what a file can hold; 0 is what it held at the clean build
  MaxTime,    \* bound on the clock
  MaxEdits,   \* bound on the edits
  MaxBuilds,  \* bound on the builds
  None

Files == Sources \cup Generated

\* What the constants may be.
PatchClassesAssumption ==
  /\ Sources \cap Generated = {} /\ Related \subseteq Sources /\ 0 \in Contents /\ Contents \subseteq Nat
  /\ MaxTime \in Nat /\ MaxEdits \in Nat /\ MaxBuilds \in Nat
  /\ None \notin Contents \cup Nat
  /\ None \notin [content : Contents, mtime : 0..MaxTime, lowered : BOOLEAN]

VARIABLES
  content,  \* of every file, or None
  dirty,    \* files the scan finds changed
  layouts,  \* layouts have changed, so that the annotation processor has to run
  aptCache, \* apt_files_stat_cache.json: the generated files of the clean build
  compile,  \* the files given to javac
  classes,  \* the patch directory
  stat,     \* lambda_files_stat.json: time of each class retrolambda has written
  dex,      \* the dex made last, by file
  now,      \* the file system's clock
  phase,    \* "idle", "apt", "javac", "retrolambda", "dx", "done"
  failed,   \* the last build has failed
  edits, builds

input == <<content, dirty, layouts>>
output == <<classes, stat, dex>>
vars == <<input, aptCache, compile, output, now, phase, failed, edits, builds>>

Class == [content : Contents, mtime : 0..MaxTime, lowered : BOOLEAN]

TypeOK ==
  /\ content \in [Files -> Contents \cup {None}]
  /\ dirty \subseteq Sources /\ layouts \in BOOLEAN
  /\ aptCache \in [Generated -> Contents \cup {None}]
  /\ compile \subseteq Files
  /\ \A f \in Files : classes[f] \in Class \cup {None} /\ stat[f] \in 0..MaxTime \cup {None}
  /\ \A f \in Files : dex[f] \in Class \cup {None}
  /\ now \in 0..MaxTime
  /\ phase \in {"idle", "apt", "javac", "retrolambda", "dx", "done"}
  /\ failed \in BOOLEAN /\ edits \in 0..MaxEdits /\ builds \in 0..MaxBuilds

\* The clean build generated some of the files.
Init ==
  /\ aptCache \in [Generated -> {0, None}]
  /\ content = [f \in Files |-> IF f \in Generated THEN aptCache[f] ELSE 0]
  /\ dirty = {} /\ layouts = FALSE /\ compile = {}
  /\ classes = [f \in Files |-> None] /\ stat = classes /\ dex = classes
  /\ now = 0 /\ phase = "idle" /\ failed = FALSE /\ edits = 0 /\ builds = 0

Tick ==
  /\ now < MaxTime /\ now' = now + 1
  /\ UNCHANGED <<input, aptCache, compile, output, phase, failed, edits, builds>>

\* The developer changes a file or deletes it, which the scan does not find, or
\* changes a layout.
Edit ==
  /\ phase = "idle" /\ edits < MaxEdits /\ edits' = edits + 1
  /\ \/ \E f \in Sources, c \in Contents :
          /\ c # content[f]
          /\ content' = [content EXCEPT ![f] = c] /\ dirty' = dirty \cup {f} /\ UNCHANGED layouts
     \/ \E f \in Sources :
          /\ content[f] # None
          /\ content' = [content EXCEPT ![f] = None] /\ dirty' = dirty \ {f} /\ UNCHANGED layouts
     \/ layouts' = TRUE /\ UNCHANGED <<content, dirty>>
  /\ UNCHANGED <<aptCache, compile, output, now, phase, failed, builds>>

\* fill_classpaths looks for classes without a source, takes every class to have one
\* and removes nothing.
FillClasspaths == classes' = classes

StartBuild ==
  /\ phase = "idle" /\ (dirty # {} \/ layouts)
  /\ builds < MaxBuilds /\ builds' = builds + 1
  /\ compile' = dirty
  /\ FillClasspaths
  /\ phase' = IF layouts THEN "apt" ELSE "javac"
  /\ UNCHANGED <<input, aptCache, stat, dex, now, failed, edits>>

\* A task after javac fails.
Fails ==
  /\ phase \in {"retrolambda", "dx", "done"}
  /\ phase' = "idle" /\ failed' = TRUE
  /\ UNCHANGED <<input, aptCache, compile, output, now, edits, builds>>

\* A run of the annotation processor: it removes no file of an earlier run, and is
\* taken to generate those again.
Generates ==
  \E generated \in [Generated -> Contents \cup {None}] :
    /\ \A f \in Generated : generated[f] = None => content[f] = None
    /\ content' = [f \in Files |-> IF f \in Generated THEN generated[f] ELSE content[f]]

\* The files compiled along with such a run (-d is the patch directory, always).
Processed == {f \in compile \cup Related \cup Generated : content'[f] # None}

Writes(written) ==
  classes' = [f \in Files |-> IF f \in written
                THEN [content |-> content'[f], mtime |-> now, lowered |-> FALSE] ELSE classes[f]]

\* run_apt_only: the files that are new, or not what the clean build generated, are
\* added.  Without any file to compile the rest is skipped.
Found(f) == content'[f] # None /\ content'[f] # aptCache[f]

RunAptOnly ==
  /\ phase = "apt"
  /\ Generates /\ Writes(Processed)
  /\ compile' = compile \cup {f \in Generated : Found(f)}
  /\ phase' = IF compile' = {} THEN "done" ELSE "javac"
  /\ UNCHANGED <<dirty, layouts, aptCache, stat, dex, now, failed, edits, builds>>

\* The processor runs here unless it had a run of its own.
RunJavacTask ==
  /\ phase = "javac" /\ phase' = "retrolambda"
  /\ \/ layouts /\ UNCHANGED content /\ Writes(compile)
     \/ ~layouts /\ Generates /\ Writes(Processed)
  /\ UNCHANGED <<dirty, layouts, aptCache, compile, stat, dex, now, failed, edits, builds>>

\* javac fails, or the build is ended, with any part of the classes written.
JavacFails ==
  /\ \/ phase = "javac" /\ layouts /\ UNCHANGED content /\ \E part \in SUBSET compile : Writes(part)
     \/ phase = "javac" /\ ~layouts /\ Generates /\ \E part \in SUBSET Processed : Writes(part)
     \/ phase = "apt" /\ Generates /\ \E part \in SUBSET Processed : Writes(part)
  /\ phase' = "idle" /\ failed' = TRUE
  /\ UNCHANGED <<dirty, layouts, aptCache, compile, stat, dex, now, edits, builds>>

\* Classes the file of times does not know or knows with an earlier time.
\* Fault: the classes javac has just written.
IncludesCompiled(f) == classes[f] # None /\ f \in compile

Includes(f) == classes[f] # None /\ (stat[f] = None \/ classes[f].mtime > stat[f])

RunRetrolambda ==
  /\ phase = "retrolambda" /\ phase' = "dx"
  /\ classes' = [f \in Files |-> IF Includes(f)
                   THEN [classes[f] EXCEPT !.mtime = now, !.lowered = TRUE] ELSE classes[f]]
  /\ stat' = [f \in Files |-> IF Includes(f) THEN now ELSE stat[f]]
  /\ UNCHANGED <<input, aptCache, compile, dex, now, failed, edits, builds>>

RunDexTask ==
  /\ phase = "dx" /\ phase' = "done"
  /\ dex' = classes
  /\ UNCHANGED <<input, aptCache, compile, classes, stat, now, failed, edits, builds>>

\* The tasks after the compilation succeed and the stat is recorded.
Finish ==
  /\ phase = "done" /\ phase' = "idle"
  /\ dirty' = {} /\ layouts' = FALSE /\ failed' = FALSE
  /\ UNCHANGED <<content, aptCache, compile, output, now, edits, builds>>

Next ==
  \/ Tick \/ Edit \/ StartBuild \/ Fails
  \/ RunAptOnly \/ RunJavacTask \/ JavacFails \/ RunRetrolambda \/ RunDexTask \/ Finish

Spec == Init /\ [][Next]_vars

-----------------------------------------------------------------------------
(* Properties *)

\* gradle_inc_build.py:748-762, 797-803 - dx finds no class retrolambda has not
\* rewritten, whichever earlier build failed between javac and retrolambda and
\* whatever became of the class's source.  Exception: a class that javac writes
\* again within the tick of the clock in which it was rewritten.
DexIsLowered ==
  phase = "dx" => \A f \in Files :
    classes[f] # None =>
      classes[f].lowered \/ (stat[f] # None /\ classes[f].mtime = stat[f])

\* gradle_inc_build.py:583-676 - when nothing is left to build the dex holds every
\* file as it is, or the clean build's class is still right.  Exceptions, of generated
\* files: one that has become again what the clean build generated is not a file that
\* makes the build go on to dx, and the dex keeps the class of the time between; and
\* those of a build that failed, once the changed sources have been deleted and
\* nothing is left for the scan to find.
ClassesAreCurrent ==
  phase = "idle" /\ dirty = {} /\ ~layouts => \A f \in Files :
    content[f] # None =>
      \/ dex[f] # None /\ dex[f].content = content[f]
      \/ dex[f] = None /\ content[f] = 0
      \/ f \in Generated /\ (content[f] = aptCache[f] \/ failed)

=============================================================================
