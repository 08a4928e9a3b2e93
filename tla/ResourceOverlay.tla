-------------------------- MODULE ResourceOverlay ---------------------------
(***************************************************************************)
(* Which of several definitions of a resource ends in the pack.  aapt      *)
(* (external) takes the first directory of its command line that defines   *)
(* it.  The command of the clean build and that of an incremental build    *)
(* are put together by two functions, and the classes and resources on the *)
(* device come from both.                                                  *)
(***************************************************************************)
EXTENDS Naturals, Sequences, SequencesExt

CONSTANTS
  MainDirs, LocalDirs,  \* sequences: of the main module, of the modules it depends on
  DepDirs,              \* of the archives it depends on
  ExtraDirs,            \* extra_dep_res_paths of the configuration
  Backup,               \* the directory of the keeper files
  Edited,               \* directories the developer changes after the clean build
  MaxEdits,             \* bound on the edits
  None

Dirs == ToSet(MainDirs \o LocalDirs \o DepDirs \o ExtraDirs) \cup {Backup}

\* What the constants may be.
ResourceOverlayAssumption ==
  /\ \A dirs \in {MainDirs, LocalDirs, DepDirs, ExtraDirs} : dirs \in Seq(Dirs)
  /\ Edited \subseteq Dirs /\ MaxEdits \in Nat /\ None \notin Dirs

VARIABLES
  defines,  \* directories that define the resource; one that does not exist is not among them
  mapper,   \* directories read from a processed copy, with all that is in them
  copied,   \* the copies that define it
  base,     \* where the definition in the clean build's pack comes from
  pack,     \* the same for the pack built last
  edits

vars == <<defines, mapper, copied, base, pack, edits>>

TypeOK ==
  /\ defines \subseteq Dirs /\ mapper \subseteq Dirs /\ copied \subseteq mapper
  /\ base \in Dirs \cup {None} /\ pack \in Dirs \cup {None}
  /\ edits \in 0..MaxEdits

\* The directories that follow -S: BuildBaseResourceTask.run_aapt.
BaseDirs == MainDirs \o LocalDirs \o ExtraDirs \o DepDirs \o <<Backup>>

\* GradleIncBuildInvoker._get_aapt_args; the last two kinds in the other order.
IncDirs == MainDirs \o LocalDirs \o DepDirs \o ExtraDirs \o <<Backup>>

\* find_target_res_path is asked for the first two kinds; a copy keeps what the
\* developer has deleted.
Defined(d) == IF d \in mapper THEN d \in copied ELSE d \in defines

First(dirs) ==
  LET S == {k \in DOMAIN dirs : Defined(dirs[k])}
  IN IF S = {} THEN None ELSE dirs[CHOOSE k \in S : \A l \in S : k <= l]

Init ==
  /\ defines \in SUBSET Dirs
  /\ mapper \in {{}, ToSet(MainDirs), ToSet(MainDirs \o LocalDirs)}
  /\ copied = defines \cap mapper
  /\ base = First(BaseDirs) /\ pack = base /\ edits = 0

\* The developer defines the resource in one more place, or no longer; data binding
\* copies what is new before the next pack is built.
Edit(d) ==
  /\ edits < MaxEdits /\ edits' = edits + 1
  /\ IF d \in defines
       THEN defines' = defines \ {d} /\ UNCHANGED copied
       ELSE defines' = defines \cup {d} /\ copied' = copied \cup ({d} \cap mapper)
  /\ UNCHANGED <<mapper, base, pack>>

IncrementalPack ==
  /\ pack # First(IncDirs)
  /\ pack' = First(IncDirs)
  /\ UNCHANGED <<defines, mapper, copied, base, edits>>

Next == IncrementalPack \/ \E d \in Edited : Edit(d)

Spec == Init /\ [][Next]_vars

-----------------------------------------------------------------------------
Among(S) == \E d \in S : Defined(d)

\* gradle_tools.py:703-724 and gradle_inc_build.py:353-382 - a pack built by the one
\* function takes every resource from where the other would.  Exception: one that
\* both an archive and an extra directory define, and nothing before them.
SamePlaceInBothPacks ==
  First(IncDirs) # First(BaseDirs) =>
    /\ Among(ToSet(DepDirs)) /\ Among(ToSet(ExtraDirs))
    /\ ~Among(ToSet(MainDirs \o LocalDirs))

\* While the developer changes nothing a resource the modules define stays what it
\* is, and it never gives way to one of an archive unless its last definition is
\* deleted where no copy is read.
ModulesComeFirst ==
  [][(pack \in ToSet(MainDirs \o LocalDirs)) /\ pack' \notin ToSet(MainDirs \o LocalDirs)
     => \A d \in ToSet(MainDirs \o LocalDirs) : d \notin defines /\ d \notin copied]_vars
=============================================================================
