---------------------------- MODULE ResourceIds -----------------------------
(***************************************************************************)
(* The ids of the application's resources.  The code the clean build has   *)
(* compiled holds ids as numbers, and an incremental build compiles only   *)
(* what has changed: no resource may get another id.  Freeline keeps the   *)
(* ids in two files beside the resources: a public.xml with the id of      *)
(* every name, which aapt reads and writes again, and an ids.xml that      *)
(* declares the names of type "id", which otherwise exist only while a     *)
(* layout mentions them.                                                   *)
(*                                                                         *)
(* aapt is external: it gives a public name the id it is to have, any      *)
(* other name a free one, and fails if a public name is not defined        *)
(* anywhere or if two public entries do not agree.                         *)
(***************************************************************************)
EXTENDS Naturals, FiniteSets, Functions

CONSTANTS
  IdNames,     \* names of type "id"
  Values,      \* names of another type
  Documented,  \* id names R.java describes in a table of its comments
  Ids,         \* the numbers aapt can give
  OwnEntries,  \* entries <<name, id>> the developer may write into a public.xml
  MaxEdits,    \* bound on the edits
  MaxBuilds    \* bound on the builds

\* What the constants may be.
ResourceIdsAssumption ==
  /\ IdNames \cap Values = {} /\ Documented \subseteq IdNames
  /\ Ids \subseteq Nat /\ OwnEntries \subseteq (IdNames \cup Values) \X Ids
  /\ MaxEdits \in Nat /\ MaxBuilds \in Nat

Names == IdNames \cup Values
Files == {"layout", "ids.xml", "public.xml"}

VARIABLES
  defined,  \* names the developer's layouts and values define
  own,      \* entries of the developer's public.xml
  ownIds,   \* names in the developer's ids.xml
  changed,  \* kinds of files changed since the stat was recorded
  keeper,   \* freeline_id_keeper_public.xml: a set of entries
  ids,      \* freeline_id_keeper_ids.xml: a set of names
  kept,     \* the two files exist
  r,        \* R.java of Gradle's build directory: entries
  pack,     \* entries of the pack built last, which is aapt's R.java
  code,     \* entries compiled classes have read from an R.java
  missing,  \* names whose want of a definition made the last aapt fail
  phase,    \* "idle", "aapt": it has succeeded and the rest is to come
  edits, builds,
  history   \* unrefreshed: names that came with a pack whose build then failed,
            \* byR: names the keeper took from R.java, written: names the developer
            \* has written into a public.xml

source == <<defined, own, ownIds>>
files == <<keeper, ids, kept>>
vars == <<source, changed, files, r, pack, code, missing, phase, edits, builds, history>>

Entries == Names \X Ids
NamesOf(E) == {e[1] : e \in E}

TypeOK ==
  /\ defined \subseteq Names /\ own \subseteq OwnEntries /\ ownIds \subseteq IdNames
  /\ changed \subseteq Files
  /\ keeper \subseteq Entries /\ ids \subseteq IdNames /\ kept \in BOOLEAN
  /\ r \subseteq Entries /\ pack \subseteq Entries /\ code \subseteq Entries
  /\ missing \subseteq Names
  /\ phase \in {"idle", "aapt"}
  /\ edits \in 0..MaxEdits /\ builds \in 0..MaxBuilds

-----------------------------------------------------------------------------
(* The keeper files *)

\* generate_public_files_by_r: an id name of the tables is taken for the name of
\* an attribute and gets no item.
PublicByR == r
IdsByR(E) == {n \in NamesOf(E) : n \in IdNames \ Documented}

\* generate_id_file_by_public
IdsByPublic(E) == NamesOf(E) \cap IdNames

\* keep_ids, at the end of a clean build: from the public_keeper.xml the plugin has
\* left or from Gradle's R.java; the step may have been skipped by a failure.
KeepIds(how) ==
  /\ keeper = IF how = "none" THEN {} ELSE r
  /\ ids = CASE how = "keeper" -> IdsByPublic(r) [] how = "R" -> IdsByR(r) [] OTHER -> {}
  /\ kept = (how # "none")
  /\ history = [unrefreshed |-> {}, byR |-> IF how = "R" THEN NamesOf(r) ELSE {}, written |-> {}]

\* check_ids_change
IdFiles == changed \cap {"ids.xml", "public.xml"}
IdsChanged == IdFiles # {}
\* The loop takes them off the list it runs over and misses the second of two in a row.
TakenOff == {T \in SUBSET IdFiles : IdsChanged => T # {}}

\* Elements that differ in any attribute stay side by side, and nothing is taken
\* out again.
MergeXml(one, other) == one \cup other
MergeWithOld(one, other) == IF IdsChanged THEN MergeXml(one, other) ELSE one

\* generate_r_file, as the two files it leaves.
GenerateRFile ==
  LET public == IF kept THEN keeper ELSE PublicByR
      items == IF kept THEN ids ELSE IdsByR(r)
  IN [keeper |-> MergeWithOld(public, own),
      ids |-> MergeWithOld(items, ownIds)]

-----------------------------------------------------------------------------
(* aapt *)

Conflicts(E) == \E e, f \in E : (e[1] = f[1]) # (e[2] = f[2])
Free(E) == Ids \ {e[2] : e \in E}

\* The tables aapt can make of names D with the public entries E.
Tables(D, E) ==
  {E \cup {<<n, f[n]>> : n \in DOMAIN f} : f \in Injection(D \ NamesOf(E), Free(E))}

\* The developer's public.xml is among the resources too.
Public(g) == g.keeper \cup own
Defined(g) == defined \cup ownIds \cup g.ids
Undefined(g) == NamesOf(Public(g)) \ Defined(g)

-----------------------------------------------------------------------------
\* The clean build has just been installed: its code holds the ids of R.java.
Init ==
  /\ defined \in {D \in SUBSET Names : Cardinality(D) = 2}
  /\ own = {} /\ ownIds = {} /\ changed = {}
  /\ r \in Tables(defined, {})
  /\ \E how \in {"keeper", "R", "none"} : KeepIds(how)
  /\ pack = r /\ code = r /\ missing = {}
  /\ phase = "idle" /\ edits = 0 /\ builds = 0

IsEdited(kind) ==
  /\ phase = "idle" /\ edits < MaxEdits /\ edits' = edits + 1
  /\ changed' = changed \cup {kind}
  /\ UNCHANGED <<files, r, pack, code, missing, phase, builds>>

\* A name is defined, or no longer.
EditLayout ==
  /\ IsEdited("layout")
  /\ \E n \in Names : defined' = IF n \in defined THEN defined \ {n} ELSE defined \cup {n}
  /\ UNCHANGED <<own, ownIds, history>>

EditPublic ==
  /\ IsEdited("public.xml")
  /\ \E e \in OwnEntries : own' = IF e \in own THEN own \ {e} ELSE own \cup {e}
  /\ history' = [history EXCEPT !.written = @ \cup NamesOf(own')]
  /\ UNCHANGED <<defined, ownIds>>

EditIds ==
  /\ IsEdited("ids.xml")
  /\ \E n \in IdNames : ownIds' = IF n \in ownIds THEN ownIds \ {n} ELSE ownIds \cup {n}
  /\ UNCHANGED <<defined, own, history>>

\* The files are generated or merged before aapt runs, and stay if it fails.
BuildBegins ==
  /\ phase = "idle" /\ changed # {} /\ builds < MaxBuilds /\ builds' = builds + 1
  /\ kept' = TRUE
  /\ UNCHANGED <<source, changed, r, code, edits>>

AaptFails ==
  /\ BuildBegins
  /\ LET g == GenerateRFile
     IN /\ Undefined(g) # {} \/ Conflicts(Public(g))
        /\ keeper' = g.keeper /\ ids' = g.ids
        /\ missing' = IF Conflicts(Public(g)) THEN {} ELSE Undefined(g)
  /\ history' = IF kept THEN history ELSE [history EXCEPT !.byR = NamesOf(r)]
  /\ UNCHANGED <<pack, phase>>

\* Fault: without -P the new ids are not written back.
AaptWithoutP ==
  /\ BuildBegins
  /\ LET g == GenerateRFile
     IN /\ Undefined(g) = {} /\ ~Conflicts(Public(g))
        /\ pack' \in Tables(Defined(g), Public(g))
        /\ ids' = g.ids
        /\ keeper' = g.keeper
  /\ missing' = {} /\ phase' = "aapt"
  /\ history' = IF kept THEN history ELSE [history EXCEPT !.byR = NamesOf(r)]

\* With -P aapt writes the entries of the new table into the keeper.
Aapt ==
  /\ BuildBegins
  /\ LET g == GenerateRFile
     IN /\ Undefined(g) = {} /\ ~Conflicts(Public(g))
        /\ pack' \in Tables(Defined(g), Public(g))
        /\ ids' = g.ids
        /\ keeper' = pack'
  /\ missing' = {} /\ phase' = "aapt"
  /\ history' = IF kept THEN history ELSE [history EXCEPT !.byR = NamesOf(r)]

\* javac compiles some class against aapt's R.java, which then replaces Gradle's;
\* with no class to compile neither happens.
Compiles ==
  \/ code' = code \cup pack /\ r' = pack
  \/ UNCHANGED <<code, r>>

\* A task after aapt fails, before or after javac.
RestFails ==
  /\ phase = "aapt" /\ phase' = "idle"
  /\ Compiles
  /\ history' = [history EXCEPT !.unrefreshed = @ \cup (NamesOf(pack) \ ids)]
  /\ UNCHANGED <<source, changed, files, pack, missing, edits, builds>>

\* _refresh_public_files: the names are declared from now on.  The stat is recorded
\* of all files but those check_ids_change has taken off the list.
Finish ==
  /\ phase = "aapt" /\ phase' = "idle"
  /\ Compiles
  /\ ids' = IdsByPublic(keeper)
  /\ changed' \in TakenOff
  /\ history' = [history EXCEPT !.unrefreshed = {}, !.byR = {}]
  /\ UNCHANGED <<source, keeper, kept, pack, missing, edits, builds>>

Next ==
  \/ EditLayout \/ EditPublic \/ EditIds
  \/ AaptFails \/ Aapt \/ RestFails \/ Finish

Spec == Init /\ [][Next]_vars

-----------------------------------------------------------------------------
\* gradle_inc_build.py:410 - whatever the developer adds, takes away or writes into
\* a public.xml, and whichever builds fail on the way: an id a compiled class holds
\* is, in every pack made since, the id of the same resource.
CompiledIdsResolve == code \subseteq pack

\* The id a name has had in one pack it has in every later one, also when no class
\* was compiled against it: the pack is never ahead of the keeper.
IdsStayFixed == [][pack \subseteq pack']_pack

\* android_tools.py:415, gradle_tools.py:599 - a name of type "id" that disappears
\* from the layouts does not make a build fail: ids.xml declares it.  Exceptions are
\* names that came with a pack whose build then failed, which ids.xml learns of at
\* the next success only, those of R.java's tables until the first success, and
\* names the developer has written into a public.xml.
IdsMayDisappear ==
  missing \cap IdNames \subseteq
    history.unrefreshed \cup (history.byR \cap Documented) \cup history.written
=============================================================================
