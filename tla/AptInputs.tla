----------------------------- MODULE AptInputs ------------------------------
(***************************************************************************)
(* What the annotation processor of data binding is given besides the      *)
(* changed sources when a module's layouts have changed: the classes the   *)
(* layouts name and the files with annotations of the clean build.  The    *)
(* latter are collected by the first module that needs them, into one      *)
(* cache file for all modules.                                             *)
(***************************************************************************)
EXTENDS Naturals, FiniteSets

CONSTANTS
  Bound,      \* modules with data binding
  Deps,       \* pairs <<m, d>>: module m depends on module d
  Dagger,     \* whether dagger is enabled
  Annotated,  \* records [file, anno, module]: what the plugin finds in a clean build
  Classes,    \* classes a layout can name
  Platform,   \* those of android. and java.
  Sources,    \* those whose source is in the project at the clean build
  Layouts,    \* records [imports, variables]: imports is a set of records [name, type],
              \* variables a set of types, each [class] or [word]
  MaxBuilds,  \* bound on the builds
  None

Tags == {"BindingAdapter", "BindingConversion", "Bindable"} \cup
        IF Dagger THEN {"DaggerComponent", "DaggerModule"} ELSE {}

\* What the constants may be.
AptInputsAssumption ==
  /\ Deps \subseteq Bound \X Bound /\ Dagger \in BOOLEAN
  /\ Platform \subseteq Classes /\ Sources \subseteq Classes \ Platform
  /\ \A l \in Layouts : /\ \A i \in l.imports : i.type \in Classes
                        /\ \A v \in l.variables : "class" \in DOMAIN v => v.class \in Classes
  /\ None \notin Bound
  /\ MaxBuilds \in Nat

AnnotatedFiles == {a.file : a \in Annotated}
Files == AnnotatedFiles \cup Sources

VARIABLES
  exists,   \* files that exist
  layouts,  \* the merged layout info: of all modules, of deleted layouts too
  cache,    \* apt_related_files_cache.json, or None
  flagged,  \* modules whose layouts have changed in this build
  given,    \* given[m]: what the processor was given for m, or None
  builds,
  history   \* the module that made the cache, or None

vars == <<exists, layouts, cache, flagged, given, builds, history>>

TypeOK ==
  /\ exists \subseteq Files /\ layouts \subseteq Layouts
  /\ cache = None \/ cache \subseteq AnnotatedFiles
  /\ flagged \subseteq Bound
  /\ \A m \in Bound : given[m] = None \/
       (given[m].related \subseteq AnnotatedFiles /\ given[m].classes \subseteq Classes)
  /\ builds \in 0..MaxBuilds /\ history \in Bound \cup {None}

\* The clean build has just ended.
Init ==
  /\ exists = Files /\ layouts = {} /\ cache = None
  /\ flagged = {} /\ given = [m \in Bound |-> None]
  /\ builds = 0 /\ history = None

\* The developer deletes a file or changes the layouts.
DeleteFile(f) ==
  /\ flagged = {} /\ f \in exists
  /\ exists' = exists \ {f}
  /\ UNCHANGED <<layouts, cache, flagged, given, builds, history>>

StartBuild ==
  /\ flagged = {} /\ builds < MaxBuilds /\ builds' = builds + 1
  /\ flagged' \in (SUBSET Bound) \ {{}}
  /\ layouts' \in {L \in SUBSET Layouts : layouts \subseteq L}
  /\ given' = [m \in Bound |-> None]
  /\ UNCHANGED <<exists, cache, history>>

-----------------------------------------------------------------------------
\* _get_apt_related_files, where the cache does not exist.
Collect(m) ==
  {a.file : a \in {b \in Annotated : b.anno \in Tags /\
                     (b.module = m \/ <<m, b.module>> \in Deps)}}

RelatedFiles(m) == IF cache = None THEN Collect(m) ELSE cache

\* _generate_java_compile_args
Given(m) == RelatedFiles(m) \cap exists

\* process_layout_info: the imported types, and those of the variables that are no
\* word; a word is looked up among the imports, whose types are there already.
NamedIn(l) == {i.type : i \in l.imports} \cup {v.class : v \in {w \in l.variables : "class" \in DOMAIN w}}

\* extract_related_java_files: those of all modules' layouts, where there is a source.
Extract(L) == ((UNION {NamedIn(l) : l \in L}) \ Platform) \cap exists

\* run_apt_only for m, after the modules it depends on; files that are gone are
\* left out.  The processor may fail, but the cache has been written.
RunApt(m) ==
  /\ m \in flagged /\ given[m] = None
  /\ \A d \in flagged : <<m, d>> \in Deps => given[d] # None
  /\ cache' = RelatedFiles(m)
  /\ given' = [given EXCEPT ![m] =
       [related |-> Given(m), classes |-> Extract(layouts)]]
  /\ history' = IF cache = None THEN m ELSE history
  /\ UNCHANGED <<exists, layouts, flagged, builds>>

\* All modules have been compiled, or the build has failed.
BuildEnds ==
  /\ flagged # {} /\ flagged' = {}
  /\ UNCHANGED <<exists, layouts, cache, given, builds, history>>

\* A clean build empties the cache directory and finds the annotations again.
CleanBuild ==
  /\ flagged = {} /\ cache # None
  /\ cache' = None /\ history' = None /\ exists' = Files
  /\ given' = [m \in Bound |-> None] /\ layouts' = {}
  /\ UNCHANGED <<flagged, builds>>

Next ==
  \/ \E f \in Files : DeleteFile(f)
  \/ StartBuild \/ \E m \in Bound : RunApt(m)
  \/ BuildEnds \/ CleanBuild

Spec == Init /\ [][Next]_vars

-----------------------------------------------------------------------------
(* Properties *)

\* gradle_inc_build.py:694-717 - the processor is given the annotated files of a
\* module and of those it depends on, in the first build and in all later ones.
\* Exception: a module that finds the cache made by another one.
AnnotatedFilesAreGiven ==
  \A m \in flagged : given[m] # None /\ history = m =>
    {a.file : a \in {b \in Annotated : b.anno \in Tags /\ b.module \in {m} \cup {d \in Bound : <<m, d>> \in Deps}}}
      \cap exists \subseteq given[m].related

\* No file that is gone is on the command line, however old the cache is.
NothingGoneIsGiven == \A m \in flagged : given[m] # None => given[m].related \cup given[m].classes \subseteq exists
=============================================================================
