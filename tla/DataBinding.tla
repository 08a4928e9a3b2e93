---------------------------- MODULE DataBinding -----------------------------
(***************************************************************************)
(* The list of changed resources on its way through an incremental build   *)
(* of a project with data binding.  The layouts of such a module are       *)
(* copied, processed, into a directory of the cache, which aapt reads in   *)
(* place of the developer's; the clean build has made these directories.   *)
(*                                                                         *)
(* The lists of the libraries are added to the one of the main module,     *)
(* which therefore is one list under two names: what the steps take off it *)
(* is off the list of files whose stat is recorded at the end as well.     *)
(* The order of the list matters to one step only, which chooses it.       *)
(***************************************************************************)
EXTENDS Naturals, Sequences, FiniteSets, Functions

CONSTANTS
  Modules, Main,
  Bound,     \* modules with data binding
  Dirs,      \* Dirs[m]: the resource directories of m, none of which is the prefix of another
  Late,      \* directories that may not exist before the clean build
  MaxEdits,  \* bound on the edits
  MaxBuilds  \* bound on the builds

AllDirs == UNION {Dirs[m] : m \in Modules}
Files == AllDirs \X {"layout", "ids"}
Owner(d) == CHOOSE m \in Modules : d \in Dirs[m]

\* What the constants may be.
DataBindingAssumption ==
  /\ Main \in Modules /\ Bound \subseteq Modules
  /\ \A m, n \in Modules : m # n => Dirs[m] \cap Dirs[n] = {}
  /\ Late \subseteq AllDirs /\ MaxEdits \in Nat /\ MaxBuilds \in Nat

VARIABLES
  version,  \* the developer's files, each a number that grows with every edit
  stat,     \* versions recorded by the builds
  copy,     \* versions of the processed copies
  packed,   \* versions in the pack built last
  mapper,   \* directories with a copy: target_path_mapper, saved by the clean build
  res,      \* the list of the main module, as the set of its items <<place, file>>
  lists,    \* lists[m]: the files of a library's own list
  replaced, \* files whose path is replaced: _replace_mapper
  prefixes, \* directories a path of the list is looked up in: _merged_res_paths
  todo,     \* <<module, directory>> data binding has yet to look at
  overwritten, \* directories of the developer the tool has written into
  phase,    \* "idle", "scanned", "binding", "bound", "packed", "recovered"
  failure,  \* why the last build failed: "none", "tool" or "code"
  builds

project == <<version, stat>>
cache == <<copy, packed, mapper>>
working == <<res, lists, replaced, prefixes, todo>>
vars == <<project, cache, working, overwritten, phase, failure, builds>>

Source(f) == <<"source", f>>
Output(f) == <<"output", f>>
Items == {"source", "output"} \X Files
\* The place an item's path begins with.
Prefix(item) == <<item[1], item[2][1]>>

TypeOK ==
  /\ version \in [Files -> 0..MaxEdits] /\ stat \in [Files -> 0..MaxEdits]
  /\ copy \in [Files -> 0..MaxEdits] /\ packed \in [Files -> 0..MaxEdits]
  /\ mapper \subseteq AllDirs
  /\ res \subseteq Items
  /\ \A m \in Modules : lists[m] \subseteq Dirs[m] \X {"layout", "ids"}
  /\ replaced \subseteq Files /\ prefixes \subseteq {"source", "output"} \X AllDirs
  /\ todo \subseteq Bound \X AllDirs /\ overwritten \subseteq AllDirs
  /\ phase \in {"idle", "scanned", "binding", "bound", "packed", "recovered"}
  /\ failure \in {"none", "tool", "code"} /\ builds \in 0..MaxBuilds

\* DataBindingProcessor.process, in the clean build: a copy of every directory of a
\* module with data binding that exists then.
Init ==
  /\ version = [f \in Files |-> 0]
  /\ stat = version /\ copy = version /\ packed = version
  /\ \E absent \in SUBSET Late : mapper = (UNION {Dirs[m] : m \in Bound}) \ absent
  /\ res = {} /\ lists = [m \in Modules |-> {}] /\ replaced = {} /\ prefixes = {} /\ todo = {}
  /\ overwritten = {} /\ phase = "idle" /\ failure = "none" /\ builds = 0

Edit(f) ==
  /\ phase = "idle"
  /\ \E n \in 1..MaxEdits :
       /\ \A g \in Files : version[g] < n
       /\ \E g \in Files : version[g] = n - 1
       /\ version' = [version EXCEPT ![f] = n]
  /\ UNCHANGED <<stat, cache, working, overwritten, phase, failure, builds>>

-----------------------------------------------------------------------------
\* The invoker looks paths up in the resource directories of all modules (and in the
\* backup directory, where nothing is edited).
MergedResPaths == {"source"} \X AllDirs

\* The scan, and __merge_res_files.
Scan ==
  /\ phase = "idle" /\ builds < MaxBuilds /\ builds' = builds + 1
  /\ LET changed == {f \in Files : version[f] > stat[f]}
     IN /\ changed # {}
        /\ res' = {Source(f) : f \in changed}
        /\ lists' = [m \in Modules |-> IF m = Main THEN {} ELSE {f \in changed : Owner(f[1]) = m}]
  /\ replaced' = {} /\ prefixes' = MergedResPaths
  /\ phase' = "scanned" /\ failure' = "none"
  /\ UNCHANGED <<project, cache, todo, overwritten>>

Orders(S) == {s \in [1..Cardinality(S) -> S] : IsInjective(s)}
IsId(item) == item[2][2] = "ids"

\* check_ids_change: an id file is taken off, and the loop misses the next item; of
\* id files in a row every other one is.
TakenOff(s) ==
  {item \in res : IsId(item) /\ \E i \in DOMAIN s, first \in DOMAIN s :
     /\ item = s[i] /\ first <= i /\ (i - first) % 2 = 0
     /\ \A k \in first..i : IsId(s[k])
     /\ first = 1 \/ ~IsId(s[first - 1])}

CheckIdsChange ==
  /\ phase = "scanned" /\ phase' = "binding"
  /\ LET inMain == {x \in res : Owner(x[2][1]) = Main}
     IN \E s \in Orders(inMain), t \in Orders(res \ inMain) : res' = res \ TakenOff(s \o t)
  /\ todo' = {place \in Bound \X AllDirs : place[2] \in Dirs[place[1]]}
  /\ UNCHANGED <<project, cache, lists, replaced, prefixes, overwritten, failure, builds>>

Fails(why) ==
  /\ failure' = why /\ phase' = "idle"
  /\ UNCHANGED <<project, packed, mapper, working, builds>>

\* Fault: the lists are those the scan has made.
ResourceFilesOfScan(m) == lists[m]

\* The changed files of a module: its own list, for the main module the one that has
\* been changed meanwhile.
ResourceFiles(m) == IF m = Main THEN {item[2] : item \in {x \in res : x[1] = "source"}} ELSE lists[m]

\* find_target_res_path and its sisters: without a copy the directory itself.
Target(d) == IF d \in mapper THEN "output" ELSE "source"

Unchanged(m, d) ==
  /\ phase = "binding" /\ <<m, d>> \in todo
  /\ {f \in ResourceFiles(m) : f[1] = d} = {}
  /\ todo' = todo \ {<<m, d>>}
  /\ UNCHANGED <<project, cache, res, lists, replaced, prefixes, overwritten, phase, failure, builds>>

\* process_module_databinding: the tool writes the processed files where their copies
\* are, or into the developer's directory where there is no copy.
Processed(fs, d) == [f \in Files |-> IF f \in fs /\ d \in mapper THEN version[f] ELSE copy[f]]

\* The tool runs on the changed files of a directory, then their paths are replaced.  A file check_ids_change has taken off the list cannot be removed
\* again: that is an exception.
Process(m, d) ==
  LET fs == {f \in ResourceFiles(m) : f[1] = d}
      written == overwritten \cup ({d} \ mapper)
  IN
  /\ phase = "binding" /\ <<m, d>> \in todo /\ fs # {}
  /\ \/ Fails("tool") /\ copy' \in {copy, Processed(fs, d)} /\ overwritten' = written
     \/ /\ copy' = Processed(fs, d) /\ overwritten' = written
        /\ \/ /\ \E f \in fs : Source(f) \notin res
              /\ Fails("code")
           \/ /\ \A f \in fs : Source(f) \in res
              /\ res' = (res \ {Source(f) : f \in fs}) \cup {<<Target(d), f>> : f \in fs}
              /\ replaced' = replaced \cup fs
              /\ prefixes' = prefixes \cup {<<Target(d), d>>}
              /\ todo' = todo \ {<<m, d>>}
              /\ UNCHANGED <<project, packed, mapper, lists, phase, failure, builds>>

BindingEnds ==
  /\ phase = "binding" /\ todo = {} /\ phase' = "bound"
  /\ UNCHANGED <<project, cache, working, overwritten, failure, builds>>

\* _parse_changed_list: a path no directory is found for becomes None, and the list
\* cannot be joined.
RelativePathsFound == \A item \in res : Prefix(item) \in prefixes

\* aapt reads the copies where there are any, and the developer's files elsewhere.
Aapt ==
  /\ phase = "bound"
  /\ \/ ~RelativePathsFound /\ Fails("code") /\ UNCHANGED <<copy, overwritten>>
     \/ RelativePathsFound /\ Fails("tool") /\ UNCHANGED <<copy, overwritten>>
     \/ /\ RelativePathsFound
        /\ packed' = [f \in Files |-> IF f[1] \in mapper THEN copy[f] ELSE version[f]]
        /\ phase' = "packed"
        /\ UNCHANGED <<project, copy, mapper, working, overwritten, failure, builds>>

RecoverOriginalFilePath ==
  /\ phase = "packed" /\ phase' = "recovered"
  /\ LET outputs == {item \in res : item[2] \in replaced}
     IN res' = (res \ outputs) \cup {Source(item[2]) : item \in outputs}
  /\ UNCHANGED <<project, cache, lists, replaced, prefixes, todo, overwritten, failure, builds>>

\* UpdateStatTask records the files of all lists, and in their places only.
UpdateStat ==
  /\ phase = "recovered" /\ phase' = "idle"
  /\ LET recorded == {item[2] : item \in {x \in res : x[1] = "source"}} \cup UNION {lists[m] : m \in Modules}
     IN stat' = [f \in Files |-> IF f \in recorded THEN version[f] ELSE stat[f]]
  /\ UNCHANGED <<version, cache, working, overwritten, failure, builds>>

\* A task between aapt and the recording of the stat fails.
LaterTaskFails ==
  /\ phase = "recovered"
  /\ Fails("tool") /\ UNCHANGED <<copy, overwritten>>

Next ==
  \/ \E f \in Files : Edit(f)
  \/ Scan \/ CheckIdsChange
  \/ \E m \in Bound, d \in AllDirs : Unchanged(m, d) \/ Process(m, d)
  \/ BindingEnds \/ Aapt \/ RecoverOriginalFilePath \/ UpdateStat \/ LaterTaskFails

Spec == Init /\ [][Next]_vars

-----------------------------------------------------------------------------
(* Properties *)

IdFile(f) == f[2] = "ids"
HasCopy(f) == f[1] \in mapper

\* gradle_inc_build.py:323-329 - a pack holds every file as the developer left it,
\* whatever copies earlier builds made or failed to make.  Exception: an id file that
\* has a copy; check_ids_change hides it from data binding.
PackIsCurrent ==
  phase = "packed" => \A f \in Files : packed[f] = version[f] \/ (IdFile(f) /\ HasCopy(f))

\* A file whose stat is recorded is in the pack, so none is taken for built that is
\* not (exception as above).
RecordedIsBuilt ==
  phase = "idle" => \A f \in Files : packed[f] >= stat[f] \/ (IdFile(f) /\ HasCopy(f))

\* gradle_inc_build.py:441 - a successful build records every changed file, though
\* its path was replaced meanwhile and the two names stand for one list.  Exception:
\* id files of the main module, which every later build finds changed again.
SuccessRecordsAll ==
  [][phase = "recovered" /\ phase' = "idle" /\ failure' = "none"
     => \A f \in Files : stat'[f] = version[f] \/ (IdFile(f) /\ Owner(f[1]) = Main)]_vars

\* gradle_inc_build.py:328, 815-843 - removing a path from the list and looking up
\* what it is relative to do not fail by themselves, except for an id file of a
\* library with data binding.
PreparationFails ==
  failure = "code" => \E m \in Bound \ {Main} : \E f \in lists[m] : IdFile(f)

\* gradle_inc_build.py:312-318 - the tool does not write into the developer's
\* directories, except one that did not exist at the clean build: no copy is found
\* for it, and the place of the copy is then the directory itself.
SourcesAreLeftAlone == overwritten \subseteq Late \ mapper
=============================================================================
