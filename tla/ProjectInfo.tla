---------------------------- MODULE ProjectInfo -----------------------------
(***************************************************************************)
(* How Freeline collects what it knows of a project: the modules of the    *)
(* Gradle settings, what each depends on and whose resources it uses.  The *)
(* dependencies come from the project description the Gradle plugin has    *)
(* written or, without it, from the build scripts, whose lists are         *)
(* extended while they are read, module after module.                      *)
(*                                                                         *)
(* A list holds items <<kind, module>>: a build script declares the path   *)
(* of a module, which is its name unless the module is in a subdirectory.  *)
(***************************************************************************)
EXTENDS Naturals, Sequences, FiniteSets, SequencesExt

CONSTANTS
  Modules,  \* the modules of the settings, a sequence
  Outside,  \* a dependency that is no module of the project
  MaxDeclared, \* bound on the direct dependencies of a module
  MaxNested    \* bound on the modules in subdirectories

Names == ToSet(Modules)

\* What the constants may be.
ProjectAssumption ==
  /\ Outside \notin Names /\ Modules \in Seq(Names) /\ IsInjective(Modules)
  /\ MaxDeclared \in Nat /\ MaxNested \in Nat

VARIABLES
  declared, \* declared[m]: the modules m depends on directly
  nested,   \* the modules in subdirectories
  source,   \* "description" or "scripts"
  cached,   \* modules whose resources_dependencies.json exists
  at,       \* number of the module that is completed next
  i,        \* position in the list that is read
  list,     \* list[m]: local_module_dep of m's info
  level,    \* modules find_all_dependent_modules has yet to look below
  found,    \* the modules it has collected
  uses      \* uses[m]: the modules whose local resources m is given

input == <<declared, nested, source, cached>>
vars == <<input, at, i, list, level, found, uses>>

Name(m) == <<"name", m>>
Path(m) == IF m \in nested THEN <<"path", m>> ELSE Name(m)

\* What get_module_name makes of a list: the last parts of the paths.
NamesOf(s) == {s[k][2] : k \in DOMAIN s} \cap Names

\* The modules below m by what is declared, for reference: those in every set that
\* has what m depends on and, with a module, what that one depends on.
Closed(S) == \A d \in S : declared[d] \cap Names \subseteq S
Reachable(m) == {n \in Names : \A S \in SUBSET Names : declared[m] \cap Names \subseteq S /\ Closed(S) => n \in S}

TypeOK ==
  /\ at \in 1..(Len(Modules) + 1) /\ i \in Nat \ {0}
  /\ \A m \in Names : \A k \in DOMAIN list[m] : list[m][k] \in {"name", "path"} \X (Names \cup {Outside})
  /\ level \subseteq Names /\ found \subseteq Names
  /\ uses \in [Names -> SUBSET Names]

\* Gradle refuses modules that depend on each other in a circle.
Init ==
  /\ source \in {"description", "scripts"}
  /\ declared \in [Names -> {S \in SUBSET (Names \cup {Outside}) : Cardinality(S) <= MaxDeclared}]
  /\ source = "description" => \A m \in Names : Outside \notin declared[m]
  /\ \A m \in Names : m \notin Reachable(m)
  /\ nested \in {S \in SUBSET Names : Cardinality(S) <= MaxNested}
  /\ source = "description" => nested = {}
  /\ cached \in IF source = "scripts" THEN {Names} ELSE SUBSET Names
  /\ at = 1 /\ i = 1
  /\ list = [m \in Names |-> SetToSeq({Path(d) : d \in declared[m]})]
  /\ level = {} /\ found = {}
  /\ uses = [m \in Names |-> {}]

-----------------------------------------------------------------------------
Module == Modules[at]

\* One turn of the loop that extends the list it runs over, by the list of the
\* module read, be it completed or not.  A path is looked up among the names:
\* what a module in a subdirectory depends on is not added for its path.
Extend ==
  /\ source = "scripts" /\ at <= Len(Modules)
  /\ i <= Len(list[Module])
  /\ LET item == list[Module][i]
     IN list' = IF item[1] = "name" /\ item[2] \in Names
                  THEN [list EXCEPT ![Module] = @ \o list[item[2]]] ELSE list
  /\ i' = i + 1
  /\ UNCHANGED <<input, at, level, found, uses>>

\* The list becomes the names of the project's modules in it; without a
\* description only the module's own record of local resources is used.
CompleteFromScripts ==
  /\ source = "scripts" /\ at <= Len(Modules)
  /\ i > Len(list[Module])
  /\ list' = [list EXCEPT ![Module] = SetToSeq({Name(m) : m \in NamesOf(list[Module])})]
  /\ uses' = [uses EXCEPT ![Module] = {Module} \cap cached]
  /\ at' = at + 1 /\ i' = 1
  /\ UNCHANGED <<input, level, found>>

\* get_local_resources_dependencies begins with the modules of the list.
BeginSearch ==
  /\ source = "description" /\ at <= Len(Modules) /\ i = 1
  /\ level' = NamesOf(list[Module]) /\ found' = NamesOf(list[Module])
  /\ i' = 2
  /\ UNCHANGED <<input, at, list, uses>>

\* A call of find_all_dependent_modules, which calls itself for the next level.
\* Fault: the search ends after one level.
SearchOneLevel ==
  /\ source = "description" /\ at <= Len(Modules) /\ i = 2
  /\ level # {}
  /\ level' = {}
  /\ found' = found \cup UNION {declared[m] : m \in level}
  /\ UNCHANGED <<input, at, i, list, uses>>

Search ==
  /\ source = "description" /\ at <= Len(Modules) /\ i = 2
  /\ level # {}
  /\ level' = UNION {declared[m] : m \in level}
  /\ found' = found \cup level'
  /\ UNCHANGED <<input, at, i, list, uses>>

CompleteFromDescription ==
  /\ source = "description" /\ at <= Len(Modules) /\ i = 2
  /\ level = {}
  /\ uses' = [uses EXCEPT ![Module] = ({Module} \cup found) \cap cached]
  /\ at' = at + 1 /\ i' = 1
  /\ UNCHANGED <<input, list, level, found>>

Next == Extend \/ CompleteFromScripts \/ BeginSearch \/ Search \/ CompleteFromDescription

Spec == Init /\ [][Next]_vars

-----------------------------------------------------------------------------
Completed == {Modules[k] : k \in 1..(at - 1)}

\* gradle_tools.py:1107-1119 - whatever the order of the modules in the
\* settings, the list of one that is completed names exactly the modules below
\* it, though the lists it was extended by hold paths for some and names for
\* others.  For a module in a subdirectory what is below it may be missing,
\* never the module itself, and nothing else is named.
ListsAreClosed ==
  source = "scripts" => \A m \in Completed :
    /\ declared[m] \cap Names \subseteq NamesOf(list[m])
    /\ NamesOf(list[m]) \subseteq Reachable(m)
    /\ Reachable(m) \cap nested = {} => NamesOf(list[m]) = Reachable(m)

\* gradle_tools.py:1129-1150 - with a description a module is given the local
\* resources of every module below it that has recorded its own, at any depth.
ResourcesFromAllBelow ==
  source = "description" => \A m \in Completed : uses[m] = ({m} \cup Reachable(m)) \cap cached

=============================================================================
