---------------------------- MODULE MCResources -----------------------------
(***************************************************************************)
(* What an incremental build makes of resources and generated code, a      *)
(* module for each of the files that have to agree: the ids (ResourceIds), *)
(* the copies that data binding works on (DataBinding), the order of the   *)
(* resource directories (ResourceOverlay), the R.java of the libraries     *)
(* (LibraryR), what the annotation processor is given (AptInputs), and the *)
(* classes of the patch (PatchClasses). A behaviour is of one component;   *)
(* the variables of the others rest.                                       *)
(***************************************************************************)
EXTENDS Naturals, Sequences, FiniteSets, Parts

CONSTANTS
  IdNames, Values, Documented, Ids, OwnEntries, MaxIdsEdits, MaxIdsBuilds,         \* of ResourceIds
  ResModules, MainModule, BindingModules, ResDirs, Late, MaxBindingEdits,
  MaxBindingBuilds,                                                                \* of DataBinding
  MainDirs, LocalDirs, DepDirs, ExtraDirs, Backup, EditedDirs, MaxOverlayEdits,    \* of ResourceOverlay
  Sources, Related, Generated, Contents, MaxTime, MaxClassesEdits, MaxClassesBuilds, \* of PatchClasses
  Libraries, LibraryDeps, MaxNames, MaxLibrBuilds,                                 \* of LibraryR
  AptModules, AptDeps, Dagger, Annotated, Classes, Platform, ClassSources,
  Layouts, MaxAptBuilds                                                            \* of AptInputs

VARIABLES
  \* of ResourceIds
  defined, own, ownIds, idsChanged, keeper, ids, kept, r, idsPack, code, missing, idsPhase,
  idsEdits, idsBuilds, idsHistory,
  \* of DataBinding
  bindingVersion, bindingStat, copy, bindingPacked, bindingMapper, res, lists, replaced, prefixes,
  bindingTodo, overwritten, bindingPhase, failure, bindingBuilds,
  \* of ResourceOverlay
  defines, overlayMapper, copied, base, overlayPack, overlayEdits,
  \* of PatchClasses
  content, dirty, classesLayouts, aptCache, compile, classes, classesStat, classesDex, now,
  classesPhase, classesFailed, classesEdits, classesBuilds,
  \* of LibraryR
  names, edited, librChanged, librPacked, backup, compiled, librTodo, librPhase, librBuilds,
  librHistory,
  \* of AptInputs
  exists, aptLayouts, cache, flagged, given, aptBuilds, aptHistory

ResIds == INSTANCE ResourceIds WITH
  MaxEdits <- MaxIdsEdits, MaxBuilds <- MaxIdsBuilds,
  changed <- idsChanged, pack <- idsPack, phase <- idsPhase, edits <- idsEdits,
  builds <- idsBuilds, history <- idsHistory
Binding == INSTANCE DataBinding WITH
  Modules <- ResModules, Main <- MainModule, Bound <- BindingModules, Dirs <- ResDirs,
  MaxEdits <- MaxBindingEdits, MaxBuilds <- MaxBindingBuilds,
  version <- bindingVersion, stat <- bindingStat, packed <- bindingPacked,
  mapper <- bindingMapper, todo <- bindingTodo, phase <- bindingPhase, builds <- bindingBuilds
Overlay == INSTANCE ResourceOverlay WITH
  Edited <- EditedDirs, MaxEdits <- MaxOverlayEdits,
  mapper <- overlayMapper, pack <- overlayPack, edits <- overlayEdits
Patch == INSTANCE PatchClasses WITH
  MaxEdits <- MaxClassesEdits, MaxBuilds <- MaxClassesBuilds,
  layouts <- classesLayouts, stat <- classesStat, dex <- classesDex, phase <- classesPhase,
  failed <- classesFailed, edits <- classesEdits, builds <- classesBuilds
LibR == INSTANCE LibraryR WITH
  Deps <- LibraryDeps, MaxBuilds <- MaxLibrBuilds,
  changed <- librChanged, packed <- librPacked, todo <- librTodo, phase <- librPhase,
  builds <- librBuilds, history <- librHistory
Apt == INSTANCE AptInputs WITH
  Bound <- AptModules, Deps <- AptDeps, Sources <- ClassSources, MaxBuilds <- MaxAptBuilds,
  layouts <- aptLayouts, builds <- aptBuilds, history <- aptHistory

ASSUME PartsAssumption ==
  /\ ResIds!ResourceIdsAssumption /\ Binding!DataBindingAssumption
  /\ Overlay!ResourceOverlayAssumption /\ Patch!PatchClassesAssumption /\ LibR!LibraryRAssumption
  /\ Apt!AptInputsAssumption

resIdsVars ==
  <<defined, own, ownIds, idsChanged, keeper, ids, kept, r, idsPack, code, missing, idsPhase,
    idsEdits, idsBuilds, idsHistory>>
bindingVars ==
  <<bindingVersion, bindingStat, copy, bindingPacked, bindingMapper, res, lists, replaced, prefixes,
    bindingTodo, overwritten, bindingPhase, failure, bindingBuilds>>
overlayVars ==
  <<defines, overlayMapper, copied, base, overlayPack, overlayEdits>>
classesVars ==
  <<content, dirty, classesLayouts, aptCache, compile, classes, classesStat, classesDex, now,
    classesPhase, classesFailed, classesEdits, classesBuilds>>
libRVars ==
  <<names, edited, librChanged, librPacked, backup, compiled, librTodo, librPhase, librBuilds,
    librHistory>>
aptVars ==
  <<exists, aptLayouts, cache, flagged, given, aptBuilds, aptHistory>>

\* The variables of a component that this behaviour is not about.
ResIdsRests ==
  /\ defined = None /\ own = None /\ ownIds = None /\ idsChanged = None /\ keeper = None
  /\ ids = None /\ kept = None /\ r = None /\ idsPack = {} /\ code = None /\ missing = None
  /\ idsPhase = None /\ idsEdits = None /\ idsBuilds = None /\ idsHistory = None
BindingRests ==
  /\ bindingVersion = None /\ bindingStat = None /\ copy = None /\ bindingPacked = None
  /\ bindingMapper = None /\ res = None /\ lists = None /\ replaced = None /\ prefixes = None
  /\ bindingTodo = None /\ overwritten = None /\ bindingPhase = None /\ failure = None
  /\ bindingBuilds = None
OverlayRests ==
  /\ defines = None /\ overlayMapper = None /\ copied = None /\ base = None /\ overlayPack = None
  /\ overlayEdits = None
ClassesRests ==
  /\ content = None /\ dirty = None /\ classesLayouts = None /\ aptCache = None /\ compile = None
  /\ classes = None /\ classesStat = None /\ classesDex = None /\ now = None /\ classesPhase = None
  /\ classesFailed = None /\ classesEdits = None /\ classesBuilds = None
LibRRests ==
  /\ names = None /\ edited = None /\ librChanged = None /\ librPacked = None /\ backup = None
  /\ compiled = None /\ librTodo = None /\ librPhase = None /\ librBuilds = None
  /\ librHistory = None
AptRests ==
  /\ exists = None /\ aptLayouts = None /\ cache = None /\ flagged = None /\ given = None
  /\ aptBuilds = None /\ aptHistory = None

ResourcesRest ==
  ResIdsRests /\ BindingRests /\ OverlayRests /\ ClassesRests /\ LibRRests /\ AptRests

ResourcesInit ==
  \/ part = "ids" /\ ResIds!Init /\ BindingRests /\ OverlayRests /\ ClassesRests /\ LibRRests /\ AptRests
  \/ part = "binding" /\ Binding!Init /\ ResIdsRests /\ OverlayRests /\ ClassesRests /\ LibRRests /\ AptRests
  \/ part = "overlay" /\ Overlay!Init /\ ResIdsRests /\ BindingRests /\ ClassesRests /\ LibRRests /\ AptRests
  \/ part = "classes" /\ Patch!Init /\ ResIdsRests /\ BindingRests /\ OverlayRests /\ LibRRests /\ AptRests
  \/ part = "libr" /\ LibR!Init /\ ResIdsRests /\ BindingRests /\ OverlayRests /\ ClassesRests /\ AptRests
  \/ part = "apt" /\ Apt!Init /\ ResIdsRests /\ BindingRests /\ OverlayRests /\ ClassesRests /\ LibRRests

ResourcesNext ==
  \/ part = "ids" /\ ResIds!Next /\ UNCHANGED <<part, bindingVars, overlayVars, classesVars, libRVars, aptVars>>
  \/ part = "binding" /\ Binding!Next /\ UNCHANGED <<part, resIdsVars, overlayVars, classesVars, libRVars, aptVars>>
  \/ part = "overlay" /\ Overlay!Next /\ UNCHANGED <<part, resIdsVars, bindingVars, classesVars, libRVars, aptVars>>
  \/ part = "classes" /\ Patch!Next /\ UNCHANGED <<part, resIdsVars, bindingVars, overlayVars, libRVars, aptVars>>
  \/ part = "libr" /\ LibR!Next /\ UNCHANGED <<part, resIdsVars, bindingVars, overlayVars, classesVars, aptVars>>
  \/ part = "apt" /\ Apt!Next /\ UNCHANGED <<part, resIdsVars, bindingVars, overlayVars, classesVars, libRVars>>

resourcesVars == <<part, resIdsVars, bindingVars, overlayVars, classesVars, libRVars, aptVars>>
ResourcesSpec == ResourcesInit /\ [][ResourcesNext]_resourcesVars

-----------------------------------------------------------------------------
\* Values of the constants that a .cfg cannot write.
TwoEntries == {<<"button", 2>>, <<"title", 3>>}
TwoModules == [app |-> {"app/main", "app/debug"}, lib |-> {"lib/main"}]
AppDirs == <<"app/debug", "app/main">>
LibDirs == <<"lib">>
Archives == <<"archive1", "archive2">>
Extra == <<"extra">>
UiOnCore == {<<"ui", "core">>}
AnnotatedFiles == {[file |-> "Model", anno |-> "Bindable", module |-> "app"],
                   [file |-> "Adapters", anno |-> "BindingAdapter", module |-> "lib"],
                   [file |-> "Graph", anno |-> "DaggerModule", module |-> "lib"],
                   [file |-> "Route", anno |-> "Path", module |-> "app"]}
BoundLayouts == {[imports |-> {[name |-> "User", type |-> "p.User"]}, variables |-> {[word |-> "User"], [word |-> "Model"]}],
                 [imports |-> {}, variables |-> {[class |-> "p.Item"], [class |-> "android.View"]}]}

-----------------------------------------------------------------------------
\* gradle_inc_build.py:410-415, gradle_tools.py:560-640 - an id that compiled code
\* holds is that of the same resource in every later pack, and a name that disappears
\* from the layouts makes no build fail.  See ResourceIds for the exceptions.
IdsStayTrue ==
  part = "ids" => ResIds!TypeOK /\ ResIds!CompiledIdsResolve /\ ResIds!IdsMayDisappear

\* gradle_inc_build.py:312-382, 815-843 - a pack holds every file as the developer left
\* it and takes every resource from where the clean build's pack would; the copies made
\* for data binding neither hide an edit, nor fail, nor overwrite a source.  See
\* DataBinding and ResourceOverlay for the exceptions.
PacksAreCurrent ==
  /\ part = "binding" => /\ Binding!TypeOK /\ Binding!PackIsCurrent /\ Binding!RecordedIsBuilt
                         /\ Binding!PreparationFails /\ Binding!SourcesAreLeftAlone
  /\ part = "overlay" => Overlay!TypeOK /\ Overlay!SamePlaceInBothPacks

\* gradle_inc_build.py:448-502, 583-610, 694-803 - code is compiled with what belongs to
\* it, and the dex holds the result: a library has an R.java as new as the pack, one copy
\* for all, the annotation processor gets the files that exist and concern the module,
\* and the classes of the patch are those of their sources, rewritten by retrolambda.
\* See PatchClasses, LibraryR and AptInputs for the exceptions.
CodeIsCurrent ==
  /\ part = "classes" => Patch!TypeOK /\ Patch!DexIsLowered /\ Patch!ClassesAreCurrent
  /\ part = "libr" => LibR!TypeOK /\ LibR!NewResourcesAreSeen /\ LibR!OneCopyOfEach
  /\ part = "apt" => Apt!TypeOK /\ Apt!AnnotatedFilesAreGiven /\ Apt!NothingGoneIsGiven

\* gradle_inc_build.py:388-441, 467-502, gradle_tools.py:703-724 - from one build to the
\* next: no resource gets another id, every changed file is recorded by a build that
\* succeeds, a resource of a module gives way to none of an archive, and a library's
\* R.java keeps the application's ids.  See the four modules for the exceptions.
LaterBuildsAgree ==
  /\ ResIds!IdsStayFixed
  /\ Binding!SuccessRecordsAll
  /\ Overlay!ModulesComeFirst
  /\ LibR!OwnIdsOnlyIfLate
=============================================================================
