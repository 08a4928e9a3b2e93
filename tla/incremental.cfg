SPECIFICATION IncrementalSpec
CONSTANTS
  Ports = {1, 2, 3}
  OtherPorts = {1, 3}
  WakeUps = 2
  Times = {5, 6}
  IsArt = TRUE
  MaxTicket = 2
  MaxBuilds = 2
  MaxTrouble = 3
  NoTicket = NoTicket
  Modules = {"app", "lib"}
  Main = "app"
  Deps <- AppOnLib
  DataBinding = {"app"}
  NewBindings = {1}
  Edited <- OneOfEachKind
  MaxEdits = 2
  MaxIncBuilds = 2
  IdNames = {"button", "label"}
  Values = {"title"}
  Documented = {"label"}
  Ids = {1, 2, 3}
  OwnEntries <- TwoEntries
  MaxIdsEdits = 4
  MaxIdsBuilds = 3
  ResModules = {"app", "lib"}
  MainModule = "app"
  BindingModules = {"app", "lib"}
  ResDirs <- TwoModules
  Late = {"app/debug"}
  MaxBindingEdits = 3
  MaxBindingBuilds = 2
  MainDirs <- AppDirs
  LocalDirs <- LibDirs
  DepDirs <- Archives
  ExtraDirs <- Extra
  Backup = "backup"
  EditedDirs = {"app/debug", "app/main", "lib", "extra"}
  MaxOverlayEdits = 3
  Sources = {"A", "B"}
  Related = {"A"}
  Generated = {"G"}
  Contents = {0, 1}
  MaxTime = 2
  MaxClassesEdits = 3
  MaxClassesBuilds = 3
  Libraries = {"ui", "core"}
  LibraryDeps <- UiOnCore
  MaxNames = 2
  MaxLibrBuilds = 4
  AptModules = {"app", "lib"}
  AptDeps <- AppOnLib
  Dagger = FALSE
  Annotated <- AnnotatedFiles
  Classes = {"p.User", "p.Item", "android.View"}
  Platform = {"android.View"}
  ClassSources = {"p.User", "p.Item"}
  Layouts <- BoundLayouts
  MaxAptBuilds = 2
  None = None
INVARIANTS
  PatchedIsAsBelieved
  RefusalHasCause
  NothingIsForgotten
  IdsStayTrue
  PacksAreCurrent
  CodeIsCurrent
PROPERTY LaterBuildsAgree
CHECK_DEADLOCK FALSE
