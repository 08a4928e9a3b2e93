SPECIFICATION BuildsSpec
CONSTANTS
  Flavors = {"", "red"}
  Packages = {"id", "p", "q"}
  ApplicationId = "id"
  MaxEdits = 2
  MaxBuilds = 2
  MaxSyncs = 2
  Modules = {"app", "lib"}
  OldModules = {"app"}
  CleanEdits = 1
  CleanBuilds = 1
  None = None
INVARIANTS
  PatchFitsApplication
  PatchCompiledAgainstApplication
  CleanBuildIsKnown
CHECK_DEADLOCK FALSE
