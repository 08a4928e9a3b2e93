SPECIFICATION ProjectSpec
CONSTANTS
  Files = {"A.java", "strings.xml", "a.jar", "app.gradle", "root.gradle"}
  Kind <- OneOfEachKind
  Md5Files = {"app.gradle", "root.gradle"}
  MaxSrc = 1
  MaxClock = 3
  MaxContent = 2
  Modules <- FourModules
  Outside = "jar"
  MaxDeclared = 2
  MaxNested = 1
  MaxTokens = 7
  None = None
INVARIANTS
  ScanIsExact
  ProjectIsRead
CHECK_DEADLOCK FALSE
