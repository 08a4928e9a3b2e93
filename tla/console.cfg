SPECIFICATION FairConsoleSpec
CONSTANTS
  MaxMessages = 3
  IsWindows = FALSE
  Height = 6
  StartRow = 4
  NumTasks <- TwoAndOne
  MaxInfos = 2
  Bases = {"red"}
  Styles = {"bold"}
  Size = 1
  MaxDepth = 2
  MaxNames = 2
  None = None
INVARIANTS
  CallIsAnswered
  ScreenIsClean
PROPERTIES
  CursorIsFound
  CallEnds
CHECK_DEADLOCK FALSE
