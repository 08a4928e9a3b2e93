SPECIFICATION SessionSpec
CONSTANTS
  MaxConnections = 3
  None = None
  Names = {"f", "d"}
  MaxDepth = 2
  MaxCommands = 3
  Sessions = {s1, s2}
  Params <- FourParams
  Kept <- OneKept
  MaxChunks = 1
  Unlistable = {}
  Unknown = Unknown
  MaxBytes = 5
SYMMETRY Symmetry
INVARIANTS
  CrashNeedsTermination
  CommandClosesData
  TerminationClosesTransfer
  LosesAtMostOne
  FilesAreAsSent
  SessionsStayApart
  AsciiIsFaithful
PROPERTIES
  KeepsPromise
CHECK_DEADLOCK FALSE
