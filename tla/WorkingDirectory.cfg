SPECIFICATION Spec
CONSTANTS
  Proc = {p, q}
  Documents <- SomeDocuments
  None = None
  User = User
  MaxEdits = 2
  MaxFaults = 2
SYMMETRY Symmetry
INVARIANTS RenderedIsWhole OutputsAgree ValidMovesLater
PROPERTIES FailedWriteKeepsOutput OutputSurvives StudentFilesAreKept
