\* Rows of both tables in any order; a run that fails, and a row too wide.
SPECIFICATION FairJoinSpec
CONSTANTS
  LastTime = 4
  Reach = 1
  Margin = 2
  FileMade = TRUE
  TooWide = {4}
  MaxFailures = 1
INVARIANTS JoinTypeOK JoinedIsFinal FlaggedIsInFile
PROPERTIES EventuallyInFile
CHECK_DEADLOCK FALSE
