\* Two rows, a run that breaks anywhere, a rebuild and a death.
SPECIFICATION FairSpec
CONSTANTS
  MaxTime = 2
  InOrder = TRUE
  MayRebuild = TRUE
  MaxFaults = 1
  MaxCrashes = 1
  Bad = Bad
  Forged = Forged
  Unreadable = Unreadable
  None = None
  Blank = Blank
INVARIANTS TypeOK LostToTears RepeatedByBreaks NoSkippedAtOther EndsForAReason
PROPERTIES EventuallyAtOther
CHECK_DEADLOCK FALSE
