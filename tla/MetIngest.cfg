\* f1 is trusted; f2 shows everything a file can do to the process.
SPECIFICATION FairSpec
CONSTANTS
  f1 = f1
  f2 = f2
  Files = {f1, f2}
  Whole = {f1}
  Kinds <- MixedKinds
  Layout <- OneLayout
  AutoRestart = TRUE
  MaxLines <- MixedLines
  MaxCrashes = 1
INVARIANTS TypeOK NoSkippedTrustedRow StoredBehindPosition
PROPERTIES Monotone RefinesIncrementalIngest RowsEventuallyStored
CHECK_DEADLOCK FALSE
