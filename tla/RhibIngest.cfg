\* Two files that share a record, one of which may always raise.
SPECIFICATION FairSpec
CONSTANTS
  f1 = f1
  f2 = f2
  r1 = r1
  Files = {f1, f2}
  Records = {r1}
  Kinds <- MCKinds
  MaxLines <- MCMaxLines
  MaxQueue = 1
  MaxCrashes = 1
  MaxTruncations = 1
INVARIANTS TypeOK NoSkippedUnlessOvergrown NoChangeForgotten
PROPERTIES RecordsEventuallyStored
CHECK_DEADLOCK FALSE
