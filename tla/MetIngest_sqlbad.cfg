\* One value PostgreSQL refuses: the batch around it is skipped for good.
SPECIFICATION Spec
CONSTANTS
  f1 = f1
  f2 = f2
  Files = {f1}
  Whole = {f1}
  Kinds <- RefusedKinds
  Layout <- OneLayout
  AutoRestart = TRUE
  MaxLines <- FourLines
  MaxCrashes = 0
INVARIANTS NoSkippedRow
CHECK_DEADLOCK FALSE
