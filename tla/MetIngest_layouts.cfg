\* Two files with different columns grow in turns.
SPECIFICATION Spec
CONSTANTS
  f1 = f1
  f2 = f2
  Files = {f1, f2}
  Whole = {f1, f2}
  Kinds <- RowsOnly
  Layout <- TwoLayouts
  AutoRestart = TRUE
  MaxLines <- ThreeLines
  MaxCrashes = 0
INVARIANTS RowsUnderOwnHeader
CHECK_DEADLOCK FALSE
