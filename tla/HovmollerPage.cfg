\* Two loads that overlap, one of them perhaps answered by an error.
SPECIFICATION FairSpec
CONSTANTS
  a1 = a1
  a2 = a2
  v1 = v1
  v2 = v2
  f1 = f1
  f2 = f2
  None = None
  Empty = Empty
  Undefined = Undefined
  Infinity = Infinity
  Axes = {a1, a2}
  Variables = {v1, v2}
  Values = {1, 2}
  LimitChoices <- MCLimitChoices
  Settings = {f1, f2}
  Selections <- MCSelections
  Clock = {6}
  CRUISE_START_TIME = 2
  MAX_NUMBER_DATAPOINTS = 12
  MaxLoads = 2
INVARIANTS TypeOK PlotIsOneAnswer ColoursFitData LoadedWithinMaximum
PROPERTIES AnswerShownWhole
CHECK_DEADLOCK FALSE
